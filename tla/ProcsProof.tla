----------------------------- MODULE ProcsProof -----------------------------
(***************************************************************************)
(* What becomes of processes: parents and children (ExitWait), broken      *)
(* processes (Broken) and the rendezvous system call (Rendezvous), each    *)
(* for any number of processes.                                            *)
(***************************************************************************)
EXTENDS MCProcs, QueueTheorems

(***************************************************************************)
(* ExitWait.  The code loses count of the children in two cases that TLC   *)
(* shows: when RFNOWAIT is used, and when a child exits while NWAIT        *)
(* records wait with its parent.  Without them p->nchild is right.         *)
(***************************************************************************)
\* No child of a process with NWAIT records is left to exit.
RecordsFit ==
    \A p \in Proc :
        life[p] \in Living /\ children(p) # {} => nwait[p] < NWAIT

\* The states of a process that has a pid.
Known == Living \cup {"breaking", "broken", "dying"}

\* A pid is one process's, for ever.
PidsOK ==
    /\ \A p \in Proc : pid[p] <= pidalloc /\ parentpid[p] <= pidalloc
    /\ \A p, q \in Proc : pid[p] = pid[q] /\ pid[p] # 0 => p = q
    /\ \A p \in Proc : life[p] \in {"free", "gone"} => pid[p] = 0
    /\ \A p \in Proc : life[p] \in Known => pid[p] # 0

ForkOK ==
    /\ \A p \in Proc : forking[p] # nil =>
         life[p] = "alive" /\ life[forking[p]] = "new"
    /\ \A p, q \in Proc : forking[p] # nil /\ forking[q] = forking[p] => p = q

\* A new process has no children, and its pid was never anybody's parentpid.
NewOK ==
    \A p \in Proc : life[p] = "new" =>
        /\ nchild[p] = 0 /\ nwait[p] = 0 /\ waitq[p] = <<>>
        /\ pid[p] # 0 =>
             \A c \in Proc : life[c] \in Living => parentpid[c] # pid[p]

ParentOK ==
    \A c \in Proc : life[c] \in Living /\ parent[c] # nil =>
        parentpid[c] # 0 /\ parent[c] # c

Record == [pid : 1 .. MaxPid, ppid : 0 .. MaxPid]

\* The records are of processes that have exited, one of each.
Recorded(p) ==
    /\ Once(waitq[p])
    /\ \A r \in Record : On(r, waitq[p]) =>
         /\ r.pid <= pidalloc
         /\ \A c \in Proc : life[c] \in Living \cup {"new"} => pid[c] # r.pid
         /\ \A s \in Record : On(s, waitq[p]) /\ s.pid = r.pid => s = r
    /\ life[p] \in Living =>
         /\ nwait[p] = Len(waitq[p])
         /\ \A r \in Record : On(r, waitq[p]) => r.ppid = pid[p]

ExitInv ==
    /\ TypeOK /\ PidsOK /\ ForkOK /\ NewOK /\ ParentOK
    /\ \A p \in Proc : Recorded(p)
    /\ NchildLiving /\ NobodyWaitsInVain

-----------------------------------------------------------------------------
\* A process of which only life changes, and not whether it lives.
LEMMA ExitShift ==
    ASSUME ExitWaitAssumption, ExitInv, NEW c \in Proc, NEW to,
           life' = [life EXCEPT ![c] = to],
           UNCHANGED <<pid, family, records, forking, pidalloc>>,
           \/ life[c] = "breaking" /\ to = "broken"
           \/ life[c] = "broken" /\ to = "dying"
           \/ life[c] = "waiting" /\ to = "alive"
           \/ /\ life[c] = "alive" /\ to = "waiting" /\ forking[c] = nil
              /\ ~(nchild[c] = 0 /\ waitq[c] = <<>>)
    PROVE  ExitInv'
<1>1. /\ TypeOK /\ PidsOK /\ ForkOK /\ NewOK /\ ParentOK
      /\ \A p \in Proc : Recorded(p)
      /\ NchildLiving /\ NobodyWaitsInVain
  BY DEF ExitInv
<1>2. /\ pid' = pid /\ parent' = parent /\ parentpid' = parentpid
      /\ nchild' = nchild /\ nwait' = nwait /\ waitq' = waitq
      /\ forking' = forking /\ pidalloc' = pidalloc
  BY DEF family, records
<1>3. /\ life'[c] = to /\ \A q \in Proc \ {c} : life'[q] = life[q]
      /\ life[c] \in Known /\ to \in Known
      /\ to \in Living <=> life[c] \in Living
      /\ life[c] = "new" <=> to = "new"
  BY <1>1 DEF TypeOK, Known, Living
<1>4. /\ \A q \in Proc : life'[q] \in Living <=> life[q] \in Living
      /\ \A q \in Proc : life'[q] = "new" <=> life[q] = "new"
      /\ \A q \in Proc : life'[q] \in Known <=> life[q] \in Known
      /\ \A q \in Proc : life'[q] \in {"free", "gone"} <=> life[q] \in {"free", "gone"}
  BY <1>3 DEF Known, Living
<1>5. ASSUME NEW q \in Proc PROVE children(q)' = children(q)
  BY <1>2, <1>4 DEF children
<1>6. TypeOK'
  <2>1. life' \in [Proc -> {"free", "new", "alive", "waiting", "breaking",
                           "broken", "dying", "gone"}]
    BY <1>1, <1>3 DEF TypeOK, Known, Living
  <2> QED
    BY <2>1, <1>1, <1>2 DEF TypeOK
<1>7. PidsOK'
  BY <1>1, <1>2, <1>4 DEF PidsOK
<1>8. ForkOK'
  <2>1. forking[c] = nil
    BY <1>1 DEF ForkOK
  <2>2. \A p \in Proc : forking[p] # nil => p # c /\ forking[p] # c
    BY <2>1, <1>1, <1>3 DEF ForkOK, Known, Living
  <2>3. \A p \in Proc : forking[p] # nil => forking[p] \in Proc
    BY <1>1 DEF TypeOK
  <2> QED
    BY <2>2, <2>3, <1>1, <1>2, <1>3 DEF ForkOK
<1>9. NewOK' /\ ParentOK'
  BY <1>1, <1>2, <1>4 DEF NewOK, ParentOK
<1>10. ASSUME NEW p \in Proc PROVE Recorded(p)'
  BY <1>1, <1>2, <1>4 DEF Recorded
<1>11. NchildLiving'
  BY <1>1, <1>2, <1>4, <1>5 DEF NchildLiving
<1>12. NobodyWaitsInVain'
  <2> SUFFICES ASSUME NEW p \in Proc, life'[p] = "waiting", waitq[p] = <<>>
               PROVE  children(p) # {}
    BY <1>2, <1>5 DEF NobodyWaitsInVain
  <2>1. CASE p = c /\ life[c] = "alive"
    <3>1. nchild[c] # 0 /\ nchild[c] = Cardinality(children(c))
      BY <2>1, <1>1, <1>3 DEF NchildLiving, Living
    <3> QED
      BY <2>1, <3>1, FS_EmptySet
  <2>2. CASE life[p] = "waiting"
    BY <2>2, <1>1 DEF NobodyWaitsInVain
  <2> QED
    BY <2>1, <2>2, <1>3
<1> QED
  BY <1>6, <1>7, <1>8, <1>9, <1>10, <1>11, <1>12 DEF ExitInv

\* newproc: a free Proc becomes new.
LEMMA ExitNewproc ==
    ASSUME ExitWaitAssumption, ExitInv, NEW p \in Proc, NEW c \in Proc,
           newproc(p, c)
    PROVE  ExitInv'
<1>1. /\ TypeOK /\ PidsOK /\ ForkOK /\ NewOK /\ ParentOK
      /\ \A q \in Proc : Recorded(q)
      /\ NchildLiving /\ NobodyWaitsInVain
  BY DEF ExitInv
<1>2. /\ life[p] = "alive" /\ forking[p] = nil /\ life[c] = "free"
      /\ life' = [life EXCEPT ![c] = "new"]
      /\ forking' = [forking EXCEPT ![p] = c]
      /\ nchild' = [nchild EXCEPT ![c] = 0]
      /\ nwait' = [nwait EXCEPT ![c] = 0]
      /\ waitq' = [waitq EXCEPT ![c] = <<>>]
      /\ parent' = [parent EXCEPT ![c] = nil]
      /\ pid' = pid /\ parentpid' = parentpid /\ pidalloc' = pidalloc
  BY DEF newproc, becomes
<1>3. /\ life'[c] = "new" /\ nchild'[c] = 0 /\ nwait'[c] = 0
      /\ waitq'[c] = <<>> /\ parent'[c] = nil
      /\ \A q \in Proc \ {c} :
           /\ life'[q] = life[q] /\ nchild'[q] = nchild[q]
           /\ nwait'[q] = nwait[q] /\ waitq'[q] = waitq[q]
           /\ parent'[q] = parent[q]
      /\ forking'[p] = c /\ \A q \in Proc \ {p} : forking'[q] = forking[q]
      /\ pid[c] = 0
  BY <1>1, <1>2 DEF TypeOK, PidsOK
<1>4. \A q \in Proc : life'[q] \in Living <=> life[q] \in Living
  BY <1>2, <1>3 DEF Living
<1>5. ASSUME NEW q \in Proc PROVE children(q)' = children(q)
  BY <1>2, <1>3, <1>4 DEF children, Living
<1>6. TypeOK'
  <2>1. /\ life' \in [Proc -> {"free", "new", "alive", "waiting", "breaking",
                              "broken", "dying", "gone"}]
        /\ nchild' \in [Proc -> Int] /\ nwait' \in [Proc -> Nat]
        /\ parent' \in [Proc -> Proc \cup {nil}]
        /\ forking' \in [Proc -> Proc \cup {nil}]
    BY SMTT(30), <1>1, <1>2 DEF TypeOK
  <2>2. waitq' \in [Proc -> Seq([pid : 1 .. MaxPid, ppid : 0 .. MaxPid])]
    <3>1. PICK S : S = Seq([pid : 1 .. MaxPid, ppid : 0 .. MaxPid])
      OBVIOUS
    <3>2. <<>> \in S
      BY <3>1, EmptySeq
    <3>3. waitq \in [Proc -> S]
      BY <3>1, <1>1 DEF TypeOK
    <3> QED
      BY <3>1, <3>2, <3>3, <1>2
  <2> QED
    BY <2>1, <2>2, <1>1, <1>2 DEF TypeOK
<1>7. PidsOK'
  BY <1>1, <1>2, <1>3 DEF PidsOK, Known, Living
<1>8. ForkOK'
  <2>1. \A q \in Proc : forking[q] # nil => forking[q] \in Proc /\ q # c /\ forking[q] # c
    BY <1>1, <1>2 DEF ForkOK, TypeOK
  <2> QED
    BY <2>1, <1>1, <1>2, <1>3 DEF ForkOK
<1>9. NewOK' /\ ParentOK'
  BY <1>1, <1>2, <1>3, <1>4 DEF NewOK, ParentOK, Living
<1>10. ASSUME NEW q \in Proc PROVE Recorded(q)'
  <2>1. CASE q = c
    <3>1. Once(<<>>) /\ \A r : ~On(r, <<>>)
      BY DEF Once, On
    <3> QED
      BY <2>1, <3>1, <1>3 DEF Recorded, Living
  <2>2. CASE q # c
    <3>1. \A r \in Record : pid[c] # r.pid
      BY <1>3 DEF Record, ExitWaitAssumption
    <3> QED
      BY <2>2, <3>1, <1>1, <1>2, <1>3 DEF Recorded
  <2> QED
    BY <2>1, <2>2
<1>11. NchildLiving' /\ NobodyWaitsInVain'
  BY <1>1, <1>2, <1>3, <1>4, <1>5 DEF NchildLiving, NobodyWaitsInVain, Living
<1> QED
  BY <1>6, <1>7, <1>8, <1>9, <1>10, <1>11 DEF ExitInv

\* The rest of newproc: it has a pid that nobody had before.
LEMMA ExitNewprocPid ==
    ASSUME ExitWaitAssumption, ExitInv, NEW p \in Proc, newprocPid(p)
    PROVE  ExitInv'
<1>1. /\ TypeOK /\ PidsOK /\ ForkOK /\ NewOK /\ ParentOK
      /\ \A q \in Proc : Recorded(q)
      /\ NchildLiving /\ NobodyWaitsInVain
  BY DEF ExitInv
<1>2. PICK c \in Proc : c = forking[p] /\ life[c] = "new" /\ pid[c] = 0
  BY <1>1 DEF newprocPid, ForkOK, TypeOK
<1>3. PICK n \in Nat : n = pidalloc + 1 /\ n <= MaxPid
  BY <1>1 DEF newprocPid, TypeOK, ExitWaitAssumption
<1>4. /\ pidalloc' = n /\ pid' = [pid EXCEPT ![c] = n]
      /\ life' = life /\ parent' = parent /\ parentpid' = parentpid
      /\ nchild' = nchild /\ nwait' = nwait /\ waitq' = waitq
      /\ forking' = forking
      /\ pidalloc \in Nat /\ pidalloc < n /\ MaxPid \in Nat /\ n # 0
  <2>1. pidalloc \in Nat /\ MaxPid \in Nat
    BY <1>1 DEF TypeOK, ExitWaitAssumption
  <2>2. pidalloc' = n /\ pid' = [pid EXCEPT ![c] = n]
    BY <1>2, <1>3 DEF newprocPid
  <2>3. UNCHANGED <<life, family, records, forking>>
    BY DEF newprocPid
  <2>4. pidalloc < n /\ n # 0
    BY <2>1, <1>3
  <2> QED
    BY <2>1, <2>2, <2>3, <2>4 DEF family, records
<1>5. pid'[c] = n /\ \A q \in Proc \ {c} : pid'[q] = pid[q]
  BY <1>1, <1>4 DEF TypeOK
<1>6. \A q \in Proc : /\ pid[q] \in Nat /\ parentpid[q] \in Nat
                      /\ pid[q] <= pidalloc /\ parentpid[q] <= pidalloc
                      /\ pid[q] # n /\ parentpid[q] # n
                      /\ pid'[q] <= n /\ parentpid[q] <= n
  <2> SUFFICES ASSUME NEW q \in Proc
               PROVE  /\ pid[q] \in Nat /\ parentpid[q] \in Nat
                      /\ pid[q] <= pidalloc /\ parentpid[q] <= pidalloc
                      /\ pid[q] # n /\ parentpid[q] # n
                      /\ pid'[q] <= n /\ parentpid[q] <= n
    OBVIOUS
  <2>1. pid[q] \in Nat /\ parentpid[q] \in Nat /\ pid[q] <= pidalloc
        /\ parentpid[q] <= pidalloc
    BY <1>1 DEF PidsOK, TypeOK
  <2> QED
    BY <2>1, <1>3, <1>4, <1>5
<1>7. ASSUME NEW q \in Proc, life[q] \in Living
      PROVE children(q)' = children(q) /\ q # c
  BY <1>2, <1>4, <1>5, <1>7 DEF children, Living
<1>8. TypeOK'
  <2>1. n \in 1 .. MaxPid /\ n \in 0 .. MaxPid
    BY <1>3, <1>4
  <2> QED
    BY <2>1, <1>1, <1>4 DEF TypeOK
<1>9. PidsOK'
  BY <1>1, <1>2, <1>4, <1>5, <1>6 DEF PidsOK
<1>10. ForkOK' /\ ParentOK'
  BY <1>1, <1>4 DEF ForkOK, ParentOK
<1>11. NewOK'
  BY <1>1, <1>4, <1>5, <1>6 DEF NewOK
<1>12. ASSUME NEW q \in Proc PROVE Recorded(q)'
  <2>1. \A r \in Record : r.pid <= pidalloc => r.pid <= n /\ r.pid # n
    BY <1>3, <1>4 DEF Record
  <2>2. life[q] \in Living => q # c
    BY <1>2 DEF Living
  <2> QED
    BY <2>1, <2>2, <1>1, <1>2, <1>4, <1>5 DEF Recorded, Living
<1>13. NchildLiving' /\ NobodyWaitsInVain'
  BY <1>1, <1>4, <1>7 DEF NchildLiving, NobodyWaitsInVain, Living
<1> QED
  BY <1>8, <1>9, <1>10, <1>11, <1>12, <1>13 DEF ExitInv


\* The end of sysrfork: the child lives, and its parent counts it.
LEMMA ExitSysrfork ==
    ASSUME ExitWaitAssumption, ExitInv, NEW p \in Proc, sysrfork(p, FALSE)
    PROVE  ExitInv'
<1>1. /\ TypeOK /\ PidsOK /\ ForkOK /\ NewOK /\ ParentOK
      /\ \A q \in Proc : Recorded(q)
      /\ NchildLiving /\ NobodyWaitsInVain
  BY DEF ExitInv
<1>2. PICK c \in Proc : c = forking[p] /\ life[c] = "new" /\ pid[c] # 0
                        /\ life[p] = "alive"
  BY <1>1 DEF sysrfork, ForkOK, TypeOK
<1>3. PICK n \in 1 .. MaxPid : n = pid[p] /\ n <= pidalloc
  <2>1. pid[p] # 0 /\ pid[p] \in 0 .. MaxPid /\ pid[p] <= pidalloc
    BY <1>1, <1>2 DEF PidsOK, TypeOK, Known, Living
  <2>2. pid[p] \in 1 .. MaxPid
    BY <2>1 DEF ExitWaitAssumption
  <2> QED
    BY <2>1, <2>2
<1>4. /\ life' = [life EXCEPT ![c] = "alive"]
      /\ parent' = [parent EXCEPT ![c] = p]
      /\ parentpid' = [parentpid EXCEPT ![c] = n]
      /\ nchild' = [nchild EXCEPT ![p] = nchild[p] + 1]
      /\ forking' = [forking EXCEPT ![p] = nil]
      /\ pid' = pid /\ nwait' = nwait /\ waitq' = waitq /\ pidalloc' = pidalloc
  BY <1>2, <1>3 DEF sysrfork, becomes
<1>5. /\ c # p /\ n # 0
      /\ life'[c] = "alive" /\ parent'[c] = p /\ parentpid'[c] = n
      /\ nchild'[p] = nchild[p] + 1 /\ forking'[p] = nil
      /\ \A q \in Proc \ {c} : /\ life'[q] = life[q] /\ parent'[q] = parent[q]
                               /\ parentpid'[q] = parentpid[q]
      /\ \A q \in Proc \ {p} : nchild'[q] = nchild[q] /\ forking'[q] = forking[q]
  <2>1. c # p /\ n # 0
    BY <1>2, <1>3
  <2>2. DOMAIN life = Proc /\ DOMAIN parent = Proc /\ DOMAIN parentpid = Proc
    BY <1>1 DEF TypeOK
  <2>3. DOMAIN nchild = Proc /\ DOMAIN forking = Proc
    BY <1>1 DEF TypeOK
  <2>4. /\ life'[c] = "alive" /\ parent'[c] = p /\ parentpid'[c] = n
        /\ \A q \in Proc \ {c} :
              /\ life'[q] = life[q] /\ parent'[q] = parent[q]
              /\ parentpid'[q] = parentpid[q]
    BY <1>4, <2>2
  <2>5. /\ nchild'[p] = nchild[p] + 1 /\ forking'[p] = nil
        /\ \A q \in Proc \ {p} :
              nchild'[q] = nchild[q] /\ forking'[q] = forking[q]
    BY <1>4, <2>3
  <2> QED
    BY <2>1, <2>4, <2>5
<1>6. life[c] \notin Living /\ life'[c] \in Living /\ life[p] \in Living
  BY <1>2, <1>5 DEF Living
<1>7. /\ children(p)' = children(p) \cup {c}
      /\ c \notin children(p)
      /\ \A q \in Proc \ {p} : pid[c] # n
  <2>1. \A q \in Proc \ {c} :
          /\ life'[q] \in Living <=> life[q] \in Living
          /\ parent'[q] = parent[q] /\ parentpid'[q] = parentpid[q]
    BY <1>5
  <2>2. c \notin children(p)
    BY <1>6 DEF children
  <2>3. children(p)' = {q \in Proc : /\ life'[q] \in Living /\ parent'[q] = p
                                     /\ parentpid'[q] = n}
    BY <1>3, <1>4 DEF children, Living
  <2>4. children(p) = {q \in Proc : /\ life[q] \in Living /\ parent[q] = p
                                    /\ parentpid[q] = n}
    BY <1>3 DEF children
  <2>5. pid[c] # n
    BY <1>1, <1>2, <1>3, <1>5 DEF PidsOK
  <2> QED
    BY <2>1, <2>2, <2>3, <2>4, <2>5, <1>5, <1>6
<1>8. ASSUME NEW q \in Proc \ {p, c}, life[q] \in Living
      PROVE  children(q)' = children(q)
  <2>1. \A d \in Proc : life'[d] \in Living /\ parent'[d] = q =>
          d # c /\ life[d] \in Living /\ parent[d] = q /\ parentpid'[d] = parentpid[d]
    BY <1>5
  <2>2. \A d \in Proc : life[d] \in Living /\ parent[d] = q =>
          d # c /\ life'[d] \in Living /\ parent'[d] = q /\ parentpid'[d] = parentpid[d]
    BY <1>5, <1>6
  <2> QED
    BY <2>1, <2>2, <1>4 DEF children, Living
<1>9. children(c)' = {}
  <2>1. \A d \in Proc : life[d] \in Living => parentpid[d] # pid[c]
    BY <1>1, <1>2 DEF NewOK
  <2>2. \A d \in Proc : life'[d] \in Living /\ parent'[d] = c =>
          d # c /\ life[d] \in Living /\ parentpid'[d] = parentpid[d]
    BY <1>5
  <2> QED
    BY <2>1, <2>2, <1>4 DEF children, Living
<1>10. TypeOK'
  <2>1. nchild[p] + 1 \in Int /\ n \in 0 .. MaxPid
    BY SMTT(30), <1>1, <1>3 DEF TypeOK
  <2> QED
    BY <2>1, <1>1, <1>4 DEF TypeOK
<1>11. PidsOK'
  <2>1. \A q \in Proc : parentpid'[q] <= pidalloc
    BY <1>1, <1>3, <1>5 DEF PidsOK
  <2>2. \A q \in Proc : life'[q] \in {"free", "gone"} => life[q] \in {"free", "gone"}
    BY <1>5
  <2>3. \A q \in Proc : life'[q] \in Known => life[q] \in Known \/ q = c
    BY <1>5
  <2> QED
    BY <2>1, <2>2, <2>3, <1>1, <1>2, <1>4 DEF PidsOK
<1>12. ForkOK'
  <2>1. \A q \in Proc : forking'[q] # nil =>
          q # p /\ forking'[q] = forking[q] /\ forking[q] # c
    BY <1>1, <1>2, <1>5 DEF ForkOK
  <2>2. \A q \in Proc : forking[q] # nil => q # c /\ forking[q] \in Proc
    BY <1>1, <1>2 DEF ForkOK, TypeOK
  <2> QED
    BY <2>1, <2>2, <1>1, <1>5 DEF ForkOK
<1>13. NewOK'
  <2> SUFFICES ASSUME NEW q \in Proc, life'[q] = "new"
               PROVE  /\ nchild'[q] = 0 /\ nwait'[q] = 0 /\ waitq'[q] = <<>>
                      /\ pid'[q] # 0 =>
                           \A d \in Proc : life'[d] \in Living => parentpid'[d] # pid'[q]
    BY DEF NewOK, Living
  <2>1. q # c /\ q # p /\ life[q] = "new"
    BY <1>2, <1>5
  <2>2. pid[q] # n
    <3>1. pid[q] = pid[p] => pid[p] = 0 \/ q = p
      BY <1>1 DEF PidsOK
    <3> QED
      BY <2>1, <3>1, <1>3, <1>5
  <2> QED
    BY <2>1, <2>2, <1>1, <1>4, <1>5 DEF NewOK
<1>14. ParentOK'
  BY <1>1, <1>5 DEF ParentOK, Living
<1>15. ASSUME NEW q \in Proc PROVE Recorded(q)'
  <2>1. \A d \in Proc : life'[d] \in Living \cup {"new"} =>
                          life[d] \in Living \cup {"new"}
    BY <1>2, <1>5
  <2>2. CASE q = c
    <3>1. nwait[c] = 0 /\ waitq[c] = <<>>
      BY <1>1, <1>2 DEF NewOK
    <3>2. Once(<<>>) /\ (\A r : ~On(r, <<>>)) /\ Len(<<>>) = 0
      BY DEF Once, On
    <3> QED
      BY <2>2, <3>1, <3>2, <1>4 DEF Recorded
  <2>3. CASE q # c
    BY <2>1, <2>3, <1>1, <1>4, <1>5 DEF Recorded
  <2> QED
    BY <2>2, <2>3
<1>16. NchildLiving'
  <2> SUFFICES ASSUME NEW q \in Proc, life'[q] \in Living
               PROVE  nchild'[q] = Cardinality(children(q)')
    BY DEF NchildLiving, Living
  <2>1. CASE q = p
    <3>1. IsFiniteSet(children(p))
      BY FS_Subset DEF children, ExitWaitAssumption
    <3>2. nchild[p] = Cardinality(children(p))
      BY <1>1, <1>6 DEF NchildLiving
    <3>3. Cardinality(children(p) \cup {c}) = nchild[p] + 1
      BY <3>1, <3>2, <1>7, FS_AddElement
    <3> QED
      BY <2>1, <3>3, <1>5, <1>7
  <2>2. CASE q = c
    <3>1. nchild[c] = 0
      BY <1>1, <1>2 DEF NewOK
    <3> QED
      BY <2>2, <3>1, <1>5, <1>9, FS_EmptySet
  <2>3. CASE q \notin {p, c}
    BY <2>3, <1>1, <1>5, <1>8 DEF NchildLiving
  <2> QED
    BY <2>1, <2>2, <2>3
<1>17. NobodyWaitsInVain'
  <2> SUFFICES ASSUME NEW q \in Proc, life'[q] = "waiting", waitq'[q] = <<>>
               PROVE  children(q)' # {}
    BY DEF NobodyWaitsInVain
  <2>1. q \notin {p, c} /\ life[q] = "waiting"
    BY <1>2, <1>5
  <2> QED
    BY <2>1, <1>1, <1>4, <1>8 DEF NobodyWaitsInVain, Living
<1> QED
  BY <1>10, <1>11, <1>12, <1>13, <1>14, <1>15, <1>16, <1>17 DEF ExitInv

\* pexit: the child no longer lives, and it leaves a record with its parent
\* if that one counted it.
LEMMA ExitPexit ==
    ASSUME ExitWaitAssumption, ExitInv, RecordsFit,
           NEW c \in Proc, NEW freemem \in BOOLEAN, pexit(c, freemem)
    PROVE  ExitInv'
<1>1. /\ TypeOK /\ PidsOK /\ ForkOK /\ NewOK /\ ParentOK
      /\ \A q \in Proc : Recorded(q)
      /\ NchildLiving /\ NobodyWaitsInVain
  BY DEF ExitInv
<1>2. PICK p \in Proc : /\ p = parent[c] /\ life[c] = "alive" /\ forking[c] = nil
                        /\ p # c /\ parentpid[c] # 0
  BY <1>1 DEF pexit, becomes, ParentOK, TypeOK, Living, ExitWaitAssumption
<1>3. PICK to \in {"dying", "breaking"} : life' = [life EXCEPT ![c] = to]
  BY DEF pexit, becomes
<1>4. pid' = pid /\ parent' = parent /\ parentpid' = parentpid
      /\ forking' = forking /\ pidalloc' = pidalloc
  BY DEF pexit, family
<1>5. /\ life'[c] = to /\ \A q \in Proc \ {c} : life'[q] = life[q]
      /\ life[c] \in Living /\ life'[c] \notin Living /\ life'[c] # "new"
  BY <1>1, <1>2, <1>3 DEF TypeOK, Living
<1>6. PICK r \in Record : /\ r = [pid |-> pid[c], ppid |-> parentpid[c]]
                          /\ r.pid = pid[c] /\ r.ppid = parentpid[c]
  <2>1. pid[c] \in 1 .. MaxPid
    BY SMTT(30), <1>1, <1>5 DEF TypeOK, PidsOK, Known, ExitWaitAssumption
  <2>2. [pid |-> pid[c], ppid |-> parentpid[c]] \in Record
    BY <2>1, <1>1 DEF TypeOK, Record
  <2> QED
    BY <2>2
<1>7. PICK s \in Seq(Record) : s = waitq[p]
  BY <1>1 DEF TypeOK, Record
<1>8. PICK t : t = <<r>> \o s
  OBVIOUS
<1>9. /\ t \in Seq(Record) /\ t # <<>> /\ Len(t) = Len(s) + 1
      /\ \A q : On(q, t) <=> On(q, s) \/ q = r
      /\ ~On(r, s) => Once(t)
  <2>1. Once(s)
    BY <1>1, <1>7 DEF Recorded
  <2>2. /\ t \in Seq(Record) /\ Len(t) = Len(s) + 1
        /\ \A q : On(q, t) <=> On(q, s) \/ q = r
        /\ ~On(r, s) => Once(t)
    BY <2>1, <1>8, PushQueue
  <2>3. t # <<>>
    BY <2>2, LenProperties, EmptySeq
  <2> QED
    BY <2>2, <2>3
\* The others have the children that they had.
<1>10. ASSUME NEW q \in Proc PROVE children(q)' = children(q) \ {c}
  BY <1>4, <1>5 DEF children, Living
<1>11. ASSUME NEW q \in Proc, q # p PROVE c \notin children(q)
  BY <1>2, <1>11 DEF children
<1>12. life' \in [Proc -> {"free", "new", "alive", "waiting", "breaking",
                          "broken", "dying", "gone"}]
  BY <1>1, <1>3 DEF TypeOK
<1>13. PidsOK'
  BY <1>1, <1>4, <1>5 DEF PidsOK, Known
<1>14. ForkOK'
  <2>1. \A q \in Proc : forking[q] # nil => forking[q] \in Proc /\ q # c
                                            /\ forking[q] # c
    BY ZenonT(40), <1>1, <1>2 DEF ForkOK, TypeOK
  <2> QED
    BY <2>1, <1>1, <1>4, <1>5 DEF ForkOK
<1>15. ParentOK'
  BY <1>1, <1>4, <1>5 DEF ParentOK
<1>16. CASE leavesRecord(c)
  <2>1. /\ nchild' = [nchild EXCEPT ![p] = nchild[p] - 1]
        /\ nwait' = [nwait EXCEPT ![p] = nwait[p] + 1]
        /\ waitq' = [waitq EXCEPT ![p] = t]
        /\ pid[p] = parentpid[c]
    BY <1>2, <1>6, <1>7, <1>8, <1>16 DEF pexit, record, leavesRecord
  <2>2. /\ nchild'[p] = nchild[p] - 1 /\ nwait'[p] = nwait[p] + 1
        /\ waitq'[p] = t
        /\ \A q \in Proc \ {p} : /\ nchild'[q] = nchild[q] /\ nwait'[q] = nwait[q]
                                 /\ waitq'[q] = waitq[q]
    BY <2>1, <1>1 DEF TypeOK
  <2>3. c \in children(p)
    BY <2>1, <1>2, <1>5 DEF children
  <2>4. TypeOK'
    <3>1. /\ nchild[p] - 1 \in Int /\ nwait[p] + 1 \in Nat
          /\ waitq \in [Proc -> Seq(Record)]
      <4>1. nchild[p] \in Int /\ nwait[p] \in Nat
        BY <1>1 DEF TypeOK
      <4>2. waitq \in [Proc -> Seq(Record)]
        BY <1>1 DEF TypeOK, Record
      <4> QED
        BY <4>1, <4>2
    <3>2. waitq' \in [Proc -> Seq(Record)]
      BY <2>1, <3>1, <1>9
    <3>3. nchild' \in [Proc -> Int] /\ nwait' \in [Proc -> Nat]
      BY <2>1, <3>1, <1>1 DEF TypeOK
    <3> QED
      BY <3>2, <3>3, <1>1, <1>4, <1>12 DEF TypeOK, Record
  <2>5. life[p] # "new"
    BY <2>1, <1>1, <1>2, <1>5 DEF NewOK
  <2>6. NewOK'
    BY <2>2, <2>5, <1>1, <1>4, <1>5 DEF NewOK
  <2>7. Recorded(p)'
    <3>1. \A x \in Record : On(x, s) => x.pid # r.pid
      BY <1>1, <1>5, <1>6, <1>7 DEF Recorded
    <3>2. Once(t)
      BY <3>1, <1>6, <1>9
    <3>3. \A x \in Record : On(x, t) =>
            /\ x.pid <= pidalloc
            /\ \A d \in Proc : life'[d] \in Living \cup {"new"} => pid[d] # x.pid
            /\ \A y \in Record : On(y, t) /\ y.pid = x.pid => y = x
      <4>1. r.pid <= pidalloc
        BY <1>1, <1>6 DEF PidsOK
      <4>2. \A d \in Proc : life'[d] \in Living \cup {"new"} => pid[d] # r.pid
        BY <1>1, <1>5, <1>6 DEF PidsOK, Known
      <4>3. \A d \in Proc : life'[d] \in Living \cup {"new"} =>
                             life[d] \in Living \cup {"new"}
        BY <1>5
      <4>4. \A x \in Record : On(x, s) =>
              /\ x.pid <= pidalloc
              /\ \A d \in Proc : life[d] \in Living \cup {"new"} => pid[d] # x.pid
              /\ \A y \in Record : On(y, s) /\ y.pid = x.pid => y = x
        BY <1>1, <1>7 DEF Recorded
      <4> QED
        BY <4>1, <4>2, <4>3, <4>4, <3>1, <1>9
    <3>4. life[p] \in Living =>
            /\ nwait'[p] = Len(t)
            /\ \A x \in Record : On(x, t) => x.ppid = pid[p]
      BY <2>1, <2>2, <1>1, <1>6, <1>7, <1>9 DEF Recorded
    <3> QED
      BY <2>2, <3>2, <3>3, <3>4, <1>2, <1>4, <1>5 DEF Recorded, Living
  <2>8. ASSUME NEW q \in Proc, q # p PROVE Recorded(q)'
    <3>1. \A d \in Proc : life'[d] \in Living \cup {"new"} =>
                            life[d] \in Living \cup {"new"}
      BY <1>5
    <3>2. life'[q] \in Living => life[q] \in Living
      BY <1>5
    <3> QED
      BY <2>2, <2>8, <3>1, <3>2, <1>1, <1>4 DEF Recorded, Living
  <2>9. NchildLiving'
    <3> SUFFICES ASSUME NEW q \in Proc, life'[q] \in Living
                 PROVE  nchild'[q] = Cardinality(children(q)')
      BY DEF NchildLiving, Living
    <3>1. nchild[q] = Cardinality(children(q)) /\ q # c
      BY <1>1, <1>5 DEF NchildLiving
    <3>2. CASE q = p
      <4>1. IsFiniteSet(children(p))
        BY FS_Subset DEF children, ExitWaitAssumption
      <4>2. Cardinality(children(p) \ {c}) = nchild[p] - 1
        BY <2>3, <3>1, <3>2, <4>1, FS_RemoveElement
      <4> QED
        BY <2>2, <3>2, <4>2, <1>10
    <3>3. CASE q # p
      BY <2>2, <3>1, <3>3, <1>10, <1>11
    <3> QED
      BY <3>2, <3>3
  <2>10. NobodyWaitsInVain'
    <3> SUFFICES ASSUME NEW q \in Proc, life'[q] = "waiting", waitq'[q] = <<>>
                 PROVE  children(q)' # {}
      BY DEF NobodyWaitsInVain
    <3>1. q # p /\ q # c /\ life[q] = "waiting"
      BY <2>2, <1>3, <1>5, <1>9
    <3> QED
      BY <2>2, <3>1, <1>1, <1>10, <1>11 DEF NobodyWaitsInVain
  <2> QED
    BY <2>4, <2>6, <2>7, <2>8, <2>9, <2>10, <1>13, <1>14, <1>15 DEF ExitInv
<1>17. CASE ~leavesRecord(c)
  <2>1. nchild' = nchild /\ nwait' = nwait /\ waitq' = waitq
    BY <1>17 DEF pexit, records
\* The parent did not count c: it is another process, or ends itself.
  <2>2. ASSUME NEW q \in Proc, life[q] \in Living PROVE c \notin children(q)
    BY <2>2, <1>17, <1>2 DEF children, RecordsFit, leavesRecord, Living
  <2>3. TypeOK'
    BY <2>1, <1>1, <1>4, <1>12 DEF TypeOK
  <2>4. NewOK'
    BY <2>1, <1>1, <1>4, <1>5 DEF NewOK
  <2>5. ASSUME NEW q \in Proc PROVE Recorded(q)'
    <3>1. \A d \in Proc : life'[d] \in Living \cup {"new"} =>
                            life[d] \in Living \cup {"new"}
      BY <1>5
    <3>2. life'[q] \in Living => life[q] \in Living
      BY <1>5
    <3> QED
      BY <2>1, <3>1, <3>2, <1>1, <1>4 DEF Recorded, Living
  <2>6. NchildLiving' /\ NobodyWaitsInVain'
    <3>1. \A q \in Proc : life'[q] \in Living => life[q] \in Living /\ life'[q] = life[q]
      BY <1>5
    <3>2. ASSUME NEW q \in Proc, life[q] \in Living PROVE children(q)' = children(q)
      BY <2>2, <3>2, <1>10
    <3> QED
      BY <2>1, <3>1, <3>2, <1>1 DEF NchildLiving, NobodyWaitsInVain, Living
  <2> QED
    BY <2>3, <2>4, <2>5, <2>6, <1>13, <1>14, <1>15 DEF ExitInv
<1> QED
  BY <1>16, <1>17


\* The end of pexit: no pid any more; then no records and a free Proc.
LEMMA ExitGone ==
    ASSUME ExitWaitAssumption, ExitInv, NEW c \in Proc,
           pexitPid(c) \/ pexitFree(c)
    PROVE  ExitInv'
<1>1. /\ TypeOK /\ PidsOK /\ ForkOK /\ NewOK /\ ParentOK
      /\ \A q \in Proc : Recorded(q)
      /\ NchildLiving /\ NobodyWaitsInVain
  BY DEF ExitInv
<1>2. /\ parent' = parent /\ parentpid' = parentpid
      /\ nchild' = nchild /\ nwait' = nwait
      /\ forking' = forking /\ pidalloc' = pidalloc
      /\ \/ /\ life[c] = "dying" /\ life' = [life EXCEPT ![c] = "gone"]
            /\ pid' = [pid EXCEPT ![c] = 0] /\ waitq' = waitq
         \/ /\ life[c] = "gone" /\ life' = [life EXCEPT ![c] = "free"]
            /\ pid' = pid /\ waitq' = [waitq EXCEPT ![c] = <<>>]
  <2>1. CASE pexitPid(c)
    BY <2>1 DEF pexitPid, becomes, family, records
  <2>2. CASE pexitFree(c)
    BY <2>2 DEF pexitFree, becomes, family
  <2> QED
    BY <2>1, <2>2
<1>3. /\ life'[c] \in {"gone", "free"} /\ pid'[c] = 0
      /\ waitq'[c] \in {waitq[c], <<>>}
      /\ \A q \in Proc \ {c} : /\ life'[q] = life[q] /\ pid'[q] = pid[q]
                               /\ waitq'[q] = waitq[q]
      /\ life[c] \in {"dying", "gone"}
  BY <1>1, <1>2 DEF TypeOK, PidsOK
<1>4. \A q \in Proc : life'[q] \in Living \cup {"new"} =>
                        q # c /\ life[q] = life'[q] /\ pid'[q] = pid[q]
  BY <1>3 DEF Living
<1>5. ASSUME NEW q \in Proc, life[q] \in Living PROVE children(q)' = children(q)
  <2>1. \A d \in Proc : life'[d] \in Living <=> life[d] \in Living
    BY <1>3 DEF Living
  <2>2. pid'[q] = pid[q]
    BY <1>3, <1>5 DEF Living
  <2> QED
    BY <2>1, <2>2, <1>2 DEF children, Living
<1>6. TypeOK'
  <2>1. pid' \in [Proc -> 0 .. MaxPid]
    <3>1. 0 \in 0 .. MaxPid
      BY DEF ExitWaitAssumption
    <3>2. pid \in [Proc -> 0 .. MaxPid]
      BY <1>1 DEF TypeOK
    <3> QED
      BY <3>1, <3>2, <1>2
  <2>2. life' \in [Proc -> {"free", "new", "alive", "waiting", "breaking",
                           "broken", "dying", "gone"}]
    BY ZenonT(40), <1>1, <1>2 DEF TypeOK
  <2>3. waitq' \in [Proc -> Seq([pid : 1 .. MaxPid, ppid : 0 .. MaxPid])]
    <3>1. PICK S : S = Seq([pid : 1 .. MaxPid, ppid : 0 .. MaxPid])
      OBVIOUS
    <3>2. <<>> \in S
      BY <3>1, EmptySeq
    <3>3. waitq \in [Proc -> S]
      BY <3>1, <1>1 DEF TypeOK
    <3> QED
      BY <3>1, <3>2, <3>3, <1>2
  <2> QED
    BY <2>1, <2>2, <2>3, <1>1, <1>2 DEF TypeOK
<1>7. PidsOK'
  <2>1. pid'[c] <= pidalloc
    BY <1>1, <1>3 DEF TypeOK, ExitWaitAssumption
  <2>2. \A q \in Proc : life'[q] \in Known => q # c /\ life[q] = life'[q]
    BY <1>3 DEF Known, Living
  <2> QED
    BY <2>1, <2>2, <1>1, <1>2, <1>3 DEF PidsOK
<1>8. ForkOK'
  <2>1. \A q \in Proc : forking[q] # nil => q # c /\ forking[q] # c
    BY <1>1, <1>3 DEF ForkOK
  <2>2. \A q \in Proc : forking[q] # nil => forking[q] \in Proc
    BY <1>1 DEF TypeOK
  <2> QED
    BY <2>1, <2>2, <1>1, <1>2, <1>3 DEF ForkOK
<1>9. NewOK' /\ ParentOK'
  <2>1. NewOK'
    BY <1>1, <1>2, <1>3, <1>4 DEF NewOK, Living
  <2>2. ParentOK'
    BY <1>1, <1>2, <1>3, <1>4 DEF ParentOK, Living
  <2> QED
    BY <2>1, <2>2
<1>10. ASSUME NEW q \in Proc PROVE Recorded(q)'
  <2>1. Once(<<>>) /\ (\A r : ~On(r, <<>>))
    BY DEF Once, On
  <2>2. life'[q] \in Living => life[q] \in Living /\ pid'[q] = pid[q]
    BY <1>4
  <2>3. waitq'[q] = waitq[q] \/ (waitq'[q] = <<>> /\ life'[q] \notin Living)
    BY <1>3 DEF Living
  <2>4. \A d \in Proc : life'[d] \in Living \cup {"new"} =>
                          life[d] \in Living \cup {"new"} /\ pid'[d] = pid[d]
    BY <1>4
  <2> QED
    BY <2>1, <2>2, <2>3, <2>4, <1>1, <1>2 DEF Recorded, Living
<1>11. NchildLiving' /\ NobodyWaitsInVain'
  <2>1. \A q \in Proc : life'[q] \in Living =>
          life[q] \in Living /\ life'[q] = life[q] /\ waitq'[q] = waitq[q]
    BY <1>3, <1>4
  <2> QED
    BY <2>1, <1>1, <1>2, <1>5 DEF NchildLiving, NobodyWaitsInVain, Living
<1> QED
  BY <1>6, <1>7, <1>8, <1>9, <1>10, <1>11 DEF ExitInv

\* pwait takes the first record.
LEMMA ExitCollect ==
    ASSUME ExitWaitAssumption, ExitInv, NEW p \in Proc, pwaitReturn(p)
    PROVE  ExitInv'
<1>1. /\ TypeOK /\ PidsOK /\ ForkOK /\ NewOK /\ ParentOK
      /\ \A q \in Proc : Recorded(q)
      /\ NchildLiving /\ NobodyWaitsInVain
  BY DEF ExitInv
<1>2. PICK s \in Seq(Record) : s = waitq[p] /\ s # <<>>
  BY <1>1 DEF TypeOK, Record, pwaitReturn
<1>3. PICK t : t = Tail(s)
  OBVIOUS
<1>4. /\ life[p] = "waiting" /\ life' = [life EXCEPT ![p] = "alive"]
      /\ waitq' = [waitq EXCEPT ![p] = t]
      /\ nwait' = [nwait EXCEPT ![p] = nwait[p] - 1]
      /\ pid' = pid /\ parent' = parent /\ parentpid' = parentpid
      /\ nchild' = nchild /\ forking' = forking /\ pidalloc' = pidalloc
  BY <1>2, <1>3 DEF pwaitReturn, becomes, family
<1>5. /\ life'[p] = "alive" /\ waitq'[p] = t /\ nwait'[p] = nwait[p] - 1
      /\ \A q \in Proc \ {p} : /\ life'[q] = life[q] /\ waitq'[q] = waitq[q]
                               /\ nwait'[q] = nwait[q]
  BY <1>1, <1>4 DEF TypeOK
<1>6. /\ \A q \in Proc : life'[q] \in Living <=> life[q] \in Living
      /\ \A q \in Proc : life'[q] = "new" <=> life[q] = "new"
      /\ \A q \in Proc : life'[q] \in Known <=> life[q] \in Known
      /\ \A q \in Proc : life'[q] \in {"free", "gone"} <=> life[q] \in {"free", "gone"}
  BY <1>4, <1>5 DEF Known, Living
<1>7. ASSUME NEW q \in Proc PROVE children(q)' = children(q)
  BY <1>4, <1>6 DEF children
<1>8. /\ t \in Seq(Record) /\ Len(s) \in Nat \ {0} /\ Len(t) = Len(s) - 1
      /\ \A q : On(q, t) => On(q, s)
      /\ Once(s) => Once(t)
  BY <1>2, <1>3, TailQueue
<1>9. nwait[p] = Len(s)
  BY <1>1, <1>2, <1>4 DEF Recorded, Living
<1>10. TypeOK'
  <2>1. nwait[p] - 1 \in Nat
    BY <1>8, <1>9
  <2>2. waitq' \in [Proc -> Seq([pid : 1 .. MaxPid, ppid : 0 .. MaxPid])]
    BY <1>1, <1>4, <1>8 DEF TypeOK, Record
  <2>3. /\ life' \in [Proc -> {"free", "new", "alive", "waiting", "breaking",
                              "broken", "dying", "gone"}]
        /\ nwait' \in [Proc -> Nat]
    BY <2>1, <1>1, <1>4 DEF TypeOK
  <2> QED
    BY <2>2, <2>3, <1>1, <1>4 DEF TypeOK
<1>11. PidsOK'
  BY <1>1, <1>4, <1>6 DEF PidsOK
<1>12. ForkOK'
  <2>1. forking[p] = nil
    BY <1>1, <1>4 DEF ForkOK
  <2>2. \A q \in Proc : forking[q] # nil => q # p /\ forking[q] # p
    BY <2>1, <1>1, <1>4 DEF ForkOK
  <2>3. \A q \in Proc : forking[q] # nil => forking[q] \in Proc
    BY <1>1 DEF TypeOK
  <2> QED
    BY <2>2, <2>3, <1>1, <1>4, <1>5 DEF ForkOK
<1>13. NewOK' /\ ParentOK'
  <2>1. \A q \in Proc : life'[q] = "new" => q # p
    BY <1>5
  <2> QED
    BY <2>1, <1>1, <1>4, <1>5, <1>6 DEF NewOK, ParentOK
<1>14. ASSUME NEW q \in Proc PROVE Recorded(q)'
  <2>1. CASE q = p
    <3>1. /\ Once(s)
          /\ \A r \in Record : On(r, s) =>
               /\ r.pid <= pidalloc
               /\ \A c \in Proc : life[c] \in Living \cup {"new"} => pid[c] # r.pid
               /\ \A x \in Record : On(x, s) /\ x.pid = r.pid => x = r
          /\ \A r \in Record : On(r, s) => r.ppid = pid[p]
      BY <1>1, <1>2, <1>4 DEF Recorded, Living
    <3> QED
      BY <2>1, <3>1, <1>4, <1>5, <1>6, <1>8, <1>9 DEF Recorded
  <2>2. CASE q # p
    BY <2>2, <1>1, <1>4, <1>5, <1>6 DEF Recorded
  <2> QED
    BY <2>1, <2>2
<1>15. NchildLiving'
  BY <1>1, <1>4, <1>6, <1>7 DEF NchildLiving
<1>16. NobodyWaitsInVain'
  BY <1>1, <1>5, <1>7 DEF NobodyWaitsInVain
<1> QED
  BY <1>10, <1>11, <1>12, <1>13, <1>14, <1>15, <1>16 DEF ExitInv

LEMMA ExitInitially ==
    ASSUME ExitWaitAssumption, Init PROVE ExitInv
<1>1. \A p \in Proc : /\ life[p] = IF p = boot THEN "alive" ELSE "free"
                      /\ pid[p] = IF p = boot THEN 1 ELSE 0
                      /\ parent[p] = nil /\ parentpid[p] = 0 /\ nchild[p] = 0
                      /\ nwait[p] = 0 /\ waitq[p] = <<>> /\ forking[p] = nil
  BY DEF Init
<1>2. TypeOK
  <2>1. PICK S : S = Seq([pid : 1 .. MaxPid, ppid : 0 .. MaxPid])
    OBVIOUS
  <2>2. <<>> \in S
    BY <2>1, EmptySeq
  <2>3. waitq \in [Proc -> S]
    BY <2>2 DEF Init
  <2>4. 1 \in 0 .. MaxPid /\ 0 \in 0 .. MaxPid /\ 1 \in 1 .. MaxPid
    BY DEF ExitWaitAssumption
  <2> QED
    BY <2>1, <2>3, <2>4 DEF Init, TypeOK
<1>3. PidsOK /\ ForkOK /\ NewOK /\ ParentOK
  BY <1>1 DEF PidsOK, ForkOK, NewOK, ParentOK, Known, Living, Init
<1>4. \A p \in Proc : Recorded(p)
  <2>1. Once(<<>>) /\ (\A r : ~On(r, <<>>)) /\ Len(<<>>) = 0
    BY DEF Once, On
  <2> QED
    BY <2>1, <1>1 DEF Recorded
<1>5. NchildLiving /\ NobodyWaitsInVain
  <2>1. \A p \in Proc : children(p) = {}
    BY <1>1 DEF children, ExitWaitAssumption
  <2>2. \A p \in Proc : life[p] # "waiting"
    BY <1>1
  <2> QED
    BY <2>1, <2>2, <1>1, FS_EmptySet DEF NchildLiving, NobodyWaitsInVain
<1> QED
  BY <1>2, <1>3, <1>4, <1>5 DEF ExitInv

LEMMA ExitInductive ==
    ASSUME ExitWaitAssumption, NoWaits \subseteq {FALSE},
           ExitInv, RecordsFit, [Next]_vars
    PROVE  ExitInv'
<1>1. CASE UNCHANGED vars
  <2>1. /\ life' = life /\ pid' = pid /\ parent' = parent
        /\ parentpid' = parentpid /\ nchild' = nchild /\ nwait' = nwait
        /\ waitq' = waitq /\ forking' = forking /\ pidalloc' = pidalloc
    BY <1>1 DEF vars, family, records
  <2>2. \A q \in Proc : children(q)' = children(q)
    BY <2>1 DEF children
  <2>3. (TypeOK /\ PidsOK /\ ForkOK /\ NewOK /\ ParentOK)'
    BY ZenonT(40), <2>1 DEF ExitInv, TypeOK, PidsOK, ForkOK, NewOK, ParentOK
  <2>4. \A q \in Proc : Recorded(q)'
    BY <2>1 DEF ExitInv, Recorded
  <2>5. NchildLiving' /\ NobodyWaitsInVain'
    BY <2>1, <2>2 DEF ExitInv, NchildLiving, NobodyWaitsInVain
  <2> QED
    BY <2>3, <2>4, <2>5 DEF ExitInv
<1>2. ASSUME NEW p \in Proc, NEW c \in Proc, newproc(p, c) PROVE ExitInv'
  BY <1>2, ExitNewproc
<1>3. ASSUME NEW p \in Proc, Forking(p) PROVE ExitInv'
  BY <1>3, ExitNewprocPid, ExitSysrfork DEF Forking
<1>4. ASSUME NEW p \in Proc, addbroken(p) \/ unbreak(p) \/ pwait(p) \/ pwaitIntr(p)
      PROVE  ExitInv'
  <2>1. CASE addbroken(p)
    BY <2>1, ExitShift DEF addbroken, becomes
  <2>2. CASE unbreak(p)
    BY <2>2, ExitShift DEF unbreak, becomes
  <2>3. CASE pwait(p)
    BY <2>3, ExitShift DEF pwait, becomes
  <2>4. CASE pwaitIntr(p)
    BY <2>4, ExitShift DEF pwaitIntr, becomes
  <2> QED
    BY <1>4, <2>1, <2>2, <2>3, <2>4
<1>5. ASSUME NEW p \in Proc, Exiting(p) PROVE ExitInv'
  BY <1>4, <1>5, ExitPexit, ExitGone DEF Exiting
<1>6. ASSUME NEW p \in Proc, pwaitReturn(p) PROVE ExitInv'
  BY <1>6, ExitCollect
<1> QED
  BY <1>1, <1>2, <1>3, <1>4, <1>5, <1>6 DEF Next

\* ChildrenOK: a process counts its living children, waits only if there is
\* a record or a child to leave one, and collects one record of each of its
\* own children, however often Procs are used again.
THEOREM ChildrenSound ==
    ASSUME ExitWaitAssumption, NoWaits \subseteq {FALSE}
    PROVE  Spec /\ []RecordsFit => []ChildrenOK
<1>1. Init => ExitInv
  BY ExitInitially
<1>2. ExitInv /\ RecordsFit /\ [Next]_vars => ExitInv'
  BY ExitInductive
<1>3. ASSUME ExitInv PROVE ChildrenOK
  <2>1. ASSUME NEW p \in Proc, life[p] \in Living
        PROVE  /\ nwait[p] = Len(waitq[p])
               /\ \A i \in DOMAIN waitq[p] :
                    /\ waitq[p][i].ppid = pid[p]
                    /\ \A c \in children(p) : pid[c] # waitq[p][i].pid
                    /\ \A j \in DOMAIN waitq[p] :
                         waitq[p][j].pid = waitq[p][i].pid => i = j
    <3>1. Recorded(p) /\ waitq[p] \in Seq(Record)
      BY <1>3 DEF ExitInv, TypeOK, Record
    <3>2. \A i \in DOMAIN waitq[p] : waitq[p][i] \in Record /\ On(waitq[p][i], waitq[p])
      BY <3>1, LenProperties DEF On
    <3>3. \A c \in children(p) : c \in Proc /\ life[c] \in Living
      BY DEF children
    <3>4. Once(waitq[p])
      BY <3>1 DEF Recorded
    <3>5. \A i, j \in DOMAIN waitq[p] :
            waitq[p][j].pid = waitq[p][i].pid => waitq[p][j] = waitq[p][i]
      BY <3>1, <3>2 DEF Recorded
    <3> QED
      BY <2>1, <3>1, <3>2, <3>3, <3>4, <3>5 DEF Recorded, Once
  <2>2. RecordsOwn
    BY <2>1 DEF RecordsOwn
  <2> QED
    BY <2>2, <1>3 DEF ExitInv, ChildrenOK
<1> QED
  BY <1>1, <1>2, <1>3, PTL DEF Spec

\* OrphansLeaveNothing: a record is left with a process that is there.
THEOREM OrphansQuiet ==
    ASSUME ExitWaitAssumption, NoWaits \subseteq {FALSE}
    PROVE  Spec /\ []RecordsFit => OrphansLeaveNothing
<1>1. Init => ExitInv
  BY ExitInitially
<1>2. ExitInv /\ RecordsFit /\ [Next]_vars => ExitInv'
  BY ExitInductive
<1> DEFINE Quiet(p) == Len(waitq'[p]) > Len(waitq[p]) => pid[p] # 0
<1>3. ASSUME ExitInv, [Next]_vars, NEW p \in Proc PROVE Quiet(p)
  <2>1. PICK s \in Seq(Record) : s = waitq[p]
    BY <1>3 DEF ExitInv, TypeOK, Record
  <2>2. Len(s) \in Nat
    BY LenProperties
  <2>3. CASE waitq' = waitq
    BY <2>1, <2>2, <2>3
  <2>4. ASSUME NEW c \in Proc, waitq' = [waitq EXCEPT ![c] = <<>>] PROVE Quiet(p)
    <3>1. waitq'[p] = s \/ waitq'[p] = <<>>
      BY <2>1, <2>4, <1>3 DEF ExitInv, TypeOK
    <3>2. Len(<<>>) = 0
      OBVIOUS
    <3> QED
      BY <2>1, <2>2, <3>1, <3>2
  <2>5. ASSUME NEW c \in Proc, NEW freemem \in BOOLEAN, pexit(c, freemem)
        PROVE  Quiet(p)
    <3>1. CASE leavesRecord(c) /\ p = parent[c]
      <4>1. parentpid[c] # 0
        BY <2>5, <3>1, <1>3
        DEF ExitInv, ParentOK, pexit, becomes, Living
      <4> QED
        BY <3>1, <4>1 DEF leavesRecord
    <3>2. CASE ~(leavesRecord(c) /\ p = parent[c])
      <4>1. waitq'[p] = waitq[p]
        BY <2>5, <3>2, <1>3 DEF pexit, records, ExitInv, TypeOK
      <4> QED
        BY <4>1, <2>1, <2>2
    <3> QED
      BY <3>1, <3>2
  <2>6. ASSUME NEW q \in Proc, pwaitReturn(q) PROVE Quiet(p)
    <3>1. waitq'[p] = s \/ (s # <<>> /\ waitq'[p] = Tail(s))
      BY <2>1, <2>6, <1>3 DEF pwaitReturn, ExitInv, TypeOK
    <3>2. PICK t : t = Tail(s)
      OBVIOUS
    <3>3. s # <<>> => Len(t) = Len(s) - 1
      BY <3>2, HeadTailProperties
    <3>4. CASE waitq'[p] = s
      BY <3>4, <2>1, <2>2
    <3>5. CASE s # <<>> /\ waitq'[p] = t
      BY <3>5, <3>3, <2>1, <2>2
    <3> QED
      BY <3>1, <3>2, <3>4, <3>5
  <2> HIDE DEF Quiet
  <2>7. CASE UNCHANGED vars
    BY <2>3, <2>7 DEF vars, records
  <2>8. ASSUME NEW q \in Proc, NEW c \in Proc, newproc(q, c) PROVE Quiet(p)
    BY <2>4, <2>8 DEF newproc
  <2>9. ASSUME NEW q \in Proc, Forking(q) PROVE Quiet(p)
    BY <2>3, <2>9 DEF Forking, newprocPid, sysrfork, records
  <2>10. ASSUME NEW q \in Proc, Exiting(q) PROVE Quiet(p)
    BY <2>3, <2>4, <2>5, <2>10 DEF Exiting, addbroken, pexitPid, pexitFree, records
  <2>11. ASSUME NEW q \in Proc, unbreak(q) \/ pwait(q) \/ pwaitIntr(q)
         PROVE Quiet(p)
    BY <2>3, <2>11 DEF unbreak, pwait, pwaitIntr, records
  <2> QED
    BY <1>3, <2>6, <2>7, <2>8, <2>9, <2>10, <2>11 DEF Next
<1>4. ExitInv /\ [Next]_vars => [\A p \in Proc : Quiet(p)]_vars
  BY <1>3
<1> QED
  BY <1>1, <1>2, <1>4, PTL DEF Spec, OrphansLeaveNothing

-----------------------------------------------------------------------------
(***************************************************************************)
(* Rendezvous.                                                             *)
(***************************************************************************)
\* Where a process is in sysrendezvous tells whether it is on a processor.
RendPlace(p) ==
    /\ pc[p] # "pull"
    /\ pc[p] \in {"idle", "lock", "search", "spin"} =>
         state[p] = "Running" /\ mach[p]
    /\ pc[p] \in {"sched", "off"} => state[p] \in {"Rendezvous", "Ready"}
    /\ pc[p] = "sched" => mach[p]
    /\ pc[p] = "off" => ~mach[p]

\* Every call but the one under way has returned something.
RendCalls(p) ==
    /\ pc[p] # "idle" => call[p] # 0
    /\ pc[p] \in {"lock", "search"} => rendval[p] = none
    /\ \A n \in 1 .. MaxCall :
         result[p][n] = nil <=>
           n > call[p] \/ (n = call[p] /\ pc[p] \notin {"idle", "spin"})

\* The lock is with whoever is inside, and the partner of whoever spins under
\* it is off the chains and still waiting.
RendLocked ==
    /\ \A a \in Caller \cup Poster :
         rgrp = a <=> pc[a] \in {"search", "spin", "pull"}
    /\ \A n \in Poster :
         /\ pc[n] \in {"idle", "lock", "pull"}
         /\ pc[n] # "idle" => pv[n] # nil
    /\ \A p \in Caller : pc[p] = "spin" =>
         /\ pv[p] # nil /\ pv[p] \notin hash
         /\ state[pv[p]] = "Rendezvous" /\ pc[pv[p]] \in {"sched", "off"}

\* Who waits is on a chain with its own value, or its partner spins; who was
\* met has the value of a call that got its own.
RendWaits(p) ==
    /\ p \in hash => /\ state[p] = "Rendezvous" /\ pc[p] \in {"sched", "off"}
                     /\ rendval[p] = <<p, call[p]>>
    /\ state[p] = "Rendezvous" /\ p \notin hash =>
         \E q \in Caller : pc[q] = "spin" /\ pv[q] = p
    /\ pc[p] \in {"sched", "off"} /\ p \notin hash /\ rendval[p] # none =>
         \E q \in Caller, i \in 1 .. MaxCall :
           rendval[p] = <<q, i>> /\ result[q][i] = <<p, call[p]>>

RendInv ==
    /\ R!TypeOK /\ RendLocked
    /\ \A p \in Caller : RendPlace(p) /\ RendCalls(p) /\ RendWaits(p)
    /\ R!NobodyMissed /\ R!Exchanged

\* What the type invariant says of one process.
LEMMA RendTyped ==
    ASSUME R!RendezvousAssumption, R!TypeOK, NEW p \in Caller
    PROVE  /\ call[p] \in 0 .. MaxCall /\ call[p] \in Nat
           /\ pc[p] \in {"idle", "lock", "search", "spin", "sched", "off", "pull"}
           /\ state[p] \in {"Running", "Rendezvous", "Ready"}
           /\ mach[p] \in BOOLEAN
           /\ rendval[p] \in R!Value \ {nil}
           /\ \A n \in 1 .. MaxCall : result[p][n] \in R!Value
           /\ pv[p] \in Caller \cup {nil}
           /\ rendtag[p] \in Tag \cup {nil}
<1>1. call[p] \in 0 .. MaxCall
  BY DEF R!TypeOK
<1>2. call[p] \in Nat
  BY <1>1 DEF R!RendezvousAssumption
<1>3. rendval[p] \in R!Value \ {nil} /\ \A n \in 1 .. MaxCall : result[p][n] \in R!Value
  BY DEF R!TypeOK
<1> QED
  BY <1>1, <1>2, <1>3 DEF R!TypeOK

\* A process that goes on waiting as it did.
LEMMA RendWaitsKept ==
    ASSUME NEW x \in Caller, RendWaits(x),
           x \in hash' <=> x \in hash,
           pc'[x] \in {"sched", "off"} <=> pc[x] \in {"sched", "off"},
           rendval'[x] = rendval[x], call'[x] = call[x],
           x \in hash => state'[x] = "Rendezvous",
           state'[x] = "Rendezvous" /\ x \notin hash =>
             \E q \in Caller : pc'[q] = "spin" /\ pv'[q] = x,
           pc[x] \in {"sched", "off"} =>
             \A q \in Caller, i \in 1 .. MaxCall :
               result[q][i] = <<x, call[x]>> => result'[q][i] = <<x, call[x]>>
    PROVE  RendWaits(x)'
<1>1. x \in hash' => /\ state'[x] = "Rendezvous" /\ pc'[x] \in {"sched", "off"}
                     /\ rendval'[x] = <<x, call'[x]>>
  BY DEF RendWaits
<1>2. ASSUME pc'[x] \in {"sched", "off"}, x \notin hash', rendval'[x] # none
      PROVE  \E q \in Caller, i \in 1 .. MaxCall :
               rendval'[x] = <<q, i>> /\ result'[q][i] = <<x, call'[x]>>
  <2>1. PICK q \in Caller, i \in 1 .. MaxCall :
          rendval[x] = <<q, i>> /\ result[q][i] = <<x, call[x]>>
    BY <1>2 DEF RendWaits
  <2> QED
    BY <2>1, <1>2
<1> QED
  BY <1>1, <1>2 DEF RendWaits

\* A call begins.
LEMMA RendSysrendezvous ==
    ASSUME R!RendezvousAssumption, RendInv, NEW p \in Caller, NEW t \in Tag,
           R!sysrendezvous(p, t)
    PROVE  RendInv'
<1>1. /\ R!TypeOK /\ RendLocked
      /\ \A q \in Caller : RendPlace(q) /\ RendCalls(q) /\ RendWaits(q)
      /\ R!NobodyMissed /\ R!Exchanged
  BY DEF RendInv
<1>2. /\ pc[p] = "idle" /\ call[p] < MaxCall
      /\ pc' = [pc EXCEPT ![p] = "lock"]
      /\ rendval' = [rendval EXCEPT ![p] = none]
      /\ tag' = [tag EXCEPT ![p] = t]
      /\ call' = [call EXCEPT ![p] = call[p] + 1]
      /\ state' = state /\ mach' = mach /\ rendtag' = rendtag /\ hash' = hash
      /\ rgrp' = rgrp /\ pv' = pv /\ result' = result
  BY DEF R!sysrendezvous, R!Goto
<1>3. call[p] \in Nat /\ MaxCall \in Nat /\ call[p] + 1 \in 0 .. MaxCall
  BY <1>1, <1>2, RendTyped DEF R!RendezvousAssumption
<1>4. /\ pc'[p] = "lock" /\ rendval'[p] = none /\ call'[p] = call[p] + 1
      /\ \A a \in (Caller \cup Poster) \ {p} : pc'[a] = pc[a]
      /\ \A q \in Caller \ {p} : rendval'[q] = rendval[q] /\ call'[q] = call[q]
  BY <1>1, <1>2 DEF R!TypeOK
<1>5. R!TypeOK'
  <2>1. none \in R!Value \ {nil}
    BY DEF R!Value, R!RendezvousAssumption
  <2>2. rendval' \in [Caller -> R!Value \ {nil}]
    BY <2>1, <1>1, <1>2 DEF R!TypeOK
  <2>3. call' \in [Caller -> 0 .. MaxCall]
    BY <1>1, <1>2, <1>3 DEF R!TypeOK
  <2>4. /\ tag' \in [Caller -> Tag \cup {nil}]
        /\ pc' \in [Caller \cup Poster ->
                      {"idle", "lock", "search", "spin", "sched", "off", "pull"}]
    BY <1>1, <1>2 DEF R!TypeOK
  <2> QED
    BY <2>2, <2>3, <2>4, <1>1, <1>2 DEF R!TypeOK, R!Value
<1>6. p \notin hash /\ \A q \in Caller : pc[q] = "spin" => pv[q] # p
  BY <1>1, <1>2 DEF RendWaits, RendLocked
<1>7. RendLocked'
  <2>1. \A a \in Caller \cup Poster :
          pc'[a] \in {"search", "spin", "pull"} <=> pc[a] \in {"search", "spin", "pull"}
    BY <1>2, <1>4
  <2>2. \A n \in Poster : n # p
    BY DEF R!RendezvousAssumption
  <2>3. \A q \in Caller : pc'[q] = "spin" =>
          pc[q] = "spin" /\ (pv[q] # nil => pc'[pv[q]] = pc[pv[q]])
    <3>1. \A q \in Caller : pv[q] \in Caller \cup {nil}
      BY <1>1, RendTyped
    <3> QED
      BY <3>1, <1>2, <1>4, <1>6
  <2> QED
    BY <2>1, <2>2, <2>3, <1>1, <1>2, <1>4 DEF RendLocked
<1>8. ASSUME NEW q \in Caller PROVE (RendPlace(q) /\ RendCalls(q))'
  <2>1. CASE q = p
    <3>1. \A n \in 1 .. MaxCall : result[p][n] = nil <=> n > call[p]
      BY <1>1, <1>2, <1>3 DEF RendCalls
    <3>2. \A n \in 1 .. MaxCall :
            n > call[p] <=> n > call[p] + 1 \/ n = call[p] + 1
      BY <1>3
    <3>3. RendPlace(p)'
      BY <1>1, <1>2, <1>4 DEF RendPlace
    <3> QED
      BY <2>1, <1>2, <1>3, <1>4, <3>1, <3>2, <3>3 DEF RendCalls
  <2>2. CASE q # p
    BY <2>2, <1>1, <1>2, <1>4 DEF RendPlace, RendCalls
  <2> QED
    BY <2>1, <2>2
<1>9. ASSUME NEW q \in Caller PROVE RendWaits(q)'
  <2>1. CASE q = p
    <3>1. state'[p] = "Running" /\ pc'[p] = "lock" /\ p \notin hash'
      BY <1>1, <1>2, <1>4, <1>6 DEF RendPlace
    <3> QED
      BY <2>1, <3>1 DEF RendWaits
  <2>2. CASE q # p
    <3>1. state[q] = "Rendezvous" /\ q \notin hash =>
            \E x \in Caller : pc[x] = "spin" /\ pv[x] = q
      BY <1>1 DEF RendWaits
    <3>2. \A x \in Caller : pc[x] = "spin" => pc'[x] = "spin"
      BY <1>2, <1>4
    <3>3. q \in hash => state'[q] = "Rendezvous"
      BY <1>1, <1>2 DEF RendWaits
    <3> QED
      BY <2>2, <3>1, <3>2, <3>3, <1>1, <1>2, <1>4, RendWaitsKept
  <2> QED
    BY <2>1, <2>2
<1>10. R!NobodyMissed'
  BY <1>1, <1>2 DEF R!NobodyMissed
<1>11. R!Exchanged'
  <2>1. result[p][call[p]] # nil \/ call[p] = 0
    BY <1>1, <1>2, <1>3 DEF RendCalls
  <2>2. ASSUME NEW q \in Caller, NEW j \in 1 .. MaxCall,
               result[q][j] = nil, call[q] = j
        PROVE  q # p
    BY <2>1, <2>2
  <2> QED
    BY <2>2, <1>1, <1>2, <1>4 DEF R!Exchanged
<1> QED
  BY <1>5, <1>7, <1>8, <1>9, <1>10, <1>11 DEF RendInv

\* The lock is taken, by a process or a poster of a note.
LEMMA RendLock ==
    ASSUME R!RendezvousAssumption, RendInv, NEW a \in Caller \cup Poster,
           NEW to \in {"search", "pull"},
           to = "search" <=> a \in Caller, to = "pull" <=> a \in Poster,
           rgrp = nil, rgrp' = a,
           pc[a] = "lock", pc' = [pc EXCEPT ![a] = to],
           UNCHANGED <<state, mach, rendtag, rendval, hash, pv, tag, call, result>>
    PROVE  RendInv'
<1>1. /\ R!TypeOK /\ RendLocked
      /\ \A q \in Caller : RendPlace(q) /\ RendCalls(q) /\ RendWaits(q)
      /\ R!NobodyMissed /\ R!Exchanged
  BY DEF RendInv
<1>2. /\ pc[a] = "lock" /\ pc' = [pc EXCEPT ![a] = to]
      /\ to = "search" <=> a \in Caller
      /\ to = "pull" <=> a \in Poster
  OBVIOUS
<1>3. /\ rgrp = nil /\ rgrp' = a
      /\ rendval' = rendval /\ tag' = tag /\ call' = call
      /\ state' = state /\ mach' = mach /\ rendtag' = rendtag /\ hash' = hash
      /\ pv' = pv /\ result' = result
  OBVIOUS
<1>4. pc'[a] = to /\ \A b \in (Caller \cup Poster) \ {a} : pc'[b] = pc[b]
  BY <1>1, <1>2 DEF R!TypeOK
<1>5. R!TypeOK'
  BY <1>1, <1>2, <1>3 DEF R!TypeOK, R!Value
<1>6. RendLocked'
  <2>1. \A b \in Caller \cup Poster : pc[b] \notin {"search", "spin", "pull"}
    BY <1>1, <1>3 DEF RendLocked, R!RendezvousAssumption
  <2>2. \A n \in Poster : n # a \/ to = "pull"
    BY <1>2 DEF R!RendezvousAssumption
  <2> QED
    BY <2>1, <2>2, <1>1, <1>2, <1>3, <1>4 DEF RendLocked
<1>7. ASSUME NEW q \in Caller PROVE (RendPlace(q) /\ RendCalls(q) /\ RendWaits(q))'
  <2>1. (RendPlace(q) /\ RendCalls(q))'
    BY <1>1, <1>2, <1>3, <1>4 DEF RendPlace, RendCalls
  <2>2. \A x \in Caller : pc[x] # "spin"
    BY <1>1, <1>3 DEF RendLocked, R!RendezvousAssumption
  <2>3. RendWaits(q)'
    BY <2>2, <1>1, <1>2, <1>3, <1>4 DEF RendWaits
  <2> QED
    BY <2>1, <2>3
<1>8. R!NobodyMissed'
  BY <1>1, <1>3 DEF R!NobodyMissed
<1>9. R!Exchanged'
  BY <1>1, <1>3 DEF R!Exchanged
<1> QED
  BY <1>5, <1>6, <1>7, <1>8, <1>9 DEF RendInv

\* Two processes meet.
LEMMA RendMatch ==
    ASSUME R!RendezvousAssumption, RendInv, NEW p \in Caller, R!rendMatch(p)
    PROVE  RendInv'
<1>1. /\ R!TypeOK /\ RendLocked
      /\ \A q \in Caller : RendPlace(q) /\ RendCalls(q) /\ RendWaits(q)
      /\ R!NobodyMissed /\ R!Exchanged
  BY DEF RendInv
<1>2. PICK q \in hash :
        /\ rendtag[q] = tag[p]
        /\ pc[p] = "search" /\ pc' = [pc EXCEPT ![p] = "spin"]
        /\ pv' = [pv EXCEPT ![p] = q]
        /\ hash' = hash \ {q}
        /\ rendval' = [rendval EXCEPT ![q] = <<p, call[p]>>]
        /\ result' = [result EXCEPT ![p][call[p]] = rendval[q]]
        /\ state' = state /\ mach' = mach /\ rendtag' = rendtag
        /\ rgrp' = rgrp /\ tag' = tag /\ call' = call
  BY DEF R!rendMatch, R!Goto, R!returns, R!value
<1>3. q \in Caller
  BY <1>1 DEF R!TypeOK
<1>4. PICK n \in 1 .. MaxCall : n = call[p] /\ result[p][n] = nil
  <2>1. call[p] \in 1 .. MaxCall
    BY <1>1, <1>2, RendTyped DEF RendCalls, R!RendezvousAssumption
  <2> QED
    BY <2>1, <1>1, <1>2 DEF RendCalls
<1>5. PICK m \in 1 .. MaxCall : m = call[q] /\ result[q][m] = nil
  <2>1. pc[q] \in {"sched", "off"}
    BY <1>1, <1>2, <1>3 DEF RendWaits
  <2>2. call[q] \in 1 .. MaxCall
    BY <2>1, <1>1, <1>3, RendTyped DEF RendCalls, R!RendezvousAssumption
  <2> QED
    BY <2>1, <2>2, <1>1, <1>3 DEF RendCalls
<1>6. /\ pc[q] \in {"sched", "off"} /\ q # p /\ state[q] = "Rendezvous"
      /\ rendval[q] = <<q, m>> /\ p \notin hash /\ rendval[p] = none
  BY <1>1, <1>2, <1>3, <1>5 DEF RendWaits, RendCalls
<1>7. /\ pc'[p] = "spin" /\ \A a \in (Caller \cup Poster) \ {p} : pc'[a] = pc[a]
      /\ pv'[p] = q /\ \A a \in (Caller \cup Poster) \ {p} : pv'[a] = pv[a]
      /\ rendval'[q] = <<p, n>>
      /\ \A x \in Caller \ {q} : rendval'[x] = rendval[x]
  BY <1>1, <1>2, <1>3, <1>4 DEF R!TypeOK
<1>8. /\ result' = [result EXCEPT ![p] = [result[p] EXCEPT ![n] = <<q, m>>]]
      /\ result'[p] = [result[p] EXCEPT ![n] = <<q, m>>]
      /\ result'[p][n] = <<q, m>>
      /\ \A x \in Caller, i \in 1 .. MaxCall :
           ~(x = p /\ i = n) => result'[x][i] = result[x][i]
  BY <1>1, <1>2, <1>4, <1>6 DEF R!TypeOK
<1>9. /\ <<q, m>> \in R!Value /\ <<q, m>> # nil
      /\ <<p, n>> \in R!Value \ {nil} /\ <<p, n>> # none
  BY <1>3 DEF R!Value, R!RendezvousAssumption
<1>10. R!TypeOK'
  <2>1. rendval' \in [Caller -> R!Value \ {nil}]
    BY <1>1, <1>2, <1>3, <1>4, <1>9 DEF R!TypeOK
  <2>2. result' \in [Caller -> [1 .. MaxCall -> R!Value]]
    <3>1. result \in [Caller -> [1 .. MaxCall -> R!Value]]
      BY <1>1 DEF R!TypeOK
    <3>2. [result[p] EXCEPT ![n] = <<q, m>>] \in [1 .. MaxCall -> R!Value]
      BY <3>1, <1>9
    <3> QED
      BY <3>1, <3>2, <1>8
  <2>3. /\ pc' \in [Caller \cup Poster ->
                      {"idle", "lock", "search", "spin", "sched", "off", "pull"}]
        /\ pv' \in [Caller \cup Poster -> Caller \cup {nil}]
        /\ hash' \subseteq Caller
    BY <1>1, <1>2, <1>3 DEF R!TypeOK
  <2> QED
    BY <2>1, <2>2, <2>3, <1>1, <1>2 DEF R!TypeOK, R!Value
<1>11. rgrp = p /\ \A a \in Caller : pc[a] # "spin"
  <2>1. rgrp = p
    BY <1>1, <1>2 DEF RendLocked
  <2> QED
    BY <2>1, <1>1, <1>2 DEF RendLocked
<1>12. RendLocked'
  <2>1. \A a \in Caller \cup Poster :
          pc'[a] \in {"search", "spin", "pull"} <=> pc[a] \in {"search", "spin", "pull"}
    BY <1>2, <1>7
  <2>2. \A a \in Poster : a # p
    BY DEF R!RendezvousAssumption
  <2>3. \A a \in Caller : pc'[a] = "spin" => a = p
    BY <1>7, <1>11
  <2>4. q # nil /\ q \notin hash' /\ state'[q] = "Rendezvous" /\ pc'[q] \in {"sched", "off"}
    BY <1>2, <1>3, <1>6, <1>7 DEF R!RendezvousAssumption
  <2> QED
    BY <2>1, <2>2, <2>3, <2>4, <1>1, <1>2, <1>7 DEF RendLocked
<1>13. ASSUME NEW x \in Caller PROVE (RendPlace(x) /\ RendCalls(x))'
  <2>1. CASE x = p
    <3>1. RendPlace(p)'
      BY <1>1, <1>2, <1>7 DEF RendPlace
    <3>2. \A i \in 1 .. MaxCall : result'[p][i] = nil <=> i > call[p]
      <4>1. \A i \in 1 .. MaxCall : result[p][i] = nil <=> i > n \/ i = n
        BY <1>1, <1>2, <1>4 DEF RendCalls
      <4>2. ~(n > n)
        OBVIOUS
      <4> QED
        BY <4>1, <4>2, <1>4, <1>8, <1>9
    <3>3. call[p] # 0
      BY <1>1, <1>2 DEF RendCalls
    <3> QED
      BY <2>1, <3>1, <3>2, <3>3, <1>2, <1>7 DEF RendCalls
  <2>2. CASE x # p
    <3>1. \A i \in 1 .. MaxCall : result'[x][i] = result[x][i]
      BY <2>2, <1>8
    <3>2. pc[x] \in {"lock", "search"} => x # q
      BY <1>6
    <3> QED
      BY <2>2, <3>1, <3>2, <1>1, <1>2, <1>7 DEF RendPlace, RendCalls
  <2> QED
    BY <2>1, <2>2
<1>14. ASSUME NEW x \in Caller PROVE RendWaits(x)'
  <2>1. CASE x = q
    <3>1. pc'[p] = "spin" /\ pv'[p] = q
      BY <1>7
    <3>2. rendval'[q] = <<p, n>> /\ result'[p][n] = <<q, call'[q]>>
      BY <1>2, <1>5, <1>7, <1>8
    <3>3. q \notin hash'
      BY <1>2
    <3> QED
      BY <2>1, <3>1, <3>2, <3>3 DEF RendWaits
  <2>2. CASE x = p
    <3>1. pc'[p] = "spin" /\ p \notin hash' /\ state'[p] = "Running"
      BY <1>1, <1>2, <1>6, <1>7 DEF RendPlace
    <3> QED
      BY <2>2, <3>1 DEF RendWaits
  <2>3. CASE x # q /\ x # p
    <3>1. /\ x \in hash' <=> x \in hash
          /\ pc'[x] = pc[x] /\ state'[x] = state[x] /\ call'[x] = call[x]
          /\ rendval'[x] = rendval[x]
      BY <2>3, <1>2, <1>7
    <3>2. state[x] = "Rendezvous" => x \in hash
      BY <1>1, <1>11 DEF RendWaits
    <3>3. ASSUME pc[x] \in {"sched", "off"}, NEW y \in Caller,
                 NEW i \in 1 .. MaxCall, result[y][i] = <<x, call[x]>>
          PROVE  result'[y][i] = <<x, call[x]>>
      <4>1. call[x] \in 1 .. MaxCall
        BY <3>3, <1>1, RendTyped DEF RendCalls, R!RendezvousAssumption
      <4>2. <<x, call[x]>> # nil
        BY <4>1 DEF R!RendezvousAssumption
      <4> QED
        BY <3>3, <4>2, <1>4, <1>8
    <3>4. x \in hash => state'[x] = "Rendezvous"
      BY <3>1, <1>1 DEF RendWaits
    <3> QED
      BY <3>1, <3>2, <3>3, <3>4, <1>1, RendWaitsKept
  <2> QED
    BY <2>1, <2>2, <2>3
<1>15. R!NobodyMissed'
  BY <1>1, <1>2 DEF R!NobodyMissed
<1>16. R!Exchanged'
  <2> SUFFICES ASSUME NEW x \in Caller, NEW y \in Caller,
                      NEW i \in 1 .. MaxCall, NEW j \in 1 .. MaxCall,
                      result'[x][i] = <<y, j>>
               PROVE  \/ result'[y][j] = <<x, i>>
                      \/ /\ result'[y][j] = nil /\ call'[y] = j
                         /\ rendval'[y] = <<x, i>> /\ y \notin hash'
    BY DEF R!Exchanged
  <2>1. CASE x = p /\ i = n
    <3>1. y = q /\ j = m
      BY <2>1, <1>8
    <3>2. result'[q][m] = nil
      BY <1>5, <1>6, <1>8, <1>3
    <3> QED
      BY <2>1, <3>1, <3>2, <1>2, <1>5, <1>7
  <2>2. CASE ~(x = p /\ i = n)
    <3>1. result[x][i] = <<y, j>>
      BY <2>2, <1>8
    <3>2. CASE result[y][j] = <<x, i>>
      <4>1. <<x, i>> # nil
        BY DEF R!RendezvousAssumption
      <4> QED
        BY <3>2, <4>1, <1>4, <1>8
    <3>3. CASE /\ result[y][j] = nil /\ call[y] = j
               /\ rendval[y] = <<x, i>> /\ y \notin hash
      <4>1. y # q
        BY <3>3
      <4>2. y # p
        <5>1. <<x, i>> # none
          BY DEF R!RendezvousAssumption
        <5> QED
          BY <3>3, <5>1, <1>6
      <4> QED
        BY <3>3, <4>1, <4>2, <1>2, <1>7, <1>8
    <3> QED
      BY <3>1, <3>2, <3>3, <1>1 DEF R!Exchanged
  <2> QED
    BY <2>1, <2>2
<1> QED
  BY <1>10, <1>12, <1>13, <1>14, <1>15, <1>16 DEF RendInv

\* Nobody is there: the process goes on a chain.
LEMMA RendWait ==
    ASSUME R!RendezvousAssumption, RendInv, NEW p \in Caller, R!rendWait(p)
    PROVE  RendInv'
<1>1. /\ R!TypeOK /\ RendLocked
      /\ \A q \in Caller : RendPlace(q) /\ RendCalls(q) /\ RendWaits(q)
      /\ R!NobodyMissed /\ R!Exchanged
  BY DEF RendInv
<1>2. /\ \A q \in hash : rendtag[q] # tag[p]
      /\ pc[p] = "search" /\ pc' = [pc EXCEPT ![p] = "sched"]
      /\ rendtag' = [rendtag EXCEPT ![p] = tag[p]]
      /\ rendval' = [rendval EXCEPT ![p] = <<p, call[p]>>]
      /\ hash' = hash \cup {p}
      /\ state' = [state EXCEPT ![p] = "Rendezvous"]
      /\ rgrp' = nil
      /\ mach' = mach /\ pv' = pv /\ tag' = tag /\ call' = call /\ result' = result
  BY DEF R!rendWait, R!Goto, R!value, R!calls
<1>3. PICK n \in 1 .. MaxCall : n = call[p] /\ result[p][n] = nil
  <2>1. call[p] \in 1 .. MaxCall
    BY <1>1, <1>2, RendTyped DEF RendCalls, R!RendezvousAssumption
  <2> QED
    BY <2>1, <1>1, <1>2 DEF RendCalls
<1>4. /\ pc'[p] = "sched" /\ \A a \in (Caller \cup Poster) \ {p} : pc'[a] = pc[a]
      /\ rendtag'[p] = tag[p] /\ \A x \in Caller \ {p} : rendtag'[x] = rendtag[x]
      /\ rendval'[p] = <<p, n>> /\ \A x \in Caller \ {p} : rendval'[x] = rendval[x]
      /\ state'[p] = "Rendezvous" /\ \A x \in Caller \ {p} : state'[x] = state[x]
  BY <1>1, <1>2, <1>3 DEF R!TypeOK
<1>5. rgrp = p /\ \A a \in (Caller \cup Poster) \ {p} :
                    pc[a] \notin {"search", "spin", "pull"}
  <2>1. rgrp = p
    BY <1>1, <1>2 DEF RendLocked
  <2> QED
    BY <2>1, <1>1 DEF RendLocked
<1>6. p \notin hash /\ rendval[p] = none /\ mach[p]
  BY <1>1, <1>2 DEF RendWaits, RendCalls, RendPlace
<1>7. R!TypeOK'
  <2>1. <<p, n>> \in R!Value \ {nil}
    BY DEF R!Value, R!RendezvousAssumption
  <2>2. rendval' \in [Caller -> R!Value \ {nil}]
    BY <2>1, <1>1, <1>2, <1>3 DEF R!TypeOK
  <2>3. /\ pc' \in [Caller \cup Poster ->
                      {"idle", "lock", "search", "spin", "sched", "off", "pull"}]
        /\ rendtag' \in [Caller -> Tag \cup {nil}]
        /\ hash' \subseteq Caller
        /\ state' \in [Caller -> {"Running", "Rendezvous", "Ready"}]
    BY <1>1, <1>2 DEF R!TypeOK
  <2> QED
    BY <2>2, <2>3, <1>1, <1>2 DEF R!TypeOK, R!Value
<1>8. RendLocked'
  <2>1. \A a \in Caller \cup Poster :
          pc'[a] \notin {"search", "spin", "pull"} /\ a # nil
    BY <1>4, <1>5 DEF R!RendezvousAssumption
  <2>2. \A a \in Poster : a # p
    BY DEF R!RendezvousAssumption
  <2> QED
    BY <2>1, <2>2, <1>1, <1>2, <1>4 DEF RendLocked
<1>9. ASSUME NEW x \in Caller PROVE (RendPlace(x) /\ RendCalls(x) /\ RendWaits(x))'
  <2>1. CASE x = p
    <3>1. RendPlace(p)'
      BY <1>2, <1>4, <1>6 DEF RendPlace
    <3>2. RendCalls(p)'
      BY <1>1, <1>2, <1>4 DEF RendCalls
    <3>3. RendWaits(p)'
      BY <1>2, <1>3, <1>4 DEF RendWaits
    <3> QED
      BY <2>1, <3>1, <3>2, <3>3
  <2>2. CASE x # p
    <3>1. (RendPlace(x) /\ RendCalls(x))'
      BY <2>2, <1>1, <1>2, <1>4 DEF RendPlace, RendCalls
    <3>2. state[x] = "Rendezvous" => x \in hash
      BY <1>1, <1>2, <1>5 DEF RendWaits
    <3>3. x \in hash => state'[x] = "Rendezvous"
      BY <2>2, <1>1, <1>4 DEF RendWaits
    <3>4. RendWaits(x)'
      BY <2>2, <3>2, <3>3, <1>1, <1>2, <1>4, RendWaitsKept
    <3> QED
      BY <3>1, <3>4
  <2> QED
    BY <2>1, <2>2
<1>10. R!NobodyMissed'
  <2>1. \A x \in hash : x # p /\ rendtag'[x] = rendtag[x] /\ rendtag'[p] # rendtag'[x]
    BY <1>1, <1>2, <1>4, <1>6 DEF R!TypeOK
  <2> QED
    BY <2>1, <1>1, <1>2 DEF R!NobodyMissed
<1>11. R!Exchanged'
  <2>1. ASSUME NEW x \in Caller, NEW i \in 1 .. MaxCall, NEW y \in Caller,
               rendval[y] = <<x, i>>, y \notin hash
        PROVE  y # p
    <3>1. <<x, i>> # none
      BY DEF R!RendezvousAssumption
    <3> QED
      BY <2>1, <3>1, <1>6
  <2> QED
    BY <2>1, <1>1, <1>2, <1>4 DEF R!Exchanged
<1> QED
  BY <1>7, <1>8, <1>9, <1>10, <1>11 DEF RendInv

\* The partner is off its stack: it is readied and the lock given back.
LEMMA RendReady ==
    ASSUME R!RendezvousAssumption, RendInv, NEW p \in Caller, R!rendReady(p)
    PROVE  RendInv'
<1>1. /\ R!TypeOK /\ RendLocked
      /\ \A q \in Caller : RendPlace(q) /\ RendCalls(q) /\ RendWaits(q)
      /\ R!NobodyMissed /\ R!Exchanged
  BY DEF RendInv
<1>2. PICK q \in Caller : q = pv[p] /\ pc[p] = "spin"
  BY <1>1, RendTyped DEF R!rendReady, R!Goto, RendLocked
<1>3. /\ ~mach[q] /\ pc' = [pc EXCEPT ![p] = "idle"]
      /\ state' = [state EXCEPT ![q] = "Ready"]
      /\ pv' = [pv EXCEPT ![p] = nil]
      /\ rgrp' = nil
      /\ mach' = mach /\ rendtag' = rendtag /\ rendval' = rendval /\ hash' = hash
      /\ tag' = tag /\ call' = call /\ result' = result
  BY <1>2 DEF R!rendReady, R!Goto, R!calls
<1>4. /\ q \notin hash /\ pc[q] \in {"sched", "off"} /\ q # p
  BY <1>1, <1>2 DEF RendLocked
<1>5. /\ pc'[p] = "idle" /\ \A a \in (Caller \cup Poster) \ {p} : pc'[a] = pc[a]
      /\ pv'[p] = nil /\ \A a \in (Caller \cup Poster) \ {p} : pv'[a] = pv[a]
      /\ state'[q] = "Ready" /\ \A x \in Caller \ {q} : state'[x] = state[x]
  BY <1>1, <1>2, <1>3 DEF R!TypeOK
<1>6. rgrp = p /\ \A a \in (Caller \cup Poster) \ {p} :
                    pc[a] \notin {"search", "spin", "pull"}
  <2>1. rgrp = p
    BY <1>1, <1>2 DEF RendLocked
  <2> QED
    BY <2>1, <1>1 DEF RendLocked
<1>7. R!TypeOK'
  BY <1>1, <1>2, <1>3 DEF R!TypeOK, R!Value
<1>8. RendLocked'
  <2>1. \A a \in Caller \cup Poster :
          pc'[a] \notin {"search", "spin", "pull"} /\ a # nil
    BY <1>5, <1>6 DEF R!RendezvousAssumption
  <2>2. \A a \in Poster : a # p
    BY DEF R!RendezvousAssumption
  <2> QED
    BY <2>1, <2>2, <1>1, <1>3, <1>5 DEF RendLocked
<1>9. ASSUME NEW x \in Caller PROVE (RendPlace(x) /\ RendCalls(x) /\ RendWaits(x))'
  <2>1. RendPlace(x)'
    <3>1. CASE x = p
      BY <3>1, <1>1, <1>2, <1>3, <1>4, <1>5 DEF RendPlace
    <3>2. CASE x = q
      BY <3>2, <1>1, <1>3, <1>4, <1>5 DEF RendPlace
    <3>3. CASE x # p /\ x # q
      BY <3>3, <1>1, <1>3, <1>5 DEF RendPlace
    <3> QED
      BY <3>1, <3>2, <3>3
  <2>2. RendCalls(x)'
    BY <1>1, <1>2, <1>3, <1>5 DEF RendCalls
  <2>3. state'[x] = "Rendezvous" => x \in hash
    <3>1. CASE x = q
      BY <3>1, <1>5
    <3>2. CASE x # q
      BY <3>2, <1>1, <1>2, <1>5, <1>6 DEF RendWaits
    <3> QED
      BY <3>1, <3>2
  <2>4. x \in hash => x # q /\ x # p
    BY <1>1, <1>2, <1>4 DEF RendWaits
  <2>5. x \in hash => state'[x] = "Rendezvous"
    BY <2>4, <1>1, <1>5 DEF RendWaits
  <2>6. pc'[x] \in {"sched", "off"} <=> pc[x] \in {"sched", "off"}
    BY <1>2, <1>3, <1>5
  <2>7. RendWaits(x)'
    BY <2>3, <2>5, <2>6, <1>1, <1>3, RendWaitsKept
  <2> QED
    BY <2>1, <2>2, <2>7
<1>10. R!NobodyMissed'
  BY <1>1, <1>3 DEF R!NobodyMissed
<1>11. R!Exchanged'
  BY <1>1, <1>3 DEF R!Exchanged
<1> QED
  BY <1>11, <1>7, <1>8, <1>9, <1>10 DEF RendInv

\* sched gives up the processor.
LEMMA RendSched ==
    ASSUME R!RendezvousAssumption, RendInv, NEW p \in Caller, R!rendSched(p)
    PROVE  RendInv'
<1>1. /\ R!TypeOK /\ RendLocked
      /\ \A q \in Caller : RendPlace(q) /\ RendCalls(q) /\ RendWaits(q)
      /\ R!NobodyMissed /\ R!Exchanged
  BY DEF RendInv
<1>2. /\ pc[p] = "sched" /\ pc' = [pc EXCEPT ![p] = "off"]
      /\ mach' = [mach EXCEPT ![p] = FALSE]
      /\ state' = state /\ rendtag' = rendtag /\ rendval' = rendval /\ hash' = hash
      /\ rgrp' = rgrp /\ pv' = pv /\ tag' = tag /\ call' = call /\ result' = result
  BY DEF R!rendSched, R!Goto, R!calls
<1>3. /\ pc'[p] = "off" /\ \A a \in (Caller \cup Poster) \ {p} : pc'[a] = pc[a]
      /\ mach'[p] = FALSE /\ \A x \in Caller \ {p} : mach'[x] = mach[x]
  BY <1>1, <1>2 DEF R!TypeOK
<1>4. R!TypeOK'
  BY <1>1, <1>2 DEF R!TypeOK, R!Value
<1>5. RendLocked'
  <2>1. \A a \in Caller \cup Poster :
          pc'[a] \in {"search", "spin", "pull"} <=> pc[a] \in {"search", "spin", "pull"}
    BY <1>2, <1>3
  <2>2. \A a \in Poster : a # p
    BY DEF R!RendezvousAssumption
  <2>3. \A q \in Caller : pc'[q] = "spin" =>
          /\ pc[q] = "spin"
          /\ pc[pv[q]] \in {"sched", "off"} => pc'[pv[q]] \in {"sched", "off"}
    <3>1. \A q \in Caller : pc[q] = "spin" => pv[q] \in Caller
      BY <1>1, RendTyped DEF RendLocked
    <3> QED
      BY <3>1, <1>2, <1>3
  <2> QED
    BY <2>1, <2>2, <2>3, <1>1, <1>2, <1>3 DEF RendLocked
<1>6. ASSUME NEW x \in Caller PROVE (RendPlace(x) /\ RendCalls(x))'
  BY <1>1, <1>2, <1>3 DEF RendPlace, RendCalls
<1>7. ASSUME NEW x \in Caller PROVE RendWaits(x)'
  <2>1. /\ pc'[x] \in {"sched", "off"} <=> pc[x] \in {"sched", "off"}
        /\ \A q \in Caller : pc'[q] = "spin" <=> pc[q] = "spin"
    BY <1>2, <1>3
  <2> QED
    BY <2>1, <1>1, <1>2 DEF RendWaits
<1>8. R!NobodyMissed' /\ R!Exchanged'
  BY <1>1, <1>2 DEF R!NobodyMissed, R!Exchanged
<1> QED
  BY <1>4, <1>5, <1>6, <1>7, <1>8 DEF RendInv

\* A process that was met or pulled out returns what it was left.
LEMMA RendReturn ==
    ASSUME R!RendezvousAssumption, RendInv, NEW p \in Caller, R!rendReturn(p)
    PROVE  RendInv'
<1>1. /\ R!TypeOK /\ RendLocked
      /\ \A q \in Caller : RendPlace(q) /\ RendCalls(q) /\ RendWaits(q)
      /\ R!NobodyMissed /\ R!Exchanged
  BY DEF RendInv
<1>2. /\ state[p] = "Ready" /\ pc[p] = "off" /\ pc' = [pc EXCEPT ![p] = "idle"]
      /\ state' = [state EXCEPT ![p] = "Running"]
      /\ mach' = [mach EXCEPT ![p] = TRUE]
      /\ result' = [result EXCEPT ![p][call[p]] = rendval[p]]
      /\ rendtag' = rendtag /\ rendval' = rendval /\ hash' = hash
      /\ rgrp' = rgrp /\ pv' = pv /\ tag' = tag /\ call' = call
  BY DEF R!rendReturn, R!Goto, R!returns
<1>3. PICK n \in 1 .. MaxCall : n = call[p] /\ result[p][n] = nil
  <2>1. call[p] \in 1 .. MaxCall
    BY <1>1, <1>2, RendTyped DEF RendCalls, R!RendezvousAssumption
  <2> QED
    BY <2>1, <1>1, <1>2 DEF RendCalls
<1>4. PICK v \in R!Value \ {nil} : v = rendval[p]
  BY <1>1, RendTyped
<1>5. p \notin hash /\ \A q \in Caller : pc[q] = "spin" => pv[q] # p
  BY <1>1, <1>2 DEF RendWaits, RendLocked
<1>6. /\ pc'[p] = "idle" /\ \A a \in (Caller \cup Poster) \ {p} : pc'[a] = pc[a]
      /\ mach'[p] = TRUE /\ \A x \in Caller \ {p} : mach'[x] = mach[x]
      /\ state'[p] = "Running" /\ \A x \in Caller \ {p} : state'[x] = state[x]
  BY <1>1, <1>2 DEF R!TypeOK
<1>7. /\ result' = [result EXCEPT ![p] = [result[p] EXCEPT ![n] = v]]
      /\ result'[p] = [result[p] EXCEPT ![n] = v]
      /\ result'[p][n] = v
      /\ \A x \in Caller, i \in 1 .. MaxCall :
           ~(x = p /\ i = n) => result'[x][i] = result[x][i]
  BY <1>1, <1>2, <1>3, <1>4 DEF R!TypeOK
<1>8. R!TypeOK'
  <2>1. result' \in [Caller -> [1 .. MaxCall -> R!Value]]
    <3>1. result \in [Caller -> [1 .. MaxCall -> R!Value]]
      BY <1>1 DEF R!TypeOK
    <3>2. [result[p] EXCEPT ![n] = v] \in [1 .. MaxCall -> R!Value]
      BY <3>1, <1>4
    <3> QED
      BY <3>1, <3>2, <1>7
  <2>2. /\ pc' \in [Caller \cup Poster ->
                      {"idle", "lock", "search", "spin", "sched", "off", "pull"}]
        /\ mach' \in [Caller -> BOOLEAN]
        /\ state' \in [Caller -> {"Running", "Rendezvous", "Ready"}]
    BY <1>1, <1>2 DEF R!TypeOK
  <2> QED
    BY <2>1, <2>2, <1>1, <1>2 DEF R!TypeOK, R!Value
<1>9. RendLocked'
  <2>1. \A a \in Caller \cup Poster :
          pc'[a] \in {"search", "spin", "pull"} <=> pc[a] \in {"search", "spin", "pull"}
    BY <1>2, <1>6
  <2>2. \A a \in Poster : a # p
    BY DEF R!RendezvousAssumption
  <2>3. \A q \in Caller : pc'[q] = "spin" =>
          /\ pc[q] = "spin" /\ pc'[pv[q]] = pc[pv[q]] /\ state'[pv[q]] = state[pv[q]]
    <3>1. \A q \in Caller : pc[q] = "spin" => pv[q] \in Caller
      BY <1>1, RendTyped DEF RendLocked
    <3> QED
      BY <3>1, <1>5, <1>6
  <2> QED
    BY <2>1, <2>2, <2>3, <1>1, <1>2, <1>6 DEF RendLocked
<1>10. ASSUME NEW x \in Caller PROVE (RendPlace(x) /\ RendCalls(x))'
  <2>1. CASE x = p
    <3>1. RendPlace(p)'
      BY <1>6 DEF RendPlace
    <3>2. \A i \in 1 .. MaxCall : result'[p][i] = nil <=> i > call[p]
      BY <1>1, <1>2, <1>3, <1>4, <1>7 DEF RendCalls
    <3> QED
      BY <2>1, <3>1, <3>2, <1>2, <1>6 DEF RendCalls
  <2>2. CASE x # p
    <3>1. \A i \in 1 .. MaxCall : result'[x][i] = result[x][i]
      BY <2>2, <1>7
    <3> QED
      BY <2>2, <3>1, <1>1, <1>2, <1>6 DEF RendPlace, RendCalls
  <2> QED
    BY <2>1, <2>2
<1>11. ASSUME NEW x \in Caller PROVE RendWaits(x)'
  <2>1. CASE x = p
    <3>1. pc'[p] = "idle" /\ p \notin hash' /\ state'[p] = "Running"
      BY <1>2, <1>5, <1>6
    <3> QED
      BY <2>1, <3>1 DEF RendWaits
  <2>2. CASE x # p
    <3>1. pc'[x] = pc[x] /\ state'[x] = state[x]
      BY <2>2, <1>6
    <3>2. \A y \in Caller : pc[y] = "spin" => pc'[y] = "spin"
      BY <1>2, <1>6
    <3>3. ASSUME pc[x] \in {"sched", "off"}, NEW y \in Caller,
                 NEW i \in 1 .. MaxCall, result[y][i] = <<x, call[x]>>
          PROVE  result'[y][i] = <<x, call[x]>>
      <4>1. call[x] \in 1 .. MaxCall
        BY <3>3, <1>1, RendTyped DEF RendCalls, R!RendezvousAssumption
      <4>2. <<x, call[x]>> # nil
        BY <4>1 DEF R!RendezvousAssumption
      <4> QED
        BY <3>3, <4>2, <1>3, <1>7
    <3>4. x \in hash => state'[x] = "Rendezvous"
      BY <3>1, <1>1 DEF RendWaits
    <3>5. state[x] = "Rendezvous" /\ x \notin hash =>
            \E y \in Caller : pc[y] = "spin" /\ pv[y] = x
      BY <1>1 DEF RendWaits
    <3> QED
      BY <3>1, <3>2, <3>3, <3>4, <3>5, <1>1, <1>2, RendWaitsKept
  <2> QED
    BY <2>1, <2>2
<1>12. R!NobodyMissed'
  BY <1>1, <1>2 DEF R!NobodyMissed
\* What it was left is the value of a call that got its own.
<1>13. \A x \in Caller, i \in 1 .. MaxCall : v = <<x, i>> => result[x][i] = <<p, n>>
  <2>1. v = none \/ \E x \in Caller, i \in 1 .. MaxCall :
                      v = <<x, i>> /\ result[x][i] = <<p, n>>
    <3>1. RendWaits(p) /\ pc[p] \in {"sched", "off"} /\ p \notin hash
      BY <1>1, <1>2, <1>5
    <3>2. rendval[p] # none =>
            \E x \in Caller, i \in 1 .. MaxCall :
              rendval[p] = <<x, i>> /\ result[x][i] = <<p, call[p]>>
      BY <3>1 DEF RendWaits
    <3> QED
      BY <3>2, <1>3, <1>4
  <2>2. \A x \in Caller, i \in 1 .. MaxCall : <<x, i>> # none
    BY DEF R!RendezvousAssumption
  <2> QED
    BY <2>1, <2>2
<1>14. R!Exchanged'
  <2> SUFFICES ASSUME NEW x \in Caller, NEW y \in Caller,
                      NEW i \in 1 .. MaxCall, NEW j \in 1 .. MaxCall,
                      result'[x][i] = <<y, j>>
               PROVE  \/ result'[y][j] = <<x, i>>
                      \/ /\ result'[y][j] = nil /\ call'[y] = j
                         /\ rendval'[y] = <<x, i>> /\ y \notin hash'
    BY DEF R!Exchanged
  <2>1. <<x, i>> # nil /\ <<y, j>> # nil /\ <<p, n>> # nil
    BY DEF R!RendezvousAssumption
  <2>2. CASE x = p /\ i = n
    <3>1. result[y][j] = <<p, n>>
      BY <2>2, <1>7, <1>13
    <3> QED
      BY <2>1, <2>2, <3>1, <1>3, <1>7
  <2>3. CASE ~(x = p /\ i = n)
    <3>1. result[x][i] = <<y, j>>
      BY <2>3, <1>7
    <3>2. CASE result[y][j] = <<x, i>>
      BY <3>2, <2>1, <1>3, <1>7
    <3>3. CASE /\ result[y][j] = nil /\ call[y] = j
               /\ rendval[y] = <<x, i>> /\ y \notin hash
      <4>1. CASE y = p
        BY <3>3, <4>1, <1>3, <1>4, <1>7
      <4>2. CASE y # p
        BY <3>3, <4>2, <1>2, <1>7
      <4> QED
        BY <4>1, <4>2
    <3> QED
      BY <3>1, <3>2, <3>3, <1>1 DEF R!Exchanged
  <2> QED
    BY <2>2, <2>3
<1> QED
  BY <1>8, <1>9, <1>10, <1>11, <1>12, <1>14 DEF RendInv

\* postnote begins: the process it saw waiting is remembered.
LEMMA RendPostnote ==
    ASSUME R!RendezvousAssumption, RendInv, NEW n \in Poster, NEW p \in Caller,
           R!postnote(n, p)
    PROVE  RendInv'
<1>1. /\ R!TypeOK /\ RendLocked
      /\ \A q \in Caller : RendPlace(q) /\ RendCalls(q) /\ RendWaits(q)
      /\ R!NobodyMissed /\ R!Exchanged
  BY DEF RendInv
<1>2. /\ pc[n] = "idle" /\ pc' = [pc EXCEPT ![n] = "lock"]
      /\ pv' = [pv EXCEPT ![n] = p]
      /\ state' = state /\ mach' = mach /\ rendtag' = rendtag
      /\ rendval' = rendval /\ hash' = hash /\ rgrp' = rgrp
      /\ tag' = tag /\ call' = call /\ result' = result
  BY DEF R!postnote, R!Goto, R!calls
<1>3. /\ pc'[n] = "lock" /\ \A a \in (Caller \cup Poster) \ {n} : pc'[a] = pc[a]
      /\ pv'[n] = p /\ \A a \in (Caller \cup Poster) \ {n} : pv'[a] = pv[a]
      /\ p # nil /\ \A x \in Caller : x # n
  BY <1>1, <1>2 DEF R!TypeOK, R!RendezvousAssumption
<1>4. R!TypeOK'
  BY <1>1, <1>2 DEF R!TypeOK, R!Value
<1>5. RendLocked'
  <2>1. \A a \in Caller \cup Poster :
          pc'[a] \in {"search", "spin", "pull"} <=> pc[a] \in {"search", "spin", "pull"}
    BY <1>2, <1>3
  <2>2. \A x \in Caller : pv[x] # nil => pv[x] \in Caller
    BY <1>1, RendTyped
  <2> QED
    BY <2>1, <2>2, <1>1, <1>2, <1>3 DEF RendLocked
<1>6. ASSUME NEW x \in Caller PROVE (RendPlace(x) /\ RendCalls(x) /\ RendWaits(x))'
  <2>1. (RendPlace(x) /\ RendCalls(x))'
    BY <1>1, <1>2, <1>3 DEF RendPlace, RendCalls
  <2>2. /\ x \in hash => state'[x] = "Rendezvous"
        /\ state'[x] = "Rendezvous" /\ x \notin hash =>
             \E y \in Caller : pc'[y] = "spin" /\ pv'[y] = x
    BY <1>1, <1>2, <1>3 DEF RendWaits
  <2>3. RendWaits(x)'
    BY <2>2, <1>1, <1>2, <1>3, RendWaitsKept
  <2> QED
    BY <2>1, <2>3
<1>7. R!NobodyMissed'
  BY <1>1, <1>2 DEF R!NobodyMissed
<1>8. R!Exchanged'
  BY <1>1, <1>2 DEF R!Exchanged
<1> QED
  BY <1>4, <1>5, <1>6, <1>7, <1>8 DEF RendInv

\* postnote pulls the process out, if it still waits.
LEMMA RendPull ==
    ASSUME R!RendezvousAssumption, RendInv, NEW n \in Poster, R!postnotePull(n)
    PROVE  RendInv'
<1>1. /\ R!TypeOK /\ RendLocked
      /\ \A q \in Caller : RendPlace(q) /\ RendCalls(q) /\ RendWaits(q)
      /\ R!NobodyMissed /\ R!Exchanged
  BY DEF RendInv
<1>2. /\ pc[n] = "pull" /\ pc' = [pc EXCEPT ![n] = "idle"]
      /\ pv' = [pv EXCEPT ![n] = nil] /\ rgrp' = nil
      /\ mach' = mach /\ rendtag' = rendtag
      /\ tag' = tag /\ call' = call /\ result' = result
  BY DEF R!postnotePull, R!Goto, R!calls
<1>3. PICK p \in Caller : p = pv[n]
  <2>1. pv[n] \in Caller \cup {nil} /\ pv[n] # nil
    BY <1>1, <1>2 DEF R!TypeOK, RendLocked
  <2> QED
    BY <2>1
<1>4. /\ pc'[n] = "idle" /\ \A a \in (Caller \cup Poster) \ {n} : pc'[a] = pc[a]
      /\ \A a \in (Caller \cup Poster) \ {n} : pv'[a] = pv[a]
      /\ \A x \in Caller : x # n
  BY <1>1, <1>2 DEF R!TypeOK, R!RendezvousAssumption
<1>5. \A a \in (Caller \cup Poster) \ {n} : pc[a] \notin {"search", "spin", "pull"}
  <2>1. rgrp = n
    BY <1>1, <1>2 DEF RendLocked
  <2> QED
    BY <2>1, <1>1 DEF RendLocked
<1>6. \A x \in Caller : state[x] = "Rendezvous" <=> x \in hash
  BY <1>1, <1>4, <1>5 DEF RendWaits
<1>7. \/ /\ p \in hash /\ rendval' = [rendval EXCEPT ![p] = none]
         /\ hash' = hash \ {p} /\ state' = [state EXCEPT ![p] = "Ready"]
      \/ p \notin hash /\ rendval' = rendval /\ hash' = hash /\ state' = state
  BY <1>3, <1>6 DEF R!postnotePull
<1>8. /\ \A x \in Caller \ {p} : /\ rendval'[x] = rendval[x] /\ state'[x] = state[x]
                                 /\ x \in hash' <=> x \in hash
      /\ p \notin hash'
      /\ p \in hash => /\ rendval'[p] = none /\ state'[p] = "Ready"
                       /\ pc[p] \in {"sched", "off"}
      /\ p \notin hash => rendval'[p] = rendval[p] /\ state'[p] = state[p]
  BY <1>1, <1>7 DEF R!TypeOK, RendWaits
<1>9. R!TypeOK'
  <2>1. none \in R!Value \ {nil}
    BY DEF R!Value, R!RendezvousAssumption
  <2>2. rendval' \in [Caller -> R!Value \ {nil}]
    BY <2>1, <1>1, <1>7 DEF R!TypeOK
  <2>3. /\ pc' \in [Caller \cup Poster ->
                      {"idle", "lock", "search", "spin", "sched", "off", "pull"}]
        /\ pv' \in [Caller \cup Poster -> Caller \cup {nil}]
        /\ hash' \subseteq Caller
        /\ state' \in [Caller -> {"Running", "Rendezvous", "Ready"}]
    BY <1>1, <1>2, <1>7 DEF R!TypeOK
  <2> QED
    BY <2>2, <2>3, <1>1, <1>2 DEF R!TypeOK, R!Value
<1>10. RendLocked'
  <2>1. \A a \in Caller \cup Poster :
          pc'[a] \notin {"search", "spin", "pull"} /\ a # nil
    BY <1>4, <1>5 DEF R!RendezvousAssumption
  <2> QED
    BY <2>1, <1>1, <1>2, <1>4 DEF RendLocked
<1>11. ASSUME NEW x \in Caller PROVE (RendPlace(x) /\ RendCalls(x))'
  <2>1. RendPlace(x)'
    BY <1>1, <1>2, <1>4, <1>8 DEF RendPlace
  <2>2. pc[x] \in {"lock", "search"} => rendval'[x] = none
    BY <1>1, <1>8 DEF RendCalls
  <2>3. RendCalls(x)'
    BY <2>2, <1>1, <1>2, <1>4 DEF RendCalls
  <2> QED
    BY <2>1, <2>3
<1>12. ASSUME NEW x \in Caller PROVE RendWaits(x)'
  <2>1. CASE x = p /\ p \in hash
    BY <2>1, <1>8 DEF RendWaits
  <2>2. CASE x # p \/ p \notin hash
    <3>1. /\ x \in hash' <=> x \in hash
          /\ rendval'[x] = rendval[x] /\ state'[x] = state[x]
      BY <2>2, <1>8
    <3>2. /\ x \in hash => state'[x] = "Rendezvous"
          /\ ~(state'[x] = "Rendezvous" /\ x \notin hash)
      BY <3>1, <1>6
    <3> QED
      BY <3>1, <3>2, <1>1, <1>2, <1>4, RendWaitsKept
  <2> QED
    BY <2>1, <2>2
<1>13. R!NobodyMissed'
  BY <1>1, <1>2, <1>7 DEF R!NobodyMissed
<1>14. R!Exchanged'
  <2>1. ASSUME NEW y \in Caller, y \notin hash
        PROVE  y \notin hash' /\ rendval'[y] = rendval[y]
    BY <2>1, <1>8
  <2> QED
    BY <2>1, <1>1, <1>2 DEF R!Exchanged
<1> QED
  BY <1>9, <1>10, <1>11, <1>12, <1>13, <1>14 DEF RendInv

LEMMA RendInitially ==
    ASSUME R!RendezvousAssumption, R!Init PROVE RendInv
<1>1. /\ \A p \in Caller : /\ state[p] = "Running" /\ mach[p] = TRUE
                           /\ rendval[p] = none /\ call[p] = 0
                           /\ \A n \in 1 .. MaxCall : result[p][n] = nil
      /\ \A a \in Caller \cup Poster : pc[a] = "idle" /\ a # nil
      /\ hash = {} /\ rgrp = nil
  BY DEF R!Init, R!RendezvousAssumption
<1>2. R!TypeOK
  <2>1. none \in R!Value \ {nil} /\ nil \in R!Value /\ 0 \in 0 .. MaxCall
    BY DEF R!Value, R!RendezvousAssumption
  <2> QED
    BY <2>1 DEF R!Init, R!TypeOK
<1>3. RendLocked
  BY <1>1 DEF RendLocked
<1>4. \A p \in Caller : RendPlace(p) /\ RendWaits(p)
  BY <1>1 DEF RendPlace, RendWaits
<1>5. \A p \in Caller : RendCalls(p)
  BY <1>1 DEF RendCalls
<1>6. R!NobodyMissed /\ R!Exchanged
  <2>1. \A q \in Caller, j \in 1 .. MaxCall : <<q, j>> # nil
    BY DEF R!RendezvousAssumption
  <2>2. R!NobodyMissed
    BY <1>1 DEF R!NobodyMissed
  <2>3. R!Exchanged
    <3>1. ASSUME NEW p \in Caller, NEW q \in Caller, NEW i \in 1 .. MaxCall,
                 NEW j \in 1 .. MaxCall
          PROVE  result[p][i] # <<q, j>>
      <4>1. result[p][i] = nil
        BY <1>1
      <4>2. <<q, j>> # nil
        BY <2>1
      <4> QED
        BY <4>1, <4>2
    <3> QED
      BY <3>1 DEF R!Exchanged
  <2> QED
    BY <2>2, <2>3
<1> QED
  BY <1>2, <1>3, <1>4, <1>5, <1>6 DEF RendInv

LEMMA RendInductive ==
    ASSUME R!RendezvousAssumption, RendInv, [R!Next]_(R!vars)
    PROVE  RendInv'
<1>1. CASE UNCHANGED R!vars
  <2>1. /\ state' = state /\ mach' = mach /\ rendtag' = rendtag
        /\ rendval' = rendval /\ hash' = hash /\ rgrp' = rgrp /\ pc' = pc
        /\ tag' = tag /\ pv' = pv /\ call' = call /\ result' = result
    BY <1>1 DEF R!vars
  <2>2. R!TypeOK' /\ RendLocked' /\ R!NobodyMissed' /\ R!Exchanged'
    BY <2>1 DEF RendInv, R!TypeOK, R!Value, RendLocked, R!NobodyMissed, R!Exchanged
  <2>3. \A p \in Caller : (RendPlace(p) /\ RendCalls(p) /\ RendWaits(p))'
    <3>1. \A p \in Caller : (RendPlace(p) /\ RendCalls(p))'
      BY <2>1 DEF RendInv, RendPlace, RendCalls
    <3>2. \A p \in Caller : RendWaits(p)'
      BY <2>1 DEF RendInv, RendWaits
    <3> QED
      BY <3>1, <3>2
  <2> QED
    BY <2>2, <2>3 DEF RendInv
<1>2. ASSUME NEW p \in Caller, NEW t \in Tag, R!sysrendezvous(p, t) PROVE RendInv'
  BY <1>2, RendSysrendezvous
<1>3. ASSUME NEW p \in Caller, R!rendLock(p) PROVE RendInv'
  <2>1. /\ rgrp = nil /\ rgrp' = p
        /\ pc[p] = "lock" /\ pc' = [pc EXCEPT ![p] = "search"]
        /\ UNCHANGED <<state, mach, rendtag, rendval, hash, pv, tag, call, result>>
    BY <1>3 DEF R!rendLock, R!Goto, R!calls
  <2>2. p \notin Poster
    BY DEF R!RendezvousAssumption
  <2> QED
    BY <2>1, <2>2, RendLock
<1>4. ASSUME NEW p \in Caller, R!Running(p) PROVE RendInv'
  BY <1>4, RendMatch, RendReady, RendWait, RendSched, RendReturn DEF R!Running
<1>5. ASSUME NEW n \in Poster, NEW p \in Caller, R!postnote(n, p) PROVE RendInv'
  BY <1>5, RendPostnote
<1>6. ASSUME NEW n \in Poster, R!postnoteLock(n) PROVE RendInv'
  <2>1. /\ rgrp = nil /\ rgrp' = n
        /\ pc[n] = "lock" /\ pc' = [pc EXCEPT ![n] = "pull"]
        /\ UNCHANGED <<state, mach, rendtag, rendval, hash, pv, tag, call, result>>
    BY <1>6 DEF R!postnoteLock, R!Goto, R!calls
  <2>2. n \notin Caller
    BY DEF R!RendezvousAssumption
  <2> QED
    BY <2>1, <2>2, RendLock
<1>7. ASSUME NEW n \in Poster, R!postnotePull(n) PROVE RendInv'
  BY <1>7, RendPull
<1> QED
  BY <1>1, <1>2, <1>3, <1>4, <1>5, <1>6, <1>7 DEF R!Next

\* RendezvousOK: whoever waits is on a chain, two processes of one tag never
\* both wait, and values are exchanged in pairs, whatever notes are posted.
THEOREM ValuesExchanged ==
    ASSUME R!RendezvousAssumption PROVE R!Spec => []RendezvousOK
<1>1. R!Init => RendInv
  BY RendInitially
<1>2. RendInv /\ [R!Next]_(R!vars) => RendInv'
  BY RendInductive
<1>3. ASSUME RendInv PROVE RendezvousOK
  <2>1. ASSUME rgrp = nil, NEW p \in Caller
        PROVE  state[p] = "Rendezvous" <=> p \in hash
    <3>1. \A a \in Caller : pc[a] # "spin"
      BY <2>1, <1>3 DEF RendInv, RendLocked, R!RendezvousAssumption
    <3> QED
      BY <3>1, <1>3 DEF RendInv, RendWaits
  <2>2. hash \subseteq Caller
    BY <1>3 DEF RendInv, R!TypeOK
  <2>3. R!WaitingIsHashed
    BY <2>1, <2>2 DEF R!WaitingIsHashed
  <2> QED
    BY <2>3, <1>3 DEF RendInv, RendezvousOK, R!ChainsOK
<1> QED
  BY <1>1, <1>2, <1>3, PTL DEF R!Spec

-----------------------------------------------------------------------------
(***************************************************************************)
(* Broken.  If a clock tick may fall between the end of addbroken's lock   *)
(* and the assignment to p->state, a process is readied twice, as TLC      *)
(* shows.  Without it (~SlowMark) the list and the run queue agree.        *)
(***************************************************************************)
\* Whether p is inside addbroken, and so on the list or readied from there.
InAddbroken(p) == bpc[p] \in {"mark", "sched", "off"}

\* Where a process is in addbroken tells whether it is on a processor.
BrokenPlace(p) ==
    /\ bpc[p] \in {"mark", "sched"} => bmach[p]
    /\ bpc[p] = "off" => ~bmach[p]
    /\ bpc[p] \in {"sched", "off"} => bstate[p] \in {"Broken", "Ready"}
    /\ ~InAddbroken(p) =>
         \/ bmach[p] /\ bstate[p] = "Running" /\ onqueue[p] = 0
         \/ ~bmach[p] /\ bstate[p] = "Ready" /\ onqueue[p] = 1

\* A process in addbroken is on the list or on the run queue, not on both.
BrokenFound(p) ==
    /\ On(p, broken) =>
         /\ InAddbroken(p) /\ onqueue[p] = 0
         /\ bpc[p] # "mark" => bstate[p] = "Broken"
    /\ InAddbroken(p) /\ ~On(p, broken) =>
         /\ onqueue[p] = 1
         /\ bpc[p] = "mark" => bstate[p] = "Ready"

BrokenInv ==
    /\ B!TypeOK /\ Once(broken)
    /\ \A p \in Breaker : BrokenPlace(p) /\ BrokenFound(p)

\* What the type invariant says of one process.
LEMMA BrokenTyped ==
    ASSUME B!TypeOK, NEW p \in Breaker
    PROVE  /\ bstate[p] \in {"Running", "Ready", "Broken"}
           /\ bmach[p] \in BOOLEAN /\ onqueue[p] \in Nat
           /\ bpc[p] \in {"faulty", "mark", "sched", "off", "exiting"}
  BY DEF B!TypeOK

\* The processes of Q, all of them on the list, are taken from it and readied.
LEMMA BrokenReadied ==
    ASSUME BrokenInv, NEW Q, \A p \in Q : p \in Breaker /\ On(p, broken),
           B!ready(Q), bpc' = bpc, bmach' = bmach,
           NEW s \in Seq(Breaker), broken' = s, Once(s), Len(s) <= NBROKEN,
           \A p \in Breaker : On(p, s) <=> On(p, broken) /\ p \notin Q
    PROVE  BrokenInv'
<1>1. /\ B!TypeOK /\ Once(broken)
      /\ \A p \in Breaker : BrokenPlace(p) /\ BrokenFound(p)
  BY DEF BrokenInv
<1>2. /\ onqueue' = [q \in Breaker |-> IF q \in Q THEN onqueue[q] + 1 ELSE onqueue[q]]
      /\ bstate' = [q \in Breaker |-> IF q \in Q THEN "Ready" ELSE bstate[q]]
  BY DEF B!ready
<1>3. \A q \in Breaker :
        /\ onqueue'[q] = IF q \in Q THEN onqueue[q] + 1 ELSE onqueue[q]
        /\ bstate'[q] = IF q \in Q THEN "Ready" ELSE bstate[q]
  BY <1>2
<1>4. \A q \in Q : InAddbroken(q) /\ onqueue[q] = 0
  BY <1>1 DEF BrokenFound
<1>5. B!TypeOK'
  <2>1. onqueue' \in [Breaker -> Nat]
    BY <1>1, <1>2 DEF B!TypeOK
  <2>2. bstate' \in [Breaker -> {"Running", "Ready", "Broken"}]
    BY <1>1, <1>2 DEF B!TypeOK
  <2> QED
    BY <2>1, <2>2, <1>1 DEF B!TypeOK
<1>6. ASSUME NEW p \in Breaker PROVE BrokenPlace(p)'
  BY <1>1, <1>3, <1>4 DEF BrokenPlace, InAddbroken
<1>7. ASSUME NEW p \in Breaker PROVE BrokenFound(p)'
  <2>1. CASE p \in Q
    <3>1. InAddbroken(p) /\ onqueue'[p] = 1 /\ bstate'[p] = "Ready" /\ ~On(p, s)
      BY <2>1, <1>3, <1>4
    <3> QED
      BY <3>1 DEF BrokenFound, InAddbroken
  <2>2. CASE p \notin Q
    <3>1. /\ onqueue'[p] = onqueue[p] /\ bstate'[p] = bstate[p]
          /\ On(p, s) <=> On(p, broken)
      BY <2>2, <1>3
    <3> QED
      BY <3>1, <1>1 DEF BrokenFound, InAddbroken
  <2> QED
    BY <2>1, <2>2
<1> QED
  BY <1>5, <1>6, <1>7 DEF BrokenInv

\* A process goes on the list, which has room.
LEMMA BrokenListed ==
    ASSUME BrokenInv, NEW p \in Breaker, bmach[p], bpc[p] = "faulty",
           bpc' = [bpc EXCEPT ![p] = "mark"],
           broken' = Append(broken, p), Len(broken) < NBROKEN, NBROKEN \in Nat,
           bstate' = bstate, onqueue' = onqueue, bmach' = bmach
    PROVE  BrokenInv'
<1>1. /\ B!TypeOK /\ Once(broken)
      /\ \A q \in Breaker : BrokenPlace(q) /\ BrokenFound(q)
  BY DEF BrokenInv
<1>2. ~On(p, broken) /\ onqueue[p] = 0 /\ bstate[p] = "Running"
  BY <1>1 DEF BrokenPlace, BrokenFound, InAddbroken
<1>3. PICK s \in Seq(Breaker) : s = broken
  BY <1>1 DEF B!TypeOK
<1>4. /\ broken' \in Seq(Breaker) /\ Len(broken') = Len(broken) + 1
      /\ \A q : On(q, broken') <=> On(q, broken) \/ q = p
      /\ Once(broken')
  <2>1. PICK t : t = Append(s, p)
    OBVIOUS
  <2>2. /\ t \in Seq(Breaker) /\ Len(t) = Len(s) + 1
        /\ \A q : On(q, t) <=> On(q, s) \/ q = p
        /\ Once(t)
    BY <2>1, <1>1, <1>2, <1>3, AppendQueue, AppendProperties
  <2> QED
    BY <2>1, <2>2, <1>3
<1>5. Len(broken) \in Nat
  BY <1>3, LenProperties
<1>6. bpc'[p] = "mark" /\ \A q \in Breaker \ {p} : bpc'[q] = bpc[q]
  BY <1>1 DEF B!TypeOK
<1>7. B!TypeOK'
  <2>1. Len(broken') <= NBROKEN
    BY <1>4, <1>5
  <2> QED
    BY <2>1, <1>1, <1>4 DEF B!TypeOK
<1>8. ASSUME NEW q \in Breaker PROVE (BrokenPlace(q) /\ BrokenFound(q))'
  <2>1. CASE q = p
    <3>1. BrokenPlace(p)'
      BY <1>6 DEF BrokenPlace, InAddbroken
    <3>2. BrokenFound(p)'
      BY <1>2, <1>4, <1>6 DEF BrokenFound, InAddbroken
    <3> QED
      BY <2>1, <3>1, <3>2
  <2>2. CASE q # p
    <3>1. On(q, broken)' <=> On(q, broken)
      BY <2>2, <1>4 DEF On
    <3> QED
      BY <2>2, <3>1, <1>1, <1>6 DEF BrokenPlace, BrokenFound, InAddbroken
  <2> QED
    BY <2>1, <2>2
<1> QED
  BY <1>4, <1>7, <1>8 DEF BrokenInv

\* A process goes on the list in place of the oldest, which is readied.
LEMMA BrokenReplaced ==
    ASSUME BrokenInv, NEW p \in Breaker, bmach[p], bpc[p] = "faulty",
           bpc' = [bpc EXCEPT ![p] = "mark"], broken # <<>>,
           broken' = Append(Tail(broken), p),
           B!ready({Head(broken)}), bmach' = bmach
    PROVE  BrokenInv'
<1>1. /\ B!TypeOK /\ Once(broken)
      /\ \A q \in Breaker : BrokenPlace(q) /\ BrokenFound(q)
  BY DEF BrokenInv
<1>2. ~On(p, broken) /\ onqueue[p] = 0 /\ bstate[p] = "Running"
  BY <1>1 DEF BrokenPlace, BrokenFound, InAddbroken
<1>3. PICK s \in Seq(Breaker) : s = broken
  BY <1>1 DEF B!TypeOK
<1>4. PICK h \in Breaker, r \in Seq(Breaker) :
        /\ h = Head(s) /\ r = Tail(s)
        /\ On(h, s) /\ Len(s) \in Nat \ {0} /\ Len(r) = Len(s) - 1
        /\ \A q : On(q, s) <=> On(q, r) \/ q = h
        /\ Once(r) /\ ~On(h, r)
  BY <1>1, <1>3, TailQueue
<1>5. PICK t : /\ t = Append(r, p)
               /\ t \in Seq(Breaker) /\ Len(t) = Len(r) + 1
               /\ \A q : On(q, t) <=> On(q, r) \/ q = p
               /\ Once(t)
  <2>1. PICK t : t = Append(r, p)
    OBVIOUS
  <2>2. ~On(p, r)
    BY <1>2, <1>3, <1>4
  <2>3. Len(t) = Len(r) + 1
    BY <2>1, AppendProperties
  <2>4. /\ t \in Seq(Breaker) /\ Once(t)
        /\ \A q : On(q, t) <=> On(q, r) \/ q = p
    <3>1. Once(r) /\ ~On(p, r)
      BY <2>2, <1>4
    <3> QED
      BY <3>1, <2>1, AppendQueue
  <2> QED
    BY <2>1, <2>3, <2>4
<1>6. /\ h # p /\ InAddbroken(h) /\ onqueue[h] = 0
      /\ Len(t) = Len(broken)
  BY <1>1, <1>2, <1>3, <1>4, <1>5 DEF BrokenFound
<1>7. /\ broken' = t
      /\ onqueue' = [q \in Breaker |-> IF q = h THEN onqueue[q] + 1 ELSE onqueue[q]]
      /\ bstate' = [q \in Breaker |-> IF q = h THEN "Ready" ELSE bstate[q]]
  BY <1>3, <1>4, <1>5 DEF B!ready
<1>8. /\ bpc'[p] = "mark" /\ \A q \in Breaker \ {p} : bpc'[q] = bpc[q]
      /\ onqueue'[h] = 1 /\ bstate'[h] = "Ready"
      /\ \A q \in Breaker \ {h} : onqueue'[q] = onqueue[q] /\ bstate'[q] = bstate[q]
  BY <1>1, <1>6, <1>7 DEF B!TypeOK
<1>9. B!TypeOK'
  <2>1. onqueue' \in [Breaker -> Nat]
    BY <1>1, <1>7 DEF B!TypeOK
  <2>2. bstate' \in [Breaker -> {"Running", "Ready", "Broken"}]
    BY <1>1, <1>7 DEF B!TypeOK
  <2>3. broken' \in Seq(Breaker) /\ Len(broken') <= NBROKEN
    BY <1>1, <1>5, <1>6, <1>7 DEF B!TypeOK
  <2> QED
    BY <2>1, <2>2, <2>3, <1>1 DEF B!TypeOK
<1>10. ASSUME NEW q \in Breaker PROVE (BrokenPlace(q) /\ BrokenFound(q))'
  <2>1. CASE q = p
    <3>1. BrokenPlace(p)'
      BY <1>8 DEF BrokenPlace, InAddbroken
    <3>2. BrokenFound(p)'
      BY <1>2, <1>5, <1>6, <1>7, <1>8 DEF BrokenFound, InAddbroken
    <3> QED
      BY <2>1, <3>1, <3>2
  <2>2. CASE q = h
    <3>1. BrokenPlace(h)'
      BY <1>1, <1>6, <1>8 DEF BrokenPlace, InAddbroken
    <3>2. ~On(h, t)
      BY <1>4, <1>5, <1>6
    <3>3. BrokenFound(h)'
      BY <3>2, <1>6, <1>7, <1>8 DEF BrokenFound, InAddbroken
    <3> QED
      BY <2>2, <3>1, <3>3
  <2>3. CASE q # p /\ q # h
    <3>1. On(q, t) <=> On(q, broken)
      BY <2>3, <1>3, <1>4, <1>5
    <3> QED
      BY ZenonT(40), <2>3, <3>1, <1>1, <1>7, <1>8 DEF BrokenPlace, BrokenFound, InAddbroken
  <2> QED
    BY <2>1, <2>2, <2>3
<1> QED
  BY <1>5, <1>7, <1>9, <1>10 DEF BrokenInv

\* A process goes on in addbroken: it is Broken, or off its processor.
LEMMA BrokenMarked ==
    ASSUME BrokenInv, NEW p \in Breaker,
           B!addbrokenMark(p) \/ B!addbrokenSched(p)
    PROVE  BrokenInv'
<1>1. /\ B!TypeOK /\ Once(broken)
      /\ \A q \in Breaker : BrokenPlace(q) /\ BrokenFound(q)
  BY DEF BrokenInv
<1>2. broken' = broken /\ onqueue' = onqueue
  BY DEF B!addbrokenMark, B!addbrokenSched
<1>3. CASE B!addbrokenMark(p)
  <2>1. /\ bmach[p] /\ bpc[p] = "mark" /\ bpc' = [bpc EXCEPT ![p] = "sched"]
        /\ bstate' = [bstate EXCEPT ![p] = "Broken"] /\ bmach' = bmach
    BY <1>3 DEF B!addbrokenMark, B!Goto
  <2>2. /\ bpc'[p] = "sched" /\ bstate'[p] = "Broken"
        /\ \A q \in Breaker \ {p} : bpc'[q] = bpc[q] /\ bstate'[q] = bstate[q]
    BY <2>1, <1>1 DEF B!TypeOK
  <2>3. B!TypeOK'
    BY <2>1, <1>1, <1>2 DEF B!TypeOK
  <2>4. ASSUME NEW q \in Breaker PROVE (BrokenPlace(q) /\ BrokenFound(q))'
    BY <2>1, <2>2, <1>1, <1>2 DEF BrokenPlace, BrokenFound, InAddbroken
  <2> QED
    BY <2>3, <2>4, <1>1, <1>2 DEF BrokenInv
<1>4. CASE B!addbrokenSched(p)
  <2>1. /\ bpc[p] = "sched" /\ bpc' = [bpc EXCEPT ![p] = "off"]
        /\ bmach' = [bmach EXCEPT ![p] = FALSE] /\ bstate' = bstate
    BY <1>4 DEF B!addbrokenSched, B!Goto
  <2>2. /\ bpc'[p] = "off" /\ bmach'[p] = FALSE
        /\ \A q \in Breaker \ {p} : bpc'[q] = bpc[q] /\ bmach'[q] = bmach[q]
    BY <2>1, <1>1 DEF B!TypeOK
  <2>3. B!TypeOK'
    BY <2>1, <1>1, <1>2 DEF B!TypeOK
  <2>4. ASSUME NEW q \in Breaker PROVE (BrokenPlace(q) /\ BrokenFound(q))'
    BY <2>1, <2>2, <1>1, <1>2 DEF BrokenPlace, BrokenFound, InAddbroken
  <2> QED
    BY <2>3, <2>4, <1>1, <1>2 DEF BrokenInv
<1> QED
  BY <1>3, <1>4

\* A process goes to the run queue at a clock tick, or is run from there.
LEMMA BrokenRun ==
    ASSUME ~SlowMark, BrokenInv, NEW p \in Breaker, B!hzsched(p) \/ B!runproc(p)
    PROVE  BrokenInv'
<1>1. /\ B!TypeOK /\ Once(broken)
      /\ \A q \in Breaker : BrokenPlace(q) /\ BrokenFound(q)
  BY DEF BrokenInv
<1>2. broken' = broken
  BY DEF B!hzsched, B!runproc
<1>3. CASE B!hzsched(p)
  <2>1. /\ bmach[p] /\ bstate[p] = "Running" /\ bpc[p] # "mark"
        /\ bmach' = [bmach EXCEPT ![p] = FALSE] /\ bpc' = bpc
        /\ onqueue' = [q \in Breaker |-> IF q = p THEN onqueue[q] + 1 ELSE onqueue[q]]
        /\ bstate' = [q \in Breaker |-> IF q = p THEN "Ready" ELSE bstate[q]]
    BY <1>3 DEF B!hzsched, B!ready
  <2>2. ~InAddbroken(p) /\ onqueue[p] = 0 /\ ~On(p, broken)
    BY <2>1, <1>1 DEF BrokenPlace, BrokenFound, InAddbroken
  <2>3. /\ bmach'[p] = FALSE /\ onqueue'[p] = 1 /\ bstate'[p] = "Ready"
        /\ \A q \in Breaker \ {p} : /\ bmach'[q] = bmach[q] /\ bstate'[q] = bstate[q]
                                    /\ onqueue'[q] = onqueue[q]
    BY <2>1, <2>2, <1>1 DEF B!TypeOK
  <2>4. B!TypeOK'
    <3>1. onqueue' \in [Breaker -> Nat]
      BY <2>1, <1>1 DEF B!TypeOK
    <3>2. /\ bstate' \in [Breaker -> {"Running", "Ready", "Broken"}]
          /\ bmach' \in [Breaker -> BOOLEAN]
      BY <2>1, <1>1 DEF B!TypeOK
    <3> QED
      BY <3>1, <3>2, <2>1, <1>1, <1>2 DEF B!TypeOK
  <2>5. ASSUME NEW q \in Breaker PROVE (BrokenPlace(q) /\ BrokenFound(q))'
    BY <2>1, <2>2, <2>3, <1>1, <1>2 DEF BrokenPlace, BrokenFound, InAddbroken
  <2> QED
    BY <2>4, <2>5, <1>1, <1>2 DEF BrokenInv
<1>4. CASE B!runproc(p)
  <2>1. PICK to \in {"faulty", "exiting"} :
          /\ onqueue[p] > 0 /\ ~bmach[p]
          /\ onqueue' = [onqueue EXCEPT ![p] = onqueue[p] - 1]
          /\ bmach' = [bmach EXCEPT ![p] = TRUE]
          /\ bstate' = [bstate EXCEPT ![p] = "Running"]
          /\ bpc' = [bpc EXCEPT ![p] = to]
    <3>1. ~bmach[p] /\ bpc[p] \in {"faulty", "off", "exiting"}
      BY <1>4, <1>1, BrokenTyped DEF B!runproc, BrokenPlace
    <3> QED
      BY <3>1, <1>4 DEF B!runproc
  <2>2. onqueue[p] = 1 /\ ~On(p, broken)
    BY <2>1, <1>1, BrokenTyped DEF BrokenPlace, BrokenFound, InAddbroken
  <2>3. /\ bmach'[p] = TRUE /\ onqueue'[p] = 0 /\ bstate'[p] = "Running"
        /\ bpc'[p] = to
        /\ \A q \in Breaker \ {p} : /\ bmach'[q] = bmach[q] /\ bstate'[q] = bstate[q]
                                    /\ onqueue'[q] = onqueue[q] /\ bpc'[q] = bpc[q]
    BY <2>1, <2>2, <1>1 DEF B!TypeOK
  <2>4. B!TypeOK'
    <3>1. onqueue' \in [Breaker -> Nat]
      BY <2>1, <2>2, <1>1 DEF B!TypeOK
    <3>2. /\ bstate' \in [Breaker -> {"Running", "Ready", "Broken"}]
          /\ bmach' \in [Breaker -> BOOLEAN]
          /\ bpc' \in [Breaker -> {"faulty", "mark", "sched", "off", "exiting"}]
      BY <2>1, <1>1 DEF B!TypeOK
    <3> QED
      BY <3>1, <3>2, <1>1, <1>2 DEF B!TypeOK
  <2>5. ASSUME NEW q \in Breaker PROVE (BrokenPlace(q) /\ BrokenFound(q))'
    BY <2>2, <2>3, <1>1, <1>2 DEF BrokenPlace, BrokenFound, InAddbroken
  <2> QED
    BY <2>4, <2>5, <1>1, <1>2 DEF BrokenInv
<1> QED
  BY <1>3, <1>4

LEMMA BrokenInductive ==
    ASSUME B!BrokenAssumption, ~SlowMark, BrokenInv, [B!Next]_(B!vars)
    PROVE  BrokenInv'
<1>1. /\ B!TypeOK /\ Once(broken) /\ Len(broken) <= NBROKEN /\ NBROKEN \in Nat \ {0}
  BY DEF BrokenInv, B!TypeOK, B!BrokenAssumption
<1>2. PICK s \in Seq(Breaker) : s = broken /\ Len(s) \in Nat
  BY <1>1, LenProperties DEF B!TypeOK
<1>3. CASE UNCHANGED B!vars
  <2>1. /\ broken' = broken /\ bstate' = bstate /\ bmach' = bmach
        /\ onqueue' = onqueue /\ bpc' = bpc
    BY <1>3 DEF B!vars
  <2> QED
    BY <2>1 DEF BrokenInv, B!TypeOK, BrokenPlace, BrokenFound, InAddbroken
<1>4. ASSUME NEW p \in Breaker, B!addbroken(p) PROVE BrokenInv'
  <2>1. bmach[p] /\ bpc[p] = "faulty" /\ bpc' = [bpc EXCEPT ![p] = "mark"]
        /\ bmach' = bmach
    BY <1>4 DEF B!addbroken, B!Goto
  <2>2. CASE Len(broken) = NBROKEN
    <3>1. broken # <<>>
      BY <2>2, <1>1, <1>2, EmptySeq
    <3> QED
      BY <2>1, <2>2, <3>1, <1>4, BrokenReplaced DEF B!addbroken
  <2>3. CASE Len(broken) # NBROKEN
    <3>1. Len(broken) < NBROKEN
      BY <2>3, <1>1, <1>2
    <3> QED
      BY <2>1, <2>3, <3>1, <1>1, <1>4, BrokenListed DEF B!addbroken
  <2> QED
    BY <2>2, <2>3
<1>5. ASSUME NEW p \in Breaker, B!Breaking(p) PROVE BrokenInv'
  BY <1>5, BrokenMarked, BrokenRun DEF B!Breaking, B!Marking
<1>6. ASSUME NEW p \in Breaker, B!hzsched(p) PROVE BrokenInv'
  BY <1>6, BrokenRun
<1>7. ASSUME NEW p \in Breaker, B!unbreak(p) PROVE BrokenInv'
  <2>1. /\ Contains(broken, p) /\ broken' = RemoveFirst(broken, p)
        /\ B!ready({p}) /\ bmach' = bmach /\ bpc' = bpc
    <3>1. B!ready({p})
      BY <1>7, Zenon DEF B!unbreak
    <3>2. Contains(broken, p)
      BY <1>7 DEF B!unbreak, B!Contains, Contains
    <3>3. B!RemoveFirst(broken, p) = RemoveFirst(broken, p)
      BY DEF B!RemoveFirst, RemoveFirst, B!RemoveAt, RemoveAt, B!SelectInSeq,
             SelectInSeq, B!Min, Min
    <3> QED
      BY <3>1, <3>2, <3>3, <1>7 DEF B!unbreak
  <2>2. On(p, s)
    BY <2>1, <1>2, LenProperties DEF Contains, On
  <2>3. PICK t : t = RemoveFirst(s, p)
    OBVIOUS
  <2>4. /\ t \in Seq(Breaker) /\ Len(t) = Len(s) - 1 /\ Once(t)
        /\ \A q : On(q, t) <=> On(q, s) /\ q # p
    BY <2>2, <2>3, <1>1, <1>2, RemoveQueue
  <2>5. Len(t) <= NBROKEN
    BY <2>4, <1>1, <1>2
  <2>6. \A q \in Breaker : On(q, t) <=> On(q, broken) /\ q \notin {p}
    BY <2>4, <1>2
  <2> QED
    BY <2>1, <2>2, <2>3, <2>4, <2>5, <2>6, <1>2, BrokenReadied
<1>8. CASE B!freebroken
  <2>1. /\ B!ready(ToSet(broken)) /\ broken' = <<>> /\ bmach' = bmach /\ bpc' = bpc
    <3>1. B!ready(ToSet(broken))
      BY <1>8, Zenon DEF B!freebroken, B!ToSet, ToSet
    <3> QED
      BY <3>1, <1>8 DEF B!freebroken
  <2>2. PICK Q : Q = ToSet(broken)
    OBVIOUS
  <2>3. \A q : q \in Q <=> On(q, s)
    BY <2>2, <1>2 DEF ToSet, On
  <2>4. \A q \in Q : q \in Breaker
    BY <2>3, <1>2, LenProperties DEF On
  <2>5. PICK t \in Seq(Breaker) : t = <<>> /\ Len(t) = 0 /\ Once(t) /\ \A q : ~On(q, t)
    <3>1. <<>> \in Seq(Breaker)
      BY EmptySeq
    <3>2. Once(<<>>) /\ \A q : ~On(q, <<>>)
      BY DEF Once, On
    <3> QED
      BY <3>1, <3>2, EmptySeq
  <2>6. \A q \in Breaker : On(q, t) <=> On(q, broken) /\ q \notin Q
    BY <2>3, <2>5, <1>2
  <2>7. Len(t) <= NBROKEN
    BY <2>5, <1>1
  <2> QED
    BY <2>1, <2>2, <2>3, <2>4, <2>5, <2>6, <2>7, <1>2, BrokenReadied
<1> QED
  BY <1>3, <1>4, <1>5, <1>6, <1>7, <1>8 DEF B!Next

\* BrokenOK: every broken process is where somebody finds it, the list fits in
\* its array, and no process is on the run queue twice.
THEOREM BrokenKept ==
    ASSUME B!BrokenAssumption, ~SlowMark PROVE B!Spec => []BrokenOK
<1>1. ASSUME B!Init PROVE BrokenInv
  <2>1. /\ \A p \in Breaker : /\ bstate[p] = "Running" /\ bmach[p] = TRUE
                              /\ onqueue[p] = 0 /\ bpc[p] = "faulty"
        /\ broken = <<>>
    BY <1>1 DEF B!Init
  <2>2. /\ <<>> \in Seq(Breaker) /\ Len(<<>>) = 0
        /\ Once(<<>>) /\ \A q : ~On(q, <<>>)
    BY EmptySeq DEF Once, On
  <2>3. Len(broken) <= NBROKEN
    BY <2>1, <2>2 DEF B!BrokenAssumption
  <2>4. B!TypeOK
    BY <2>1, <2>2, <2>3, <1>1 DEF B!TypeOK, B!Init
  <2> QED
    BY <2>1, <2>2, <2>4 DEF BrokenInv, BrokenPlace, BrokenFound, InAddbroken
<1>2. BrokenInv /\ [B!Next]_(B!vars) => BrokenInv'
  BY BrokenInductive
<1>3. ASSUME BrokenInv PROVE BrokenOK
  <2>1. \A p \in Breaker : onqueue[p] <= 1
    BY <1>3 DEF BrokenInv, BrokenPlace, BrokenFound
  <2>2. ASSUME NEW p \in Breaker, bstate[p] = "Broken"
        PROVE  B!Contains(broken, p) \/ onqueue[p] > 0
    <3>1. InAddbroken(p) /\ (On(p, broken) \/ onqueue[p] = 1)
      BY <1>3, <2>2 DEF BrokenInv, BrokenPlace, BrokenFound
    <3>2. On(p, broken) => B!Contains(broken, p)
      BY <1>3, LenProperties DEF On, B!Contains, BrokenInv, B!TypeOK
    <3> QED
      BY <3>1, <3>2
  <2>3. B!NobodyStuck /\ B!OnQueueOnce
    BY <2>1, <2>2 DEF B!NobodyStuck, B!OnQueueOnce
  <2> QED
    BY <2>3, <1>3 DEF BrokenInv, BrokenOK, B!ListOK
<1> QED
  BY <1>1, <1>2, <1>3, PTL DEF B!Spec

=============================================================================
