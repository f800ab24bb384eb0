# The 9 kernel: a verification project

The repository is the Plan 9 kernel of 2002: about 160 000 lines, most of them
drivers and machine dependent code. Everything in it rests on a small core in
`src/port`: processes, how they block and are woken, the locks, the scheduler,
the clock; on top of these memory, the queues through which devices and
protocols pass data, and the mount driver, through which everything else is
reached. That core is concurrent on several processors and with interrupts, most
of it is written without help from the hardware beyond test-and-set, and hardly
any of it can be tested on purpose. It is modelled here, with one network
protocol, IL, as the first of those that have to do with loss and reordering, and
with fragments and routes, on which all of them stand.

## 1. Inventory

| Component | State | Operations | What is hard, and what makes it correct |
|---|---|---|---|
| Sleep and wakeup (`proc.c`) | `p->state`, `p->r`, `r->p`, `p->notepending`, the locks `r` and `p->rlock` | `sleep`, `wakeup`, `postnote` | Wakers and note posters race for one sleeper and lock in opposite orders. No lost wakeup or note, no panic, no deadlock |
| Scheduler (`proc.c`) | `runq`, `runvec`, `nrdy`, `procalloc.free`; `p->mach`, `mp`, `wired`, `priority`, `quanta` | `sched`, `schedinit`, `ready`, `runproc`, `dequeueproc`, `rebalance`, `hzsched`, `preempted`, `yield`, `newproc`, `procwired`, `procpriority` | A process is readied while still on its stack; the queue is searched without its lock. One processor per process, queued once |
| Queueing locks (`qlock.c`) | `locked`/`writer`, `readers`, the queue of Procs | `qlock`, `canqlock`, `qunlock`, `rlock`, `canrlock`, `runlock`, `wlock`, `wunlock` | The lock is handed over to a process that does not run yet. Exclusion, nobody forgotten or overtaken |
| Spin locks (`taslock.c`) | `l->key`, `l->sr`, `p->nlocks`, `m->ilockdepth`, the interrupt level | `lock`, `canlock`, `unlock`, `ilock`, `iunlock` | Preemption of a holder, interrupts of a holder |
| Fork, exit, wait (`proc.c`, `sysproc.c`) | `pid`, `parent`, `parentpid`, `nchild`, `nwait`, `waitq` | `newproc`, `sysrfork`, `pexit`, `pwait` | Procs are used again while children still point at them |
| Broken processes (`proc.c`) | `broken.p`, `broken.n` | `addbroken`, `unbreak`, `freebroken` | List and state change in two steps |
| Timed sleep (`proc.c`, `alarm.c`) | `talarm.list`, `p->twhen`, `p->trend` | `tsleep`, `checkalarms` | The timeout expires before the process sleeps; the tick skips a busy lock |
| Alarms (`alarm.c`) | `alarms.head`, `p->alarm`, `p->palarm` | `procalarm`, `alarmkproc`, `checkalarms` | The list is read, and alarms are cancelled, without its lock |
| Rendezvous (`sysproc.c`, `proc.c`) | the hash chains, `rendtag`, `rendval` | `sysrendezvous`, `postnote` | A partner and a note reach a waiting process together |
| Clock (`portclock.c`, `devloopback.c`) | `m->ticks`, the list of Timers of each Mach, `t->when`, the time the clock is set for | `hzclock`, `timeradd`, `timerdel`, `timerintr`, `addclock0link`, `pushlink` | Runs on every processor, inside everything else; a Timer is off its list while it is called. In order, on one list, the clock set for the first |
| Streams (`qio.c`, `allocb.c`, `devpipe.c`) | the blocks of a Queue, `len`, `dlen`, `limit`, the bits of `state`, `rlock`, `wlock` | `qread`, `qbread`, `qwrite`, `qbwrite`, `qiwrite`, `qpass`, `qpassnolim`, `qproduce`, `qget`, `qconsume`, `qdiscard`, `qclose`, `qhangup`, `qreopen`, `qflush`, `qsetlimit`, `qnoblock` | Wakeups and kicks come after the queue is unlocked; one side may be an interrupt. Data in order and once, nobody sleeps forgotten |
| Mount driver (`devmnt.c`) | `m->queue`, `m->rip`, the Mntrpcs and tags, their free list | `mountio`, `mntrpcread`, `mountmux`, `mntgate`, `mntflushalloc`, `mntflushfree` | One of the callers reads the replies of all; calls are interrupted and flushed, tags used again. Everybody gets his own reply, somebody reads as long as somebody waits |
| Memory (`page.c`, `segment.c`, `fault.c`, `swap.c`, `cache.c`) | `p->ref`, the free list, the hash chains of cached pages, page table entries, `swapalloc.swmap`, what is in the MMU | `fault`, `fixfault`, `pio`, `newpage`, `putpage`, `auxpage`, `duppage`, `lookpage`, `cachedel`, `dupseg`, `putseg`, the pager | Pages found in the cache while free, counts that are spread over two places, locks that are dropped for I/O. A segment holds what was stored in it |
| Channels and name space (`chan.c`, `pgrp.c`, `sysfile.c`) | `pg->mnthash`, the Mheads with `ref`, `from` and the list `mount`, the locks `pg->ns` and `m->lock`; `c->umh` | `walk`, `findmount`, `undomount`, `cmount`, `cunmount`, `unionread`, `pgrpcpy`, `closepgrp` | Many names are asked for at once and mount points found afterwards; unions are used after the table is unlocked. A path means what its names mean one after the other; binds and unmounts take effect at once |
| IL (`src/ip/il.c`) | the Ilcb: `state`, `start`, `next`, `recvd`, `acksent`, `unacked`, `outoforder`, `rexmit` | `ilstart`, `iliput`, `ilkick`, `ilclose`, `ilackproc` | Loss, repetition, reordering, packets of conversations before. In order, once, and an end to every wait |
| Datagrams (`src/ip/ip.c`) | the Fragment4s with their ages and lists of blocks | `ipoput4`, `ipiput4`, `ip4reassemble`, `ipfragfree4`, `ipfragallo4` | Fragments of fragments, in any order, overlapping, of more datagrams than there is room for. What is passed up is what was sent |
| Routes (`src/ip/iproute.c`) | a tree of Routes for each hash bucket, `v4routegeneration`, the route a conversation remembers | `v4addroute`, `v4delroute`, `routeflush`, `v4lookup` | Trees are taken apart and put together to make room for a wider range; lookups take no lock. No route is lost, the narrowest is found |
| Other protocols (`src/ip`) | conversations, timers, interfaces | TCP, RUDP, UDP, ARP | Loss, reordering, timeouts |
| Real-time scheduler (`edf.c`) | task queues | the `edf` hooks of `proc.c` | Admission, deadlines |
| Devices, architectures, boot | | | Hardware access, or sequential |

How they interact: every blocking call ends in `sleep`, `qlock` or
`sysrendezvous`, each of which sets `up->state` and calls `sched()`; every
unblocking call ends in `ready(p)`. The clock interrupt calls `checkalarms`
(timed sleep and alarms) and `hzsched` (scheduler). Notes (`postnote`) reach into
both `sleep` and `sysrendezvous`; alarms are notes. `pexit` and `pwait` use
`sleep`/`wakeup` on `p->waitr`; `addbroken` is how `pexit` keeps a crashed
process for a debugger. Queues, the mount driver and the pager block and wake with
`sleep` and `wakeup`, and a note interrupts the first two. The pager frees the
broken processes when memory is short (`swap.c:164`), and a page fault on a
mounted file is a call of the mount driver. IL puts what it has received into a
Queue and is kicked by another.

## 2. Modules

Definitions have the names of the C functions. A function that is not atomic is
a family of actions, `sleep`, `sleepLockR`, `sleepLockP`, ..., in the order of
the code, with a `pc` per thread. Definitions marked `Mutant` change
one step the way a slip of the programmer would. They occur in no specification;
each shows that a property depends on the line in question.

* **Sleep** has one action per lock, unlock and shared access of `sleep`,
  `wakeup` and `postnote` (lines 579-651, 708-733 and 742-792 of `proc.c`).
  `cond[r]` stands for `(*f)(arg)`; wakers make it true before they call
  `wakeup`, and the processes that slept make it false (`consume`).
  The guard of `sleep` that no two processes use one Rendez is the contract of
  the routine ("double sleep" is only printed); callers keep it with a QLock.
  `canlock(r)` and its failing branch are `postnoteTry` and `postnoteAgain`.
* **Rendez** is what they promise: `Sleep`, `Wakeup` and `Postnote` in one step
  each. A sleep takes effect when `p->r` is set. Sleep implements it under the
  mapping at the end of `Sleep.tla`.
* **Sched** has a context per Mach: `pc[m] = "run"` is the process `up[m]`, the
  other places are those of `schedinit`, `rebalance` and `runproc` on the stack
  of the Mach. `ready` is two steps, because it takes the lock of `runq` only when
  it has picked a priority: `ready` reads the priorities and the quantum (lines
  223-243) and remembers what it picked (`rdy`, `rdypri`); `readyQueue` writes
  `p->priority` (245) and queues the process (246-258). `procpriority` on another
  Mach may come between; `overtaken`, a history variable, is the processes it
  came between for. The reads are one step, and so are the stores of
  `procpriority` (544-551); where these mix in the code the process may be left at a
  level that follows the rules no more than the stale one does, and `PriorityRules`,
  which is about processes whose priority is not set while they are being readied,
  speaks of neither. The write at 245 comes before the lock; nobody looks at the
  priority of a process that is not queued and does not run any more, and what
  `procpriority` stores between the two is as if it came after. The search of
  `runproc` is a step before `dequeueproc`, because it holds no lock either. `block`
  and `wake` stand for the callers of `sched` and `ready`; who wakes a process has
  taken it off what it waited at, so that nobody else readies it too. When
  `rebalance` finds that a process has waited long enough is left open, and so is
  whether the `canlock(runq)` of `dequeueproc` succeeds.
  `quanta` is cut off at 0.
  `SlowBury` says whether a Mach may stall between the unlocks of `schedinit`
  and `up->mach = 0` (lines 93-96). **MCSched** divides the behaviours in two
  kinds, because all at once is too much for TLC: in one all three Procs are used
  on one level, in the other two of them on two levels while somebody changes the
  wiring and the priority of one. `Counters` is the part of `RunqOK` that says that
  `runvec` and `nrdy`, read without the lock, agree with the queues.
* **RWlock** models one lock of either `kind`. A QLock is an RWlock with writers
  only: the code of `qlock`/`qunlock` is that of `wlock`/`wunlock`
  without readers. What the unlocking process does after dropping `q->use`,
  `ready(p)`, is a step of its own (`unlockReady`).
* **TasLock** has processes, the handlers that interrupt them, preemption
  (`sched`, which checks `nlocks` and `ilockdepth`), and the interrupt level of
  each Mach. A Mach that is `off` is not there, so that the machine of one
  processor, where `ilock` panics rather than spin, is among the initial states.
* **ExitWait**: each step is one critical section of `p->exl` or what lies
  between two. `NWAIT` is the limit of wait records, 128 in the code; `NoWaits`
  says which values of the flag RFNOWAIT are used.
* **Broken** follows a process from the fault through `addbroken` to the rest of
  `pexit`; `onqueue[p]` counts how often the run queue holds it. `SlowMark` says
  whether a clock tick may come between `qunlock(&broken)` and
  `p->state = Broken` (lines 836-840).
* **TSleep** and **Alarms** are the two halves of `alarm.c`. In TSleep `sleep`
  and `wakeup` are the atomic steps that Rendez promises. In Alarms a posted
  note is no more than the alarm reset; `debugger` stands for everybody who holds
  `p->debug`.
* **Timers** has the lists of `portclock.c` with their links, and one user whose
  timer is not periodic, the link of `devloopback.c`; when it wants to be called
  (`Delays`) is left open. Times are relative to now, so that the clock goes on for
  ever with finitely many states; `Late` bounds how late an interrupt may be.
* **Rendezvous** models one group. Values are `<<process, call>>`, so that the
  model can tell which call of whom a value came from. `MaxCall` bounds the calls
  of each process, `MaxCalls` those of all together.
* **Qio** is one Queue in one of the uses the kernel makes of queues (`use`): a
  pipe, an input queue filled at interrupt level, an output queue drained at
  interrupt level, or the console's output, to which `print` writes past all
  locks. Which producer and consumer routine goes with which mode follows the
  callers (`netif.c`, `devuart.c`, `devether.c`, `tcp.c`, `devcons.c`). What is
  done under `ilock(q)` is one step; the calls that come after the `iunlock` are
  steps of their own (`due[t]`), and so is `sleep` after `Qflow` or `Qstarve` has
  been set. A read takes blocks off (`qread`), copies them and puts the rest back
  (`qputback`) in two steps, `hand` in between. Block sizes are small and `Hdr` is
  what a block costs beyond its bytes; bytes are numbered modulo `Labels`.
* **ByteQueue** is what a Queue promises: bytes, or messages, in order and once,
  until somebody clears it. Qio implements it; the items are those in `hand`
  followed by those in `q`.
* **MountMux** has the processes of `mountio`. The Mntrpcs of a process that has
  been interrupted form a `chain` from its latest flush back to the call.
  `rip` is who reads. A note may come at every sleep, read and write. `pend` is the
  server, which does what the protocol asks (see the header). `faults` says
  which of notes, a hangup and garbled messages a behaviour has; `Worlds` the
  sets that are looked at.
* **Pages** looks at one page of each segment. `slot[s]` is its page table entry:
  nothing, a page, or a swap address; `ram` is the pages with their counts, the
  free list in its order, the hash chains by the place a page is cached for, and
  what is in them; `swmap` and `disk` the swap device; `tlb[p]` what the MMU lets
  p do. `fault` is followed from `seg` through `pio`, with `s->lk` dropped for
  the read, through the common part of `fixfault` to `putmmu`. `Hazards` lets
  four interleavings happen that break the properties (section 4).
* **Memory** is what that is for: a segment holds what its users stored in it
  last. Pages implements it; the contents of a segment are what a fault on it
  would find.
* **Il** has a caller and a listener, each with the Ilcb of one conversation at a
  time. A step is what `iliput`, `ilkick`, `ilclose` or `ilackproc` does to one
  conversation; the states are disjuncts as in `_ilprocess`. `net` is a set of
  packets that may be delivered again and again, in any order, or lost. Timers
  may go off whenever they are set. A `plan` gives the start numbers (random in
  the code) and how much each side sends.
* **Frags** sends datagrams on `Paths`, sequences of networks of which each cuts what
  it gets as `ipoput4` does. What a path makes of a datagram may arrive again and
  again, in any order, while the datagram has `life`; a host with `Nfrag` Fragment4s
  puts them together. Lengths are in units of eight bytes, and `came` remembers what
  has come for a reassembly. The list of blocks, with their trimming, is that of
  the code.
* **Routes** has the trees of `iproute.c` as nested records, with `addnode`,
  `balancetree` and `walkadd` as operators on them. A route is added to one bucket
  after the other (`change`), and then the generation counted; a conversation looks
  up its destination and remembers what it found. Only one add, removal or flush is
  made at a time, though the code locks one bucket at a time and two of them may be
  under way on different buckets: what goes wrong then has the cause of `writers`,
  one of the two interleavings that break the properties and that `Hazards` lets
  happen (section 4).
* **RouteTable** is what the trees are for: a set of routes of each bucket, of which
  each change changes one. Routes implements it.
* **Names** is what a path means. The servers know a tree of directories
  (`child`); `mnt` is the mount table. `walk` is written round by round (`step`),
  with the requests of at most `MAXWELEM` names, the first mount point on the way,
  the search of a union for the first name only, and `undomount` after `..`, which
  finds its way back by the *name* of a mount point. `bind` and `unmount` are whole
  system calls, of one process at a time.
* **MountTable** is the same table with several processes, and no names: a process
  finds the Mhead of a directory (`findmount`), takes its first element, and goes on
  to search the others (`walkUnion`), open the union, or bind it elsewhere, with or
  without the locks the code holds. `pgrpcpy` and `closepgrp` go Mhead by Mhead. A
  walk is about one name; which server has it is left open. `Hazards` lets two
  interleavings happen that break the properties (section 4).
* **NameSpace** is what that is for: each call sees one union as it was at one
  moment, each bind and unmount changes one union at one moment, and no table
  changes but by the calls of a member of the group. MountTable implements it.
* **Positions** has the one operation on lists that the library lacks: what is left of
  a list when the elements at some positions are taken out, as MountMux and Pages do.
* The **...Proof** modules prove the theorems of section 5, on the lemmas of
  **QueueTheorems** about lists in which nothing is twice.
* **MC...** modules are what TLC is started on. **MCLocks** (RWlock, TasLock),
  **MCProcs** (ExitWait, Broken, Rendezvous), **MCClock** (TSleep, Alarms, Timers),
  **MCIo** (Qio, MountMux), **MCNet** (Il, Frags, Routes) and **MCNames** (Names,
  MountTable) check components that share no state side by side: a behaviour is one
  of one of them, `which` says of which, and the others stay in their initial
  states, so that nothing is multiplied. Their fairness is that of the modules, one formula
  for each process name, and their liveness properties watch one or two processes
  and leave the rest to symmetry: the work of TLC doubles with every strong
  fairness formula and every `~>`. **MCSched** has the scheduler and sleep and wakeup
  with a specification each, `MCSpec` and `SleepSpec`, for a run each.

## 3. What is checked

| Run | Safety | Liveness | Bounds | States |
|---|---|---|---|---|
| `sleep` | `SleepTypeOK`, `NoPanic`, `RendezSync`, `NoLostWakeup`, `NoLostNote`, `ImplementsRendez` | `NobodyStuck` (`SleeperWoken`, `CallsReturn`) | 1 process, 2 Rendez, 2 wakers, 1 poster | 48 000 |
| `sched` | `ListsOK` (`RunqOK`, `FreeIsFree`), `OneMach`, `MachSaved`, `PriorityRules` | | 2 Machs, 3 Procs, 2 levels, quanta of 1, no stall | 1 187 000 |
| `locks` | `QueueOK` (`NoPanic`, `NobodyForgotten`), `Exclusion`, `NoBarging`; `SpinLocksOK` (`LevelOK`, `HolderRuns`, `NeverStuck`) | `LocksGranted` (`Granted`, `Released`) | 5 processes, either kind of lock; 1 or 2 Machs, 2 processes, a spin lock of each kind | 27 000 |
| `procs` | `ChildrenOK` (`NchildLiving`, `NobodyWaitsInVain`, `RecordsOwn`), `OrphansLeaveNothing`; `BrokenOK` (`ListOK`, `OnQueueOnce`); `RendezvousOK` (`ChainsOK`, `NobodyMissed`, `Exchanged`) | `NobodyStranded` (`WaitReturns`, `BrokenExit`, `MetReturns`) | 3 Procs, 5 pids, limit not reached, no RFNOWAIT; 4 processes, 2 places, no tick in the gap; 3 processes, 2 tags, 2 calls each and 4 in all, 1 poster | 134 000 |
| `clock` | `ListsOK` (`TalarmOK`, `TimeoutKept`, `AlarmsOK`, `TimersOK`), `DueAtHead` (`DueFirst`, `DueIsSeen`, `PostsDue`) | `TimeComes` (`TimeoutFires`, `AlarmGoesOff`, `TimersFire`) | 2 processes, 2 Rendez, 2 Machs, ticks up to 3; 2 processes, ticks up to 4; 1 Mach, 2 periodic Timers and that of a link, interrupts late by 1 | 246 000 |
| `io` | `BooksOK` (`QioOK`, `MountOK`), `NobodyForgotten` (`NoSleeperForgotten`, `BatonKept`), `OwnReply`, `ImplementsByteQueue` | `Returns` (`Progress`, `CallReturns`) | 1 reader, 1 writer, an interrupt, a controller; limits 3 and 5, blocks of 0 and 2 bytes, at most 3, reads of 1 and 2; 3 processes, 5 tags, 2 free Mntrpcs kept, 4 calls and faults in all | 357 000 |
| `pages` | `PagesOK`, `CachesOK` (`MmuOK`, `SwapCacheOK`), `ImplementsMemory` | | 2 processes, 2 segments, 3 pages, 1 swap address, 1 page of the file cache | 240 000 |
| `net` | `ConversationsOK` (`InOrder`, `Agreed`, `NothingForgotten`); `IpOK` (`Whole`, `FragsOK`, `RoutesOK` with `Finds` and `Settled`), `ImplementsRouteTable` | `Answered` | Il: 2 packets in the network, window 2, 1 retransmission; 2 and 1 messages in one conversation, or two conversations; 2 datagrams of 6 units on networks that carry 3, 3 and then 2, and 6, 1 Fragment4; 5 ranges in 2 buckets, 4 routes | 435 000 |
| `names` | `NamesOK` (`RefsOK`, `MountThere`, `ReadsSafe`, `WalkOK`), `ImplementsNameSpace`, `BindShows` | `CallReturns` | 2 processes, 2 directories, 3 groups, 6 Mheads, 3 calls besides reads of unions; 8 directories, 5 of them bound, 2 binds and unmounts, 155 paths, requests of 2 names | 139 000 |
| `names_walk` | `UndomountSide`, violated | | as in `names` | |
| `qio_print` | `EmptyWakesWriter`, violated | | output with `print` | |
| `pages_twice` | `SwapCacheOK`, violated | | the same swap address read twice at once | |

In brackets are the parts of a conjunction, by their names in the modules. The
first invariant of each module also contains its types. Safety and liveness are
checked together, under the fairness below.

Why the bounds are enough to be interesting.

* Sleep: two wakers and a poster race for one sleeper, which meanwhile gets away
  and sleeps on the other Rendez; what more processes could do is covered by the
  proof.
* Sched: three Procs let one be freed, taken again and run while two Machs still
  hold pointers to it, and two levels let a process be queued at a level that is
  no longer its own. Its priority is set, by itself before it blocks or by another
  on the second Mach, before `ready`, between its two steps, and while it is queued.
* RWlock: five processes make queues with readers before, between and behind
  writers. TasLock: a second process takes the Mach of a holder that can be
  preempted.
* ExitWait: five pids on three Procs make a Proc be used again while an orphan
  still points at it. Broken: the third process to break pushes out the first.
  Rendezvous: a process comes back to a tag it was pulled out of while two others
  meet there.
* TSleep and Alarms: two entries are in the right order or not, one is taken off
  from before or behind the other, and the clock can pass both; a list of three
  is only longer.
* Timers: three Timers with periods of 2 and 3 and times ahead of 1 and 3 are in all
  orders, fall due together, and one is deleted, or set again by its own function.
* Qio: a queue of limit 3 is below its half, between half and limit, at it and
  above; blocks are read in part, whole, and several at once; a message is cut.
* MountMux: a call is flushed, its flush flushed, and the tag used by a third
  process while the server still works on the first; the free list overflows.
* Pages: two processes, the pager's write and the file cache can want more than
  three pages together, so that free pages that are caches of something are used
  again; one swap address is used again at once, while pages cached for it are free
  or in use.
* MountTable: with three calls a process is in the middle of a walk, a bind or a
  copy while a second binds, and unmounts or forks; Mheads are freed and used again. With
  three groups both processes can leave one: the last takes its table apart, and
  waits for an Mhead that the other still reads.
  Names: two binds make a mount point on a mount point, a union in a union, a cycle,
  and a directory with two names; paths of three are cut into requests of 1, 2
  and 3 in all ways.
* Il: two packets of any age are enough for each of the crossings of one message
  and its acknowledgement, a sync or a close with one more; the second
  conversation meets all packets of the first.
* Frags: fragments of 3 and 3, and of 2, 1, 2 and 1 within them, fit, overlap, cover
  and are covered in all ways; the second datagram throws out the first.
  Routes: three ranges next to each other rotate a tree, one above them takes it
  apart, and one above that is in both buckets.

Symmetry is used in `sched` and `pages` alone, which have no liveness property,
over sets whose members play the same role.

Runs with `CHECK_DEADLOCK FALSE`: ExitWait and Rendezvous stop when the pids or
the calls are used up, and processes of Broken exit; MountMux, Names and MountTable stop when the
calls are used up, Il when the plan is over. In every other run deadlock is checked.

### Fairness

* A thread inside a routine goes on (WF): code with a spin lock is not
  descheduled (`nlocks`, `splhi`), and other code is scheduled in the end by
  `runproc` and `rebalance`.
* A thread that tries a spin lock which is free again and again gets it (SF).
  Test-and-set does not promise that of one processor against another; it is an
  assumption about the hardware, and `postnote` calls `sched()` between attempts
  to give the other side time.
* The clock ticks (WF of `hzclock`, `checkalarms`), and a tick does not find the
  lock of `talarm` busy for ever (SF), since it is held for a few instructions.
* Timers: time goes on (SF: it waits for an interrupt that is late), an interrupt
  that can come again and again comes (SF), and what runs at interrupt level or
  with a lock goes on (WF).
* A user of a lock releases it (RWlock, TasLock).
* `WaitReturns` takes for granted that programs end, `TimeComes` that debuggers
  let go of `p->debug` in the end, and `BrokenExit` that somebody frees the broken
  processes, as the pager does when memory runs out (`swap.c:164`). Nothing in the
  kernel forces these; the properties say what follows from them.
* Qio: the wakeups and kicks that are due are made, readers and writers run, and
  a device that has been kicked goes on until it finds the queue empty (WF).
  Nobody has to read a pipe, so `Progress` says nothing of its writers.
* MountMux: processes run, which includes that the server answers: a read of the
  connection is enabled once there is an answer to be had (WF).
* MountTable: a process that can go on again and again does (SF): the RWlocks let
  nobody wait for ever (`LocksGranted`), and servers answer.
* Il: the retransmission timer goes off in the end when it is set (WF). No packet
  has to arrive; `Answered` holds because retransmissions are counted.
* Nobody is ever obliged to call `sleep`, `wakeup`, `postnote`, a lock, to read,
  write, or make a call.

## 4. Disagreements between code and comments

Each of these has a run in which TLC shows the steps.

1. `names_walk`. "An invariant is that each time through the loop, c is on the
   undomount side of the mount point" (`chan.c:771`). When a request runs into a
   mount point, `walk` goes on with what is *mounted* there, and if that is a mount
   point too the next round crosses it as well; with `bind / /a` and `bind -a /b /`
   the path `a/y` finds `/b/y`, while `cd a` followed by `y` does not. What a path
   finds depends on how its names are cut into requests.
2. `qio_print`. A writer that finds the console's queue full sets `Qflow`; an
   interrupt drains the queue and clears it; `print` fills the queue again with
   `qiwrite`, which does not set `Qflow`; the writer tests `qnotfull` and goes to
   sleep, and no drain will ever wake it: it does not "wait for queue to get below
   the limit" (`qio.c:1235`) but for somebody to close or flush it.
3. `pages_twice`. Two processes with the same swap address in their page tables
   read the page at once, and both cache it. `cachedel` clears the first one it
   finds, not "any pages referring to it" (`swap.c:283`), and when the address is
   used for another page the other copy stays cached for it.

More that the models show, which no run repeats; each is kept out of the runs by
one constant, but for `FixedStays`, which no run asks for, and can be seen by the
change named.

| Change | What fails | Why |
|---|---|---|
| `NoWaits = {FALSE, TRUE}` (`MCProcs.cfg`) | `OrphansLeaveNothing` | An RFNOWAIT child has `parentpid` 0 and a dead parent has `pid` 0, so that the child does leave a record, on a free Proc: "If my parent is no longer alive ... don't leave a wait record behind" (`proc.c:949`) |
| `NWAIT = 1` (`MCProcs.cfg`) | `ChildrenOK` | At the limit of wait records `nchild` is not decremented (`proc.c:955`), although it is the "Number of living children" (`portdat.h:593`); a later `pwait` sleeps for ever |
| `SlowMark = TRUE` (`MCProcs.cfg`) | `BrokenOK` | A tick between lines 836 and 840 of `proc.c` puts a process on the run queue that `freebroken` or the next `addbroken` will put there again |
| `SlowBury = TRUE` (`MCSched.cfg`) | `MachSaved` | `schedinit` frees a dead Proc and unlocks the list before `up->mach = 0` (`proc.c:96`), against "p->mach==0 only when process state is saved" (`proc.c:285`). It takes a stall of a few instructions, with interrupts off, as long as a fork on another processor |
| `INVARIANT FixedStays` (`MCSched.cfg`) | `FixedStays` | "fixed priority processes never move" (`proc.c:199`), but `ready` picks a priority without a lock (223-243) and stores it at 245. A process that `procpriority` on another processor fixes at another priority in between is put back to the stale one and queued there, until it is readied again; a base priority that is set without fixing the process is overruled in the same way. `PriorityRules` is what is left of the rules: they hold whenever `procpriority` does not come in between |
| `Wander <- TRUE` and two Machs for Timers (`MCClock.tla`) | `ListsOK` (`TimersOK`) | `timeradd` and `timerdel` look at the list of the Mach they run on (`portclock.c:68`, `82`); a process that pushes a loopback link on another Mach puts its Timer, with its one `next`, on a second list |
| `Hazards = {"empty"}` (`MCIo.cfg`) | `NobodyForgotten` | `qconsume` frees blocks of no bytes and returns without restarting the writer (`qio.c:508`) |
| `Hazards = {"lower"}` (`MCIo.cfg`) | `NobodyForgotten` | The limit is lowered under a sleeping writer |
| `Worlds <- Both`, `MaxEvents = 5` (`MCIo.cfg`) | `NobodyForgotten` | A noted process was given the reading, the connection is hung up, its flush fails, and it returns without `mntgate` (`devmnt.c:793`): the others sleep for ever |
| `Hazards = {"union"}` (`MCNames.cfg`) | `ImplementsNameSpace`, and `TopIsC` | A union is changed, or emptied, between the moment a walk took its first element and the moment it looks at the others: "mh->mount->to == c" (`chan.c:810`) is not so, an element is missed or asked twice, and `mh->mount` may be nil |
| `Hazards = {"dotdot"}` (`MCNames.cfg`) | `NamesOK` (`ReadsSafe`) | `undomount` reads a list that `cmount` is changing (`chan.c:719`) |
| `Hazards = {"share"}` (`MCPages.cfg`) | `PagesOK` (`FaultHasPage`) | An entry that was nil before `pio` read the page, was filled by another process and taken by the pager, is not looked at again (`fault.c:247`) |
| `Hazards = {"window"}` (`MCPages.cfg`) | `CachesOK` (`MmuOK`) | A process that loses its processor between `qunlock(&s->lk)` and `putmmu` puts a page into the MMU that the pager has taken (`fault.c:169`) |
| `Hazards = {"retry"}` (`MCPages.cfg`) | `CachesOK` (`MmuOK`) | `duppage` lets go of the page and the count made before is used after (`page.c:286`) |
| `McPaths == {<<3>>, <<2>>}` (`MCNet.tla`) | `IpOK` (`Whole`) | The fragments of a datagram that took two ways overlap. The first may have been trimmed, but its header says how much of it is used (`ip.c:706`), and some bytes are passed up twice |
| A plan with `call \|-> <<150, 100>>` (`MCNet.tla`) | `ConversationsOK` (`NothingForgotten`) | The numbers are apart by more than the window, but the second conversation starts below the first: a late ack of the first is beyond everything the second has sent and empties its `unacked`, since `ilackto` does not ask whether an ack is of something it sent. `iliput` takes an ack in state `Ilestablished` from whoever sends it (`il.c:733`) |
| `Hazards = {"lookup"}` (`MCNet.cfg`) | `IpOK` (`Settled`) | A conversation remembers a route found before a change together with the generation after it (`iproute.c:519`) |
| `Hazards = {"writers"}` (`MCNet.cfg`) | `IpOK` (`Settled`) | A flush between two buckets of an add leaves the route in the second only; `v4addroute` unlocks between them (`iproute.c:321`). Two changes that overlap on different buckets, which the model never has, may leave them apart in the same way |
| `Reserve = 1` (`MCPages.cfg`) | `CachesOK` (`MmuOK`) | With the swap device full a page that is cached for its image is written in place (`fault.c:150`) |

Some races are plain in the code and no property speaks of them: `runproc`
overwrites the `p->mp` of a process that `procwired` has wired since it was chosen
(`proc.c:412`), `canpage` reads `p->mach`, which `sched` sets without the lock
`canpage` holds (`proc.c:425`), a second sync closes an Il conversation in state
`Ilsyncee` without a word to its reader (`il.c:684`), and `ilackproc` and `ilkick`
work on an Ilcb without the lock of its Conv (`il.c:1130`).

## 5. What is proved

TLC checks the instances of section 3. The theorems hold for any sets of
processes, locks, pages, tags and so on, and any values of the bounds, under the
assumptions on the constants that the modules state by name, which say no more
than that sets are finite and disjoint and that `nil` is not one of their members.

| Module | Theorems (property) | Further hypotheses |
|---|---|---|
| LocksProof | `ExclusiveWriter` (`Exclusion`), `QueueSound` (`QueueOK`), `NoOvertaking` (`NoBarging`), `SpinLocksSafe` (`SpinLocksOK`) | |
| SchedProof | `SleepTypes` (`SleepTypeOK`), `NeverPanics` (`NoPanic`), `PointersAgree` (`RendezSync`), `WakeupsKept` (`NoLostWakeup`), `NotesKept` (`NoLostNote`), `SleepRefines` (`ImplementsRendez`) | |
| | `OneStack` (`OneMach`), `SavedMach` (`MachSaved`), `ListsSound` (`ListsOK`), `PrioritiesRuled` (`PriorityRules`) | `~SlowBury` |
| ProcsProof | `ChildrenSound` (`ChildrenOK`), `OrphansQuiet` (`OrphansLeaveNothing`) | `NoWaits \subseteq {FALSE}` and `[]RecordsFit` |
| | `BrokenKept` (`BrokenOK`) | `~SlowMark` |
| | `ValuesExchanged` (`RendezvousOK`) | |
| IoProof | `MountSound` (`MountOK`), `OwnReplies` (`OwnReply`), `BooksKept` (`BooksOK`), `QueueIsByteQueue` (`ImplementsByteQueue`) | |
| | `BatonPassed` (`BatonKept`), `NobodyIsForgotten` (`NobodyForgotten`) | no world has both notes and hang-ups; the second also `Hazards = {}` |
| PagesProof | `PagesSound` (`PagesOK`) | `"share" \notin Hazards` |
| | `CachesSound` (`CachesOK`), `MemoryRefinement` (`ImplementsMemory`) | `Hazards = {}` and `[]~swapfull` |
| ClockProof | `ListsSound` (`ListsOK`), `HeadsTell` (`DueAtHead`), `Behaviours` | a Mach of which nobody else adds Timers (`Wander` is `FALSE`), one period besides that of `hzclock` |
| IlProof | `ReadInOrder` (`InOrder`) | `Separate`: the numbers of two conversations of a side are apart by more than the window |
| | `BothAgree` (`Agreed`) | `Numbered`: also, no conversation starts at 0 |
| | `KeptUntilReceived` (`NothingForgotten`), `ConversationsSound` (`ConversationsOK`) | `Rising`: also, each conversation of a side starts beyond those before it |

Each hypothesis leaves out cases of section 4, where TLC shows a property that
fails without it: they are what the code relies on and
does not make sure of. `[]RecordsFit` says that no process with living children has
as many wait records as it may have (128), `[]~swapfull` that a tenth of the swap
device is free. The runs are instances of these theorems.

None of the properties is inductive. Each module defines an invariant that is,
`IInv`, or `SleepInv` and the like, proves for it one lemma per routine or action with one
step per conjunct that can be disturbed, and derives the properties from it.

**Sleep.** `RendezSync` speaks of r only while its lock is free and says nothing of
what a thread in the middle of a routine relies on. `SleepInv` adds to the types
* `LocksHeld`: a lock's holder is exactly the thread whose `pc` is in the places
  between its lock and unlock;
* `Arguments`: locals are set while they are used, and no two processes sleep on
  one Rendez;
* `Pointers`: `r->p = p` exactly from `sleepSet` on, while `p` is between testing
  and committing, and then as long as `p->r = r`;
* `FoundStays`: what `wakeup` read from `r->p` and `postnote` from `p->r` stays
  true while they hold their lock, the heart of the argument: only the holder of
  both locks changes both pointers;
* `Due`: from the test of the condition on, a condition that has become true has
  a waker that has yet to look at `r->p`, and a note a poster that has yet to
  look at `p->r`. `NoLostWakeup` alone starts too late, when the process is asleep.

`SleepRefines` has the same shape, with each action shown to be one step of Rendez or
a stutter.

**Queueing locks.** What has to be found is how place, state and queue go together
(`Shape`): a waiting process is queued and not ready, or ready and not queued, or,
if it writes, in the hand of exactly one process that is leaving the lock and will
ready it (`HandOK`). `LeadOK` says that readers are never first in the queue of a
lock without a writer, `Owned` that nobody is queued for a lock without owners.
`Exclusion` counts owners, those who were chosen and do not run yet included, and
its proof is a calculation with cardinalities, since `runlock` may hand the lock to
one writer and `wunlock` to any number of readers.
**Spin locks.** `ProcOK`, `MachOK` and `KeyOK` tie `nlocks`, the interrupt level and
`ilockdepth` to the places of the process on a Mach and of the handler that
interrupts it: at most one of them has interrupts off.

**Scheduler.** `MachOK` says what each Mach holds at each place of `sched`,
`schedinit`, `rebalance` and `runproc`: a process it runs or still has the stack of
(`p->mach` is the Mach), or one it has picked, which has no `mach` and is on no
queue. `Apart` says that no two Machs have picked the same, which rests on
`dequeueproc` looking at `p->mach` and at the queue under the lock. `Queues` and
`Counters` are the run queues; that `nrdy` counts them is a matter of cardinalities.
Between the two steps of `ready` a process is on no queue, nobody else readies it or
picks it, and the only Mach that may still be on its stack is the one leaving it, or
about to (`CallOK`); what was picked for it is by the rules, unless it is overtaken
(`Picked`). `EndsReady` says that `readyQueue` is the only step that ends a call of
`ready`, and with these two `PrioritiesRuled` follows.

**Fork, exit, wait.** The pids do the work: `PidsOK` (no two processes have one pid,
and none above `pidalloc` was given away), `NewOK` (a new pid is nobody's
`parentpid` yet), and `Recorded` (a record in `p->waitq` has the pid of no living
process, is of a child of `p`, and is there once). With these the children that
`nchild` counts are exactly those whose exit will find `parent->pid == parentpid`.
**Broken.** A process in `addbroken` is on the list or on the run queue, never both
(`BrokenFound`). **Rendezvous.** Whoever waits is on a chain with its own value, or
a partner that has taken it off spins until it is off its stack, or it has the value
of a call that got its own in exchange (`RendWaits`).

**Mount driver.** `TagInv` divides the Mntrpcs between the free list and the
chains. That answers cannot be mixed up is `PendInv`, about the server's side: every
request outstanding is in the chain of one process, and once; of those in one chain
the later ones (flushes) are answered after the earlier ones (`Newer`); so when the
latest has been answered none is outstanding (`Settled`), and the tags may be used
again. Without an answer to the flush the tags come back only when the connection is
hung up (`pc = "failed"`). `BatonInv` says who is about to read as long as nobody
does.

**Queues.** The length of a queue is a sum over its blocks (`space`) and its contents
the concatenation of their data (`Bytes`), both defined by recursion along the list:
`Recursion` and `Determined` say that such a function exists and is the only one, by
`SetInduction`, and from them come `SpaceConcat` and `BytesConcat`, the only facts
about the two that the rest needs. A routine of qio.c cuts the list somewhere and
perhaps inside a block, so each has a lemma that gives the list as parts
(`TakeBlocks`, `TakeBytes`, `PartBack`, `Around`) and says that exactly the bytes of
one part have moved: `PutBack` (`qread`), `ReadBlock` (`qbread`), `TakeOff`,
`GetBlock`, `ConsumeBytes`, `DiscardBytes`, `Adding`. `QInv` joins the books
(`Counted`) with what is needed to cut that way: a read holds one block or fewer bytes
than it wants, so that only the last block may be cut and put back (`Held`); only
who has just added or taken owes a wakeup (`Owing`). With it every step is one of
ByteQueue. `Waiting` is the argument about wakeups, from the moment somebody decides
to sleep and not only once it sleeps: a reader has left `Qstarve` or there is
something; a writer has left `Qflow`, or what is queued *and what a reader holds and
may put back* is below the limit; a device that stopped has left `Qstarve`. The
hypothesis `Hazards = {}` is used twice: an output queue holds no empty blocks
(`NoneEmpty`), and limits do not fall under a writer.

**Pages.** `Kept` is the order of the lists: the free list has exactly the pages
with count 0, once each, a page is on one hash chain at most. `Books` says what a
count counts (`Holders`): page table entries, faults that have allocated a page, the
file cache, and the pager's write; and that `swmap` counts page table entries. The
operations on pages (`newpage`, `lookpage`, `putpage`, `duppage`, `uncachepage`, ...)
have a lemma each that says which counts, lists and contents they change, and all
that follows uses these alone. `Faulting` is what a fault keeps over the read in `pio`.

**Memory.** `MInv` adds to that
* `Cache`: a swap address is cached once; what is cached for it is what is on the
  device, or is being written there; what is cached for the image is as the image;
* `Reads`: a process that reads a swap address is the only one to do so, the entry
  is still the address, nobody caches it meanwhile, and the page read is as the
  device;
* `Text`: the page of a program text is as the image and never on the device;
* `Mapped`: an entry in the MMU is the one in the page table, and allows stores only
  to a page that nobody else has, that is cached for no address anybody uses, and not
  for the image (`Private`).

With it every step but a store, `fork`, `exec` and `exit` leaves what each segment
holds (`Unseen`: `Holds(s, v)` is what a fault would find there), although pages are
copied, moved to the device, found in the cache again and given to others in between;
and these four are the steps of Memory. `Private` is why a store is seen by nobody
else, and `Still` lists the ways in which a step may treat the pages that somebody has.

**Clock.** The theorems say `Spec /\ A!Spec /\ T!Spec => []...`: a behaviour of the
run is one of all three specifications (`Behaviours`), two of which stutter. *TSleep.*
`InOrder` is said of any two processes on the list, not of positions (`Before`), so
that taking one out leaves it alone; whoever has been taken off before it sleeps
finds its time come (`SleeperOK`), and an interrupt between reading the head and
waking it up holds the list (`InterruptOK`). *Alarms.* `procalarm` first
puts the process on the list in the place of its new time and then sets that time;
in between the list is in order only if it counts as having the new one already
(`due`), and `alarmkproc` is locked out. A cancelled alarm stays on the list, and an
alarm that is 0 is never behind its place. *Timers.* The list of a
Mach is in the links of its Timers, with no sequence in the state, and `TimerInv`
says that there is one (`Chain`): it begins at the head, ends with nil and passes
everybody once. `ChainInsert`, `ChainRemove` and `ChainAdd` are `tadd` and `timerdel`
on links, seen as an insertion and a removal in that sequence; `ChainList` that the
model's `list` finds it. `FiledOK` says who is on it and in which order, `TakenOK` what
`timerintr` has in its hands, and `ClockSet` that the clock is set, while nobody is in
`timerintr`, for no later than the first: `addclock0link` does not set it and need not,
because the new Timer is given the time of one that is there or comes after `hzclock`
(`FirstTime`).

**IL.** A conversation is known by where it starts, and the three theorems say, one
after the other, what has come, from whom, and what the other side knows. `Received`
is about one side and what is in the network: every message in a packet, in
`outoforder` or in `rq` is of the conversation it says, and `recvd` is that
conversation's start and the length of `rq` (`ConvOK`, `PacketOK`). The network may
bring any packet of any conversation at any time, so a message is told apart only by
its number, and that is where `Separate` is needed: what is in the window of one
conversation is of no other. Thirteen handlers with many cases each are first
reduced to four ways in which a conversation can change (`Goes`: it stays, with more
received and less unacknowledged; leaves; calls; is taken up by what answers it) and
to what a side in each state may send (`MaySend`); the lemma `Steps` says that each
step is one of these, a call, an answer to a call, or a loss, and the two other
invariants are proved from it alone. `Agreement` numbers the conversations of each
side. An ack is of the conversation of `p.to` that it is a number of
(`Acknowledged`), a sync of a listener answers the call that its last conversation
was begun by (`Syncs`), so the caller knows a conversation the listener has had
(`Partners`), and once the listener is established, or the caller is established
with the listener's last conversation, each has the other (`Meeting`). An old sync
makes a listener answer a call that is long over; its conversation is then
established with nobody. `Told` is about acks: whatever is no longer in `unacked`,
or is acknowledged by a packet under way (`Heard`), the other side has received. Of
a late ack of an earlier conversation that is so because it is below everything the
later one sends, which is what `Rising` says and random start numbers do not
(section 4).

**QueueTheorems** has what the modules share: queues without repetition (`Once`)
after an append, without their head or some other element, and cut down to the
positions of a set (`At` of Positions, a recursive function). Its `SetInduction` is
induction for a property given as a set of numbers, from the well-foundedness of
inclusion of finite sets; the induction theorems of the library have an operator for
a parameter, which the provers cannot instantiate.

Only model-checked:

* liveness, everywhere: fairness and `ENABLED` are beyond the proof system;
* Frags, Routes and Names, whose algorithms on lists and trees are recursive
  operators, which the proof system does not handle in a module or in one that uses
  it (`IpOK`, `ImplementsRouteTable`, and of `NamesOK` the part
  `WalkOK`); the theorems of IlProof are about Il itself for the same reason, and
  not about MCNet, of which every behaviour is one of Il, too;
* MountTable (`NamesOK`, `ImplementsNameSpace`).

## 6. What is not modelled

Widths: ticks are numbers below a bound, so the wrap of the `ulong` clock (after
497 days at 100 Hz) is not seen, nor is that of the ids of IL. The `edf` hooks,
accounting, statistics, messages. Notes themselves (`p->note`, `nnote`), except
that one is pending. Nested spin locks. The resource groups of `sysrfork` and
`pexit`, and the reader of `/proc/n/wait`. Blocks as memory (`allocb.c`), `qbypass`
and `qcopy`. The fids and contents of 9P calls, `mntversion`, `mntattach`, a server
whose write blocks because nobody reads it. More than one page in a segment,
segments of physical memory, the table of Images, page colours, the queue of
those who wait for memory, the last page of a page table, which the pager never
takes (`swap.c:211`), and errors of the swap device on writing, which panic. The
counts of Chans, files in the tree of Names, MCREATE and the search for where to
create, `mchan`, the offsets of a union that is being read, and hash chains:
`findmount` waits for every Mhead on its chain, in MountTable for its own only. The
estimates of delay in IL, and its queues, which are Queues. Of datagrams checksums,
options, ids that come round while fragments are kept, and packets that must not be
fragmented; of routes their interfaces and tags, and a tree that is changed while a
lookup is in it. The components marked
`not_modelled` in PROJECT.json, with their reasons. `hazards` there lists what is
hardest to test.

## 7. Plan

Done: Rendez, Sleep, Sched, RWlock, TasLock, ExitWait, Broken,
TSleep, Alarms, Timers, Rendezvous, ByteQueue, Qio, MountMux, Memory, Pages, Il, Frags,
RouteTable, Routes, Names, NameSpace, MountTable; QueueTheorems and the proofs of
Sleep, RWlock, TasLock, Sched, ExitWait, Broken, Rendezvous, TSleep, Alarms, Timers,
MountMux, Qio, Pages and Il.
Next, in this order:

1. **Chan**: reference counts of `chan.c` and `pgrp.c`
   across errors.
2. **Tcp** (`tcp.c`), **Arp** (`arp.c`) and **Rudp** (`rudp.c`), on a network like that of Il.
3. The wrap of ticks in TSleep and Alarms, with `% 2^w`.
4. Composition: TSleep over Sleep in place of Rendez; ExitWait over Broken; Pages
   with the flush of every processor in place of one step.

Theorems planned: MountTable (`RefsOK`, `ReadsSafe`,
`ImplementsNameSpace`).
