------------------------------- MODULE Kernel -------------------------------
(***************************************************************************)
(* The thread table (src/source/kernel/src/task/thread.c) composed with    *)
(* the scheduler (module Sched) and the timer (src/kernel/src/timer.c) on  *)
(* one CPU.  Every kernel path runs with interrupts off, so each action is *)
(* one whole kernel path: a system call up to the thread switch that ends  *)
(* it, or a timer interrupt up to the reschedule that ends it.  The        *)
(* running thread picks its system call nondeterministically; signals,     *)
(* event wake-ups and the swapper act on other threads at any time.        *)
(*                                                                         *)
(* Abstractions.  A thread is named by its tid; tidToThread[tid] = NULL is *)
(* tstate[tid] = "Unused".  Memory regions are <<tid, kind>> pairs in the  *)
(* owning process's region set; ownFrames counts kernel-stack frames only. *)
(* Time is kept relative: a listener holds rem = time - elapsedMsecs and   *)
(* sinceResched = elapsedMsecs - lastResched; the code only compares such  *)
(* differences, and the u64 clock cannot wrap in a machine's lifetime.     *)
(* timer.c wakes by pid (one thread per process in that revision); here a  *)
(* listener names the sleeping thread.                                     *)
(***************************************************************************)
EXTENDS Integers, Sequences, SequencesExt, FiniteSets

CONSTANTS
  MAX_THREAD_COUNT,  \* size of tidToThread
  Procs,             \* processes owning threads
  NoProc,            \* owner of a free slot
  BootProc,          \* process of the initial and the idle thread
  ForkedProc,        \* a process forked from it before the model starts
  INIT_TID,          \* 0
  IDLE_TID,          \* 1
  TickMs,            \* 1000 / TIMER_FREQUENCY
  PROC_TIMESLICE,    \* milliseconds between forced reschedules
  SleepMs,           \* the durations a thread may pass to sleep
  MaxListeners       \* heap bound: timer_sleepFor's kheap_alloc fails beyond it

ASSUME MAX_THREAD_COUNT >= 3 /\ {BootProc, ForkedProc} \subseteq Procs
ASSUME TickMs > 0 /\ PROC_TIMESLICE >= TickMs /\ SleepMs \subseteq Nat

Tids == 0 .. MAX_THREAD_COUNT - 1
INVALID_TID == 65535                    \* 0xFFFF
States == {"Unused", "Running", "Ready", "Blocked", "Zombie",
           "BlockedSusp", "ReadySusp", "ZombieSusp"}
\* the kernel call a blocked thread is in, and returns from when it resumes
Waits == {"none", "sleep", "event", "nosig", "join"}
RegionKinds == {"stack", "tls"}

S == INSTANCE Sched WITH IdleTid <- IDLE_TID

VARIABLES
  tstate,        \* t->state, "Unused" where tidToThread[t] = NULL
  tproc,         \* t->proc
  hasTls,        \* t->tlsRegion >= 0
  ignoreSignals, \* t->ignoreSignals
  waitOn,        \* the blocking call the thread is suspended in
  threads,       \* the global thread list (sll), by tid
  cur,           \* the running thread
  nextTid,       \* where thread_getFreeTid resumes its scan
  dead,          \* deadThreads
  ready,         \* the scheduler's ready queue
  ownFrames,     \* p->ownFrames (kernel-stack frames)
  regions,       \* the stack and TLS regions of p
  listener,      \* timer listener list: [tid, rem]
  sinceResched   \* elapsedMsecs - lastResched

vars == <<tstate, tproc, hasTls, ignoreSignals, waitOn, threads, cur, nextTid,
          dead, ready, ownFrames, regions, listener, sinceResched>>

Alloc == {t \in Tids : tstate[t] # "Unused"}
ThreadsOf(p) == {t \in Alloc : tproc[t] = p}

-----------------------------------------------------------------------------
(* Mutant: the scan stops one slot early and misses the last free slot.    *)
RECURSIVE FreeTidScanShort(_, _, _)
FreeTidScanShort(used, n, count) ==
  IF count >= MAX_THREAD_COUNT - 1
  THEN <<INVALID_TID, n>>
  ELSE LET m == IF n >= MAX_THREAD_COUNT THEN 0 ELSE n
       IN  IF m \notin used THEN <<m, m + 1>>
           ELSE FreeTidScanShort(used, m + 1, count + 1)

(* Mutant: the wrap test is "nextTid > MAX_THREAD_COUNT", one too late.    *)
RECURSIVE FreeTidScanLateWrap(_, _, _)
FreeTidScanLateWrap(used, n, count) ==
  IF count >= MAX_THREAD_COUNT
  THEN <<INVALID_TID, n>>
  ELSE LET m == IF n > MAX_THREAD_COUNT THEN 0 ELSE n
       IN  IF m \notin used THEN <<m, m + 1>>
           ELSE FreeTidScanLateWrap(used, m + 1, count + 1)

(* thread_getFreeTid: scan MAX_THREAD_COUNT slots circularly from nextTid  *)
(* for a slot with tidToThread[slot] = NULL.  Result <<tid, nextTid>>.     *)
RECURSIVE FreeTidScan(_, _, _)
FreeTidScan(used, n, count) ==
  IF count >= MAX_THREAD_COUNT
  THEN <<INVALID_TID, n>>
  ELSE LET m == IF n >= MAX_THREAD_COUNT THEN 0 ELSE n
       IN  IF m \notin used THEN <<m, m + 1>>
           ELSE FreeTidScan(used, m + 1, count + 1)

GetFreeTid == FreeTidScan(Alloc, nextTid, 0)

(* Mutant: thread_kill forgets timer_removeThread.                         *)
TimerRemoveNone(lst, D) == lst

(* timer_removeThread(tid) for every tid in D (not in this revision of     *)
(* timer.c; thread_kill calls it to drop the thread's pending sleeps).     *)
TimerRemoveThreads(lst, D) == SelectSeq(lst, LAMBDA l : l.tid \notin D)

(* thread_kill: vmm_remove of the TLS and the stack region.                *)
KillRegions(regs, D) == [p \in Procs |-> regs[p] \ (D \X RegionKinds)]

(* thread_kill: pmem_free(kstackFrame) and ownFrames-- of the owner.        *)
KillFrames(frames, D) ==
  [p \in Procs |-> frames[p] - Cardinality({t \in D : tproc[t] = p})]

(* Mutant: thread_remove clears tidToThread but not the list entry.        *)
ThreadRemoveKeep(thr, D) == thr

(* thread_remove: take the threads out of the thread list.                 *)
ThreadRemove(thr, D) == SelectSeq(thr, LAMBDA t : t \notin D)

(* ev_wakeup(EVI_THREAD_DIED, proc): the threads of the owners of D that   *)
(* wait in Proc::join, in an unspecified order.                            *)
JoinWaiters(st, wo, D) ==
  {t \in Tids : /\ st[t] \in {"Blocked", "BlockedSusp"}
                /\ wo[t] = "join"
                /\ tproc[t] \in {tproc[d] : d \in D}}

(* thread_kill (lines 284-324) of the threads D, none of them running,     *)
(* applied after the values st, rq, lst, wo, ign the step has computed so  *)
(* far; c is the thread running afterwards.                                *)
Reap(c, D, st, rq, lst, wo, ign) ==
  LET woken == FoldLeft(LAMBDA acc, w : S!SetReady(c, acc, w),
                        <<[t \in Tids |-> IF t \in D THEN "Unused" ELSE st[t]], rq>>,
                        SetToSeq(JoinWaiters(st, wo, D)))
  IN  /\ tstate'        = woken[1]
      /\ ready'         = S!RemoveThreads(woken[2], D)
      /\ listener'      = TimerRemoveThreads(lst, D)
      /\ waitOn'        = [t \in Tids |-> IF t \in D THEN "none" ELSE wo[t]]
      /\ ignoreSignals' = [t \in Tids |-> IF t \in D THEN 0 ELSE ign[t]]
      /\ regions'       = KillRegions(regions, D)
      /\ ownFrames'     = KillFrames(ownFrames, D)
      /\ threads'       = ThreadRemove(threads, D)
      /\ tproc'         = [t \in Tids |-> IF t \in D THEN NoProc ELSE tproc[t]]
      /\ hasTls'        = [t \in Tids |-> IF t \in D THEN FALSE ELSE hasTls[t]]

SwitchWith(st, rq, lst, wo, ign, dl) ==
  LET pf  == S!Perform(cur, <<st, rq>>)
      nxt == pf[3]
  IN  /\ cur'  = nxt
      /\ dead' = <<>>
      /\ Reap(nxt, ToSet(dl), pf[1], pf[2], lst,
              [wo EXCEPT ![nxt] = "none"],
              [ign EXCEPT ![nxt] = IF wo[nxt] = "nosig" THEN 0 ELSE @])

(* thread_add: sll_append to the thread list (tidToThread is tstate).      *)
ThreadAdd(thr, t) == Append(thr, t)

(* timer_init and the statics of timer.c: an empty listener list and       *)
(* elapsedMsecs = lastResched = 0 (the PIT programming is not modelled).   *)
TimerInit ==
  /\ listener = <<>>
  /\ sinceResched = 0

-----------------------------------------------------------------------------
(* Initial state: after thread_init, the idle thread and one Proc::clone.  *)
Init ==
  /\ tstate = [t \in Tids |-> CASE t = INIT_TID -> "Running"
                                 [] t \in {IDLE_TID, 2} -> "Ready"
                                 [] OTHER -> "Unused"]
  /\ tproc = [t \in Tids |-> CASE t \in {INIT_TID, IDLE_TID} -> BootProc
                                [] t = 2 -> ForkedProc
                                [] OTHER -> NoProc]
  /\ hasTls = [t \in Tids |-> t = 2]
  /\ ignoreSignals = [t \in Tids |-> 0]
  /\ waitOn = [t \in Tids |-> "none"]
  /\ threads = <<INIT_TID, IDLE_TID, 2>>
  /\ cur = INIT_TID
  /\ nextTid = 3
  /\ dead = <<>>
  /\ ready = <<2>>
  /\ ownFrames = [p \in Procs |-> Cardinality({t \in {INIT_TID, IDLE_TID, 2} :
                                      (IF t = 2 THEN ForkedProc ELSE BootProc) = p})]
  /\ regions = [p \in Procs |-> CASE p = BootProc -> {<<INIT_TID, "stack">>, <<IDLE_TID, "stack">>}
                                  [] p = ForkedProc -> {<<2, "stack">>, <<2, "tls">>}
                                  [] OTHER -> {}]
  /\ TimerInit

(* A system call of the running thread; the idle thread makes none.        *)
UserRunning == cur # IDLE_TID /\ tstate[cur] = "Running"

(* thread_switch as a voluntary yield.                                     *)
Yield ==
  /\ UserRunning
  /\ SwitchWith(tstate, ready, listener, waitOn, ignoreSignals, dead)
  /\ UNCHANGED <<nextTid, sinceResched>>

(* timer_sleepFor(cur, ms) followed by the caller's thread_switch.         *)
SleepFor(ms) ==
  /\ UserRunning
  /\ Len(listener) < MaxListeners
  /\ LET sq == S!SetBlocked(<<tstate, ready>>, cur)
     IN  SwitchWith(sq[1], sq[2], Append(listener, [tid |-> cur, rem |-> ms]),
                    [waitOn EXCEPT ![cur] = "sleep"], ignoreSignals, dead)
  /\ UNCHANGED <<nextTid, sinceResched>>

(* thread_setBlocked(tid): sched_setBlocked of the thread by its id.  The  *)
(* returned test of ST_BLOCKED is not used by the waits below.             *)
ThreadSetBlocked(t) == S!SetBlocked(<<tstate, ready>>, t)

(* Waiting for an event: ev_wait blocks the thread (thread_setBlocked),    *)
(* then thread_switch, or thread_switchNoSigs for a kernel-internal wait.  *)
WaitEvent(nosig) ==
  /\ UserRunning
  /\ LET sq == ThreadSetBlocked(cur)
     IN  SwitchWith(sq[1], sq[2], listener,
                    [waitOn EXCEPT ![cur] = IF nosig THEN "nosig" ELSE "event"],
                    [ignoreSignals EXCEPT ![cur] = IF nosig THEN 1 ELSE @], dead)
  /\ UNCHANGED <<nextTid, sinceResched>>

(* Proc::join(0): wait for EVI_THREAD_DIED while another thread lives.     *)
Join ==
  /\ UserRunning
  /\ ThreadsOf(tproc[cur]) # {cur}
  /\ LET sq == ThreadSetBlocked(cur)
     IN  SwitchWith(sq[1], sq[2], listener, [waitOn EXCEPT ![cur] = "join"],
                    ignoreSignals, dead)
  /\ UNCHANGED <<nextTid, sinceResched>>

(* Proc::exit: thread_kill(cur) defers the running thread to the dead list *)
(* (ev_removeThread, sched_removeThread, timer_removeThread, ST_ZOMBIE);   *)
(* the following thread_switch reaps it.                                   *)
Exit ==
  /\ UserRunning
  /\ SwitchWith([tstate EXCEPT ![cur] = "Zombie"], S!RemoveThreads(ready, {cur}),
                TimerRemoveThreads(listener, {cur}), [waitOn EXCEPT ![cur] = "none"],
                ignoreSignals, Append(dead, cur))
  /\ UNCHANGED <<nextTid, sinceResched>>

(* Mutant: thread_kill without its t == cur test tears down the running    *)
(* thread at once.                                                         *)
KillOtherSelf(t) ==
  /\ UserRunning
  /\ t \in Alloc \ {IDLE_TID}
  /\ Reap(cur, {t}, tstate, ready, listener, waitOn, ignoreSignals)
  /\ UNCHANGED <<cur, nextTid, dead, sinceResched>>

(* Proc::killThread / Proc::destroy in the running thread: thread_kill of  *)
(* another thread tears it down at once.                                   *)
KillOther(t) ==
  /\ UserRunning
  /\ t \in Alloc \ {cur, IDLE_TID}
  /\ Reap(cur, {t}, tstate, ready, listener, waitOn, ignoreSignals)
  /\ UNCHANGED <<cur, nextTid, dead, sinceResched>>

(* Where thread_clone can fail: kheap_alloc of the thread, too few free    *)
(* frames, vmm_add of the stack or of the TLS region, thread_add (the list *)
(* append), vfs_createThread.  A full table fails in the tid scan.         *)
CloneFailures == {"none", "heap", "frames", "stack", "tls", "add", "vfs"}

(* The regions the error labels take back: errClone the TLS region, if one *)
(* was created; errStack the stack region.                                 *)
CloneRegionsUndone(t, fail, tlsOk) ==
  (IF fail \in {"add", "vfs"} /\ tlsOk THEN {<<t, "tls">>} ELSE {})
  \cup (IF fail \in {"tls", "add", "vfs"} THEN {<<t, "stack">>} ELSE {})

(* Mutant: a failing TLS vmm_add jumps past errStack's ownFrames--.        *)
CloneFramesUndoneLate(fail) == IF fail \in {"add", "vfs"} THEN 1 ELSE 0

(* errStack: pmem_free(kstackFrame) and ownFrames--.                        *)
CloneFramesUndone(fail) == IF fail \in {"tls", "add", "vfs"} THEN 1 ELSE 0

(* Proc::startThread in the running thread: thread_clone(cur, .., p,       *)
(* cloneProc = FALSE) with its error path, then thread_setReady of the new *)
(* thread (thread_clone leaves it ST_RUNNING).                             *)
StartThread(fail) ==
  /\ UserRunning
  /\ fail = "tls" => hasTls[cur]
  /\ LET p       == tproc[cur]
         scan    == IF fail = "heap" THEN <<INVALID_TID, nextTid>> ELSE GetFreeTid
         t       == scan[1]
         stackOk == t # INVALID_TID /\ fail \notin {"heap", "frames", "stack"}
         tlsOk   == stackOk /\ hasTls[cur] /\ fail # "tls"
         added   == stackOk /\ fail \notin {"tls", "add"}
         ok      == added /\ fail # "vfs"
         made    == (IF stackOk THEN {<<t, "stack">>} ELSE {})
                    \cup (IF tlsOk THEN {<<t, "tls">>} ELSE {})
         thr     == IF added THEN ThreadAdd(threads, t) ELSE threads
         sq      == S!SetReady(cur, <<[tstate EXCEPT ![t] = "Running"], ready>>, t)
     IN  /\ nextTid'   = scan[2]
         /\ ownFrames' = [ownFrames EXCEPT ![p] =
                            @ + (IF stackOk THEN 1 - CloneFramesUndone(fail) ELSE 0)]
         /\ regions'   = [regions EXCEPT ![p] = (@ \cup made) \ CloneRegionsUndone(t, fail, tlsOk)]
         /\ threads'   = IF added /\ fail = "vfs" THEN ThreadRemove(thr, {t}) ELSE thr
         /\ IF ok
            THEN /\ tstate' = sq[1]
                 /\ ready'  = sq[2]
                 /\ tproc'  = [tproc EXCEPT ![t] = p]
                 /\ hasTls' = [hasTls EXCEPT ![t] = tlsOk]
            ELSE UNCHANGED <<tstate, ready, tproc, hasTls>>
  /\ UNCHANGED <<cur, dead, waitOn, ignoreSignals, listener, sinceResched>>

(* A signal for thread t: thread_setReady(t) (asserts t is not running).   *)
(* Unless t ignores signals it is made ready and leaves the event system;  *)
(* a pending timer listener of t stays.  With ignoreSignals set the call   *)
(* changes nothing, so the step is left out.                               *)
SignalWake(t) ==
  /\ t \in Alloc \ {cur, IDLE_TID}
  /\ ignoreSignals[t] = 0
  /\ LET sq == S!SetReady(cur, <<tstate, ready>>, t)
     IN  /\ tstate' = sq[1]
         /\ ready'  = sq[2]
  /\ UNCHANGED <<tproc, hasTls, ignoreSignals, waitOn, threads, cur, nextTid, dead,
                 ownFrames, regions, listener, sinceResched>>

(* ev_wakeup for the event t waits on: sched_setReady, whatever t's        *)
(* ignoreSignals (event.c is not in the source tree).                      *)
EventWake(t) ==
  /\ tstate[t] \in {"Blocked", "BlockedSusp"}
  /\ waitOn[t] \in {"event", "nosig"}
  /\ LET sq == S!SetReady(cur, <<tstate, ready>>, t)
     IN  /\ tstate' = sq[1]
         /\ ready'  = sq[2]
  /\ UNCHANGED <<tproc, hasTls, ignoreSignals, waitOn, threads, cur, nextTid, dead,
                 ownFrames, regions, listener, sinceResched>>

(* The swapper: thread_setSuspended(t, blocked).                           *)
Suspend(t, blocked) ==
  /\ t \in Alloc \ {cur, IDLE_TID}
  /\ LET sq == S!SetSuspended(<<tstate, ready>>, t, blocked)
     IN  /\ sq # <<tstate, ready>>
         /\ tstate' = sq[1]
         /\ ready'  = sq[2]
  /\ UNCHANGED <<tproc, hasTls, ignoreSignals, waitOn, threads, cur, nextTid, dead,
                 ownFrames, regions, listener, sinceResched>>

(* timer_intrpt: elapsedMsecs += 1000 / TIMER_FREQUENCY.                   *)
TimerAge(l) == [l EXCEPT !.rem = @ - TickMs]

(* timer_intrpt: a listener whose time has come (l->time <= elapsedMsecs). *)
TimerDue(l) == l.rem <= 0

(* timer_intrpt: reschedule if a process was woken or the slice is over.   *)
TimerResched(foundProc, since) == foundProc \/ since >= PROC_TIMESLICE

(* timer_intrpt: one scan of the listener list in list order, waking and   *)
(* removing every due listener (sched_setReadyQuick), then maybe           *)
(* lastResched = elapsedMsecs and a thread switch.                         *)
Tick ==
  LET aged      == [i \in DOMAIN listener |-> TimerAge(listener[i])]
      due       == SelectSeq(aged, TimerDue)
      rest      == SelectSeq(aged, LAMBDA l : ~TimerDue(l))
      sq        == FoldLeft(LAMBDA acc, l : S!SetReady(cur, acc, l.tid),
                            <<tstate, ready>>, due)
      since     == sinceResched + TickMs
  IN  IF TimerResched(due # <<>>, since)
      THEN /\ sinceResched' = 0
           /\ SwitchWith(sq[1], sq[2], rest, waitOn, ignoreSignals, dead)
           /\ UNCHANGED nextTid
      ELSE /\ sinceResched' = since
           /\ tstate' = sq[1]
           /\ ready' = sq[2]
           /\ listener' = rest
           /\ UNCHANGED <<tproc, hasTls, ignoreSignals, waitOn, threads, cur, nextTid,
                          dead, ownFrames, regions>>

Next ==
  \/ Yield
  \/ \E ms \in SleepMs : SleepFor(ms)
  \/ \E nosig \in BOOLEAN : WaitEvent(nosig)
  \/ Join
  \/ Exit
  \/ \E t \in Tids : KillOther(t)
  \/ \E fail \in CloneFailures : StartThread(fail)
  \/ \E t \in Tids : SignalWake(t)
  \/ \E t \in Tids : EventWake(t)
  \/ \E t \in Tids, blocked \in BOOLEAN : Suspend(t, blocked)
  \/ Tick

Spec == Init /\ [][Next]_vars

(* The timer interrupt is raised by hardware whatever the running thread   *)
(* does, so it is the one action assumed fair.  Tick is enabled in every   *)
(* state and always changes the state (sinceResched or the listener list), *)
(* so weak fairness of Tick is the same as infinitely many Tick steps.     *)
FairSpec == Spec /\ []<><<Tick>>_vars

-----------------------------------------------------------------------------
TypeOK ==
  /\ tstate \in [Tids -> States]
  /\ tproc \in [Tids -> Procs \cup {NoProc}]
  /\ hasTls \in [Tids -> BOOLEAN]
  /\ ignoreSignals \in [Tids -> {0, 1}]
  /\ waitOn \in [Tids -> Waits]
  /\ threads \in Seq(Tids)
  /\ cur \in Tids
  /\ nextTid \in 0 .. MAX_THREAD_COUNT
  /\ dead \in Seq(Tids)
  /\ ready \in Seq(Tids)
  /\ ownFrames \in [Procs -> Nat]
  /\ regions \in [Procs -> SUBSET (Tids \X RegionKinds)]
  /\ listener \in Seq([tid : Tids, rem : Int])
  /\ sinceResched \in 0 .. PROC_TIMESLICE - 1

(* thread_getFreeTid returns the first free slot at or after nextTid in    *)
(* circular order, and INVALID_TID only when every slot is taken; nextTid  *)
(* then points just past the slot handed out.  Checked in every reachable  *)
(* state, on the table and the nextTid that clone would scan there.        *)
RefFreeTid(used, n) ==
  IF used = Tids THEN INVALID_TID
  ELSE LET d == CHOOSE k \in 0 .. MAX_THREAD_COUNT - 1 :
                  /\ (n + k) % MAX_THREAD_COUNT \notin used
                  /\ \A j \in 0 .. k - 1 : (n + j) % MAX_THREAD_COUNT \in used
       IN  (n + d) % MAX_THREAD_COUNT

TidScanIsCircularFirstFit ==
  LET r == GetFreeTid
  IN  /\ r[1] = RefFreeTid(Alloc, nextTid)
      /\ r[1] # INVALID_TID => r[2] = r[1] + 1

(* The thread list and tidToThread describe the same threads, each once:   *)
(* clone's error paths, kill and the deferred reaping keep them in step.   *)
TableConsistent ==
  /\ IsInjective(threads)
  /\ ToSet(threads) = Alloc
  /\ \A t \in Alloc : tproc[t] \in Procs

(* Exactly one thread runs, the one the CPU runs (cur), and the ready      *)
(* queue holds each ready thread other than idle exactly once: no wake-up, *)
(* from a signal, an event or a timer listener, enqueues a running thread  *)
(* or enqueues a thread twice.                                             *)
SchedConsistent ==
  /\ {t \in Tids : tstate[t] = "Running"} = {cur}
  /\ IsInjective(ready)
  /\ ToSet(ready) = {t \in Tids \ {IDLE_TID} : tstate[t] = "Ready"}

(* Every live thread holds exactly one kernel-stack frame and its stack    *)
(* (and TLS) region, and nothing more is held: after any mix of clones     *)
(* failing at any step, kills of other threads and deferred self-kills.    *)
NoResourceLeak ==
  \A p \in Procs :
    /\ ownFrames[p] = Cardinality(ThreadsOf(p))
    /\ regions[p] = (ThreadsOf(p) \X {"stack"})
                    \cup {<<t, "tls">> : t \in {u \in ThreadsOf(p) : hasTls[u]}}

(* A pending sleep always belongs to a live thread: the timer never wakes  *)
(* a freed slot or a thread that later reuses the tid.                     *)
ListenersOfLiveThreads ==
  \A i \in DOMAIN listener : listener[i].tid \in Alloc \ {IDLE_TID}

(* A ready thread is eventually run (or leaves the ready state otherwise): *)
(* time slicing by the timer interrupt and the FIFO queue rule out         *)
(* starvation.                                                             *)
ReadyEventuallyRuns ==
  \A t \in Tids \ {IDLE_TID} : tstate[t] = "Ready" ~> tstate[t] # "Ready"

(* A thread blocked in sleep is eventually made ready again, also when the *)
(* swapper has swapped it out and in meanwhile.                            *)
SleeperEventuallyWakes ==
  \A t \in Tids :
    (tstate[t] = "Blocked" /\ waitOn[t] = "sleep")
      ~> ~(tstate[t] = "Blocked" /\ waitOn[t] = "sleep")

DueTids == {listener[i].tid : i \in {j \in DOMAIN listener : TimerDue(TimerAge(listener[j]))}}
TimerWakesOnlySleepers ==
  [][Tick => \A t \in DueTids :
               tstate[t] \in {"Blocked", "BlockedSusp"} => waitOn[t] = "sleep"]_vars
=============================================================================
