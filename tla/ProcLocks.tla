------------------------------ MODULE ProcLocks ------------------------------
(***************************************************************************)
(* The per-process locks of src/source/include/sys/task/proc.h: five locks *)
(* per process, PLOCK_REGIONS and PLOCK_PROG mutexes (the holder may block *)
(* and sleep), PLOCK_ENV, PLOCK_FDS and PLOCK_PORTS spinlocks, taken       *)
(* through ProcBase::request/tryRequest/release/lock/unlock by kernel      *)
(* threads on one CPU, together with ProcBase::addLock/remLock, which      *)
(* record a held lock in the thread so that it can be released if the      *)
(* thread dies.                                                            *)
(*                                                                         *)
(* The mutex and spinlock primitives and Thread::addLock are not in the    *)
(* source tree; they are modelled from spec.md section 4.4: a busy mutex   *)
(* blocks the caller until a release wakes it to retry, a busy spinlock    *)
(* makes the caller spin on the CPU, and a spinlock is never held across a *)
(* blocking call or a thread switch.  Kernel code is not preempted, so the *)
(* running thread keeps the CPU until it blocks or yields.                 *)
(***************************************************************************)
EXTENDS Naturals, FiniteSets

CONSTANTS
  Threads,      \* kernel threads taking process locks
  Pids,         \* processes in pidToProc
  BadPid,       \* a pid with pidToProc[pid] = NULL
  NoThread,     \* the owner of a free lock; cur while the CPU is idle
  LockOrder     \* whether callers nest mutexes in PLOCK order

PLOCK_ENV == 0
PLOCK_REGIONS == 1
PLOCK_FDS == 2
PLOCK_PORTS == 3
PLOCK_PROG == 4
Locks == PLOCK_ENV .. PLOCK_PROG

VARIABLES
  owner,     \* owner[p][l]: the thread holding lock l of process p
  holds,     \* holds[t]: the <<p, l>> that t's code path has acquired
  st,        \* "running", "ready", "blocked" (in some other wait),
             \* "mutexwait" (in mutex_aquire) or "spin" (in spinlock_aquire)
  want,      \* want[t]: the <<p, l>> t is acquiring while it waits or spins
  cur,       \* the thread on the CPU
  recorded,  \* recorded[t]: the locks Thread::addLock has recorded for t
  passed     \* passed[t]: the locks t's callers passed to addLock and not
             \* yet to remLock

vars == <<owner, holds, st, want, cur, recorded, passed>>

NoLock == <<BadPid, PLOCK_ENV>>

(* ProcBase::getByPid: NULL for a pid without a process.                   *)
GetByPid(pid) == pid \in Pids

(* The test of ProcBase::lock/unlock: which locks are mutexes.             *)
IsMutex(l) == l = PLOCK_REGIONS \/ l = PLOCK_PROG

HoldsSpinlock(t) == \E pl \in holds[t] : ~IsMutex(pl[2])

(* The callers' lock order, assumed: a thread holding a mutex only waits   *)
(* for a mutex of a higher PLOCK number.  The callers are not in the tree; *)
(* with nesting in both orders REGIONS and PROG deadlock.                  *)
InOrder(t, l) ==
  LockOrder => \A pl \in holds[t] : IsMutex(pl[2]) /\ IsMutex(l) => pl[2] < l

(* The running thread gives up the CPU: the next thread is chosen later    *)
(* by Dispatch.                                                            *)
SwitchAway(s, t, state) == [s EXCEPT ![t] = state]

Init ==
  /\ owner = [p \in Pids |-> [l \in Locks |-> NoThread]]
  /\ holds = [t \in Threads |-> {}]
  /\ st = [t \in Threads |-> "ready"]
  /\ want = [t \in Threads |-> NoLock]
  /\ cur = NoThread
  /\ recorded = [t \in Threads |-> {}]
  /\ passed = [t \in Threads |-> {}]

(* ProcBase::request(pid, l) then lock(l), by the running thread: a free   *)
(* lock is taken; a held mutex blocks the caller; a held spinlock leaves  *)
(* it spinning with the CPU, which nothing can then free ("spin").         *)
(* A mutex request may block, so by the discipline no spinlock is held.    *)
Request(pid, l) ==
  /\ cur # NoThread /\ st[cur] = "running"
  /\ GetByPid(pid)
  /\ <<pid, l>> \notin holds[cur]
  /\ IsMutex(l) => ~HoldsSpinlock(cur)
  /\ InOrder(cur, l)
  /\ IF owner[pid][l] = NoThread
     THEN /\ owner' = [owner EXCEPT ![pid][l] = cur]
          /\ holds' = [holds EXCEPT ![cur] = @ \cup {<<pid, l>>}]
          /\ UNCHANGED <<st, want, cur>>
     ELSE /\ want' = [want EXCEPT ![cur] = <<pid, l>>]
          /\ IF IsMutex(l)
             THEN /\ st' = SwitchAway(st, cur, "mutexwait")
                  /\ cur' = NoThread
             ELSE /\ st' = [st EXCEPT ![cur] = "spin"]
                  /\ UNCHANGED cur
          /\ UNCHANGED <<owner, holds>>
  /\ UNCHANGED <<recorded, passed>>

(* ProcBase::tryRequest(pid, l), for a mutex (asserted): a free mutex is   *)
(* taken, a held one makes it return NULL without blocking.                *)
TryRequest(pid, l) ==
  /\ cur # NoThread /\ st[cur] = "running"
  /\ IsMutex(l) /\ GetByPid(pid)
  /\ <<pid, l>> \notin holds[cur]
  /\ owner[pid][l] = NoThread
  /\ owner' = [owner EXCEPT ![pid][l] = cur]
  /\ holds' = [holds EXCEPT ![cur] = @ \cup {<<pid, l>>}]
  /\ UNCHANGED <<st, want, cur, recorded, passed>>

(* Mutant: mutex_release frees the mutex but wakes no waiter.              *)
WakeWaitersNone(s, pid, l) == s

(* mutex_release wakes every thread waiting for the mutex; each retries.   *)
WakeWaiters(s, pid, l) ==
  [t \in Threads |-> IF s[t] = "mutexwait" /\ want[t] = <<pid, l>>
                     THEN "ready" ELSE s[t]]

(* Mutant: release indexes the process's lock array by the pid alone and   *)
(* clears the whole entry.                                                 *)
ReleaseWholeProc(pid, l) ==
  /\ cur # NoThread /\ st[cur] = "running"
  /\ <<pid, l>> \in holds[cur]
  /\ owner' = [owner EXCEPT ![pid] = NoThread]
  /\ holds' = [holds EXCEPT ![cur] = @ \ {<<pid, l>>}]
  /\ st' = IF IsMutex(l) THEN WakeWaiters(st, pid, l) ELSE st
  /\ UNCHANGED <<want, cur, recorded, passed>>

(* ProcBase::release(p, l) = unlock(l) by the holder.                      *)
Release(pid, l) ==
  /\ cur # NoThread /\ st[cur] = "running"
  /\ <<pid, l>> \in holds[cur] /\ <<pid, l>> \notin passed[cur]
  /\ owner' = [owner EXCEPT ![pid][l] = NoThread]
  /\ holds' = [holds EXCEPT ![cur] = @ \ {<<pid, l>>}]
  /\ st' = IF IsMutex(l) THEN WakeWaiters(st, pid, l) ELSE st
  /\ UNCHANGED <<want, cur, recorded, passed>>

(* The running thread blocks in some other wait (sleep, event, I/O),       *)
(* possibly holding mutexes but, by the discipline, no spinlock.           *)
BlockingCall ==
  /\ cur # NoThread /\ st[cur] = "running"
  /\ ~HoldsSpinlock(cur)
  /\ st' = SwitchAway(st, cur, "blocked")
  /\ cur' = NoThread
  /\ UNCHANGED <<owner, holds, want, recorded, passed>>

(* The running thread yields the CPU (thread_switch) holding no spinlock.  *)
Yield ==
  /\ cur # NoThread /\ st[cur] = "running"
  /\ ~HoldsSpinlock(cur)
  /\ st' = SwitchAway(st, cur, "ready")
  /\ cur' = NoThread
  /\ UNCHANGED <<owner, holds, want, recorded, passed>>

(* The event a blocked thread waits for happens.                           *)
Wake(t) ==
  /\ st[t] = "blocked"
  /\ st' = [st EXCEPT ![t] = "ready"]
  /\ UNCHANGED <<owner, holds, want, cur, recorded, passed>>

(* The scheduler runs a ready thread; a thread woken from mutex_aquire     *)
(* retries: it takes the mutex if it is free and waits again otherwise.    *)
Dispatch(t) ==
  /\ cur = NoThread /\ st[t] = "ready"
  /\ IF want[t] = NoLock
     THEN /\ st' = [st EXCEPT ![t] = "running"]
          /\ cur' = t
          /\ UNCHANGED <<owner, holds, want>>
     ELSE IF owner[want[t][1]][want[t][2]] = NoThread
     THEN /\ owner' = [owner EXCEPT ![want[t][1]][want[t][2]] = t]
          /\ holds' = [holds EXCEPT ![t] = @ \cup {want[t]}]
          /\ want' = [want EXCEPT ![t] = NoLock]
          /\ st' = [st EXCEPT ![t] = "running"]
          /\ cur' = t
     ELSE /\ st' = [st EXCEPT ![t] = "mutexwait"]
          /\ UNCHANGED <<owner, holds, want, cur>>
  /\ UNCHANGED <<recorded, passed>>

(* ProcBase::addLock(l) / remLock(l), by a caller holding lock l, which    *)
(* removes the record before it releases l: the code passes               *)
(* locks + PLOCK_ENV to Thread::addLock/remLock whatever l is.             *)
AddLock(pid, l) ==
  /\ cur # NoThread /\ st[cur] = "running"
  /\ <<pid, l>> \in holds[cur] /\ <<pid, l>> \notin passed[cur]
  /\ recorded' = [recorded EXCEPT ![cur] = @ \cup {<<pid, PLOCK_ENV>>}]
  /\ passed' = [passed EXCEPT ![cur] = @ \cup {<<pid, l>>}]
  /\ UNCHANGED <<owner, holds, st, want, cur>>

RemLock(pid, l) ==
  /\ cur # NoThread /\ st[cur] = "running"
  /\ <<pid, l>> \in passed[cur]
  /\ recorded' = [recorded EXCEPT ![cur] = @ \ {<<pid, PLOCK_ENV>>}]
  /\ passed' = [passed EXCEPT ![cur] = @ \ {<<pid, l>>}]
  /\ UNCHANGED <<owner, holds, st, want, cur>>

Next ==
  \/ \E p \in Pids \cup {BadPid}, l \in Locks :
       Request(p, l) \/ TryRequest(p, l) \/ Release(p, l)
  \/ \E p \in Pids, l \in Locks : AddLock(p, l) \/ RemLock(p, l)
  \/ BlockingCall \/ Yield
  \/ \E t \in Threads : Wake(t) \/ Dispatch(t)

Spec == Init /\ [][Next]_vars

TypeOK ==
  /\ owner \in [Pids -> [Locks -> Threads \cup {NoThread}]]
  /\ holds \in [Threads -> SUBSET (Pids \X Locks)]
  /\ st \in [Threads -> {"running", "ready", "blocked", "mutexwait", "spin"}]
  /\ want \in [Threads -> (Pids \X Locks) \cup {NoLock}]
  /\ cur \in Threads \cup {NoThread}
  /\ recorded \in [Threads -> SUBSET (Pids \X Locks)]
  /\ passed \in [Threads -> SUBSET (Pids \X Locks)]

(* No lost mutex wake-up: a thread sleeping in mutex_aquire waits for a    *)
(* mutex that some thread holds, so a release will wake it.                *)
MutexWaitersHaveHolder ==
  \A t \in Threads :
    st[t] = "mutexwait" => owner[want[t][1]][want[t][2]] \notin {NoThread, t}

(* The comment of ProcBase::addLock/remLock: "adds/removes the given       *)
(* process lock", so the locks recorded for a thread, the ones released if *)
(* it dies, are the ones its callers passed and have not removed.          *)
RecordedLocksHeld ==
  \A t \in Threads : recorded[t] = passed[t]

====
