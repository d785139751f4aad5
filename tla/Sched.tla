------------------------------- MODULE Sched -------------------------------
(***************************************************************************)
(* The scheduler of the kernel: the ready queue and the state changes the  *)
(* thread table asks of it.  sched.c is not part of the source tree, so    *)
(* these operators are modelled from spec.md section 4.2.                  *)
(*                                                                         *)
(* A scheduler configuration is a pair <<st, rq>>: st maps every tid to    *)
(* its eThreadState, rq is the FIFO ready queue.  The operators are pure   *)
(* functions on such pairs so that one kernel step (a tick that wakes      *)
(* several threads and then switches) can apply several of them in the    *)
(* order the code calls them.                                              *)
(***************************************************************************)
EXTENDS Sequences, SequencesExt

CONSTANT IdleTid   \* IDLE_TID: returned by Perform when no thread is ready

(* Mutant: an already ready thread is enqueued a second time.              *)
SetReadyTwice(c, sq, t) ==
  LET st == sq[1]
      rq == sq[2]
  IN  CASE t = c                                       -> sq
        [] st[t] \in {"Blocked", "Running", "Ready"}   -> <<[st EXCEPT ![t] = "Ready"], Append(rq, t)>>
        [] st[t] = "BlockedSusp"                       -> <<[st EXCEPT ![t] = "ReadySusp"], rq>>
        [] OTHER                                       -> sq

(* Mutant: a wake-up of a swapped-out blocked thread is dropped.           *)
SetReadyNotSuspended(c, sq, t) ==
  LET st == sq[1]
      rq == sq[2]
  IN  CASE t = c                              -> sq
        [] st[t] \in {"Blocked", "Running"}   -> <<[st EXCEPT ![t] = "Ready"], Append(rq, t)>>
        [] OTHER                              -> sq

(* sched_setReady(t), with c the running thread.  A running thread is not   *)
(* enqueued (spec: "no-op if the thread is the currently running thread"); *)
(* a blocked or freshly cloned thread joins the tail of the queue; a       *)
(* swapped-out blocked thread becomes ready-suspended and is enqueued only *)
(* when it is swapped back in.                                             *)
SetReady(c, sq, t) ==
  LET st == sq[1]
      rq == sq[2]
  IN  CASE t = c                              -> sq
        [] st[t] \in {"Blocked", "Running"}   -> <<[st EXCEPT ![t] = "Ready"], Append(rq, t)>>
        [] st[t] = "BlockedSusp"              -> <<[st EXCEPT ![t] = "ReadySusp"], rq>>
        [] OTHER                              -> sq

(* sched_setBlocked(t): leaves the ready queue and becomes Blocked.         *)
SetBlocked(sq, t) ==
  <<[sq[1] EXCEPT ![t] = "Blocked"], Remove(sq[2], t)>>

(* sched_removeThread(t) for every t in D.                                  *)
RemoveThreads(rq, D) ==
  SelectSeq(rq, LAMBDA t : t \notin D)

(* sched_setSuspended(t, blocked): the swapper's toggle between a state and *)
(* its suspended counterpart; a resumed ready thread rejoins the queue tail *)
SetSuspended(sq, t, blocked) ==
  LET st == sq[1]
      rq == sq[2]
  IN  IF blocked
      THEN CASE st[t] = "Blocked" -> <<[st EXCEPT ![t] = "BlockedSusp"], rq>>
             [] st[t] = "Ready"   -> <<[st EXCEPT ![t] = "ReadySusp"], Remove(rq, t)>>
             [] st[t] = "Zombie"  -> <<[st EXCEPT ![t] = "ZombieSusp"], rq>>
             [] OTHER             -> sq
      ELSE CASE st[t] = "BlockedSusp" -> <<[st EXCEPT ![t] = "Blocked"], rq>>
             [] st[t] = "ReadySusp"   -> <<[st EXCEPT ![t] = "Ready"], Append(rq, t)>>
             [] st[t] = "ZombieSusp"  -> <<[st EXCEPT ![t] = "Zombie"], rq>>
             [] OTHER                 -> sq

(* Mutant: the preempted thread goes back to the head of the queue.       *)
PerformRequeueFront(c, sq) ==
  LET st0 == sq[1]
      rq0 == sq[2]
      st1 == IF st0[c] = "Running" THEN [st0 EXCEPT ![c] = "Ready"] ELSE st0
      rq1 == IF st0[c] = "Running" /\ c # IdleTid THEN <<c>> \o rq0 ELSE rq0
      nxt == IF rq1 = <<>> THEN IdleTid ELSE Head(rq1)
      rq2 == IF rq1 = <<>> THEN rq1 ELSE Tail(rq1)
  IN  <<[st1 EXCEPT ![nxt] = "Running"], rq2, nxt>>

(* sched_perform(): a running thread c that is switched away from goes to   *)
(* the tail of the queue (the idle thread is never queued); the head of the *)
(* queue, or the idle thread if the queue is empty, becomes Running.        *)
(* Result: <<st, rq, next>>.                                               *)
Perform(c, sq) ==
  LET st0 == sq[1]
      rq0 == sq[2]
      st1 == IF st0[c] = "Running" THEN [st0 EXCEPT ![c] = "Ready"] ELSE st0
      rq1 == IF st0[c] = "Running" /\ c # IdleTid THEN Append(rq0, c) ELSE rq0
      nxt == IF rq1 = <<>> THEN IdleTid ELSE Head(rq1)
      rq2 == IF rq1 = <<>> THEN rq1 ELSE Tail(rq1)
  IN  <<[st1 EXCEPT ![nxt] = "Running"], rq2, nxt>>

=============================================================================
