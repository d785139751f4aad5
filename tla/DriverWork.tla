----------------------------- MODULE DriverWork -----------------------------
(***************************************************************************)
(* The driver side of the driver/client RPC layer: sysc_getWork of         *)
(* src/kernel/src/syscalls/sdriver.c, run by several driver threads that   *)
(* serve overlapping sets of driver nodes, against clients that send       *)
(* messages to those nodes and signals that interrupt the wait.            *)
(*                                                                         *)
(* One CPU and interrupts off in kernel paths make every stretch of        *)
(* sysc_getWork between two thread switches atomic: the call up to its     *)
(* first thread_wait (or its return), and each resumption after a wake up  *)
(* to the next wait (or its return).  The VFS is not part of the source    *)
(* tree; its calls are modelled from spec.md sections 4.5 and 6: a client  *)
(* is pending while it has sent more messages than a driver has received,  *)
(* vfs_getClient returns a pending client of one of the given nodes, and a *)
(* send wakes every thread waiting for EV_CLIENT (thread_wait with object  *)
(* 0).  A file handle is named by the client it was opened on.             *)
(***************************************************************************)
EXTENDS Naturals, Sequences, SequencesExt, Bitwise

CONSTANTS
  DrvThreads,     \* driver threads calling getWork in their server loop
  Clients,        \* client threads, each connected to one driver node
  DrvOf,          \* DrvOf[c]: the driver node client c is connected to
  Ids,            \* Ids[d]: the ids array driver thread d passes to getWork
  MAX_FD_COUNT,   \* size of a thread's descriptor table
  NoFile,         \* an unused descriptor
  MaxMsgs,        \* messages a client sends in a behaviour
  MaxSignals,     \* signals sent in a behaviour
  BadTid,         \* a tid no thread has
  DRV_OPEN, DRV_READ, DRV_WRITE, DRV_CLOSE, DRV_TERM, DRV_FS,
                  \* the capability flags of the driver interface
  FlagWords,      \* flag words a driver thread passes to regDriver
  MaxCalls        \* regDriver, unregDriver and getClientThread calls in a
                  \* behaviour (a server loop makes them before its work)

ASSUME \A d \in DrvThreads : Len(Ids[d]) \in 1 .. 32

FdSlots == 0 .. MAX_FD_COUNT - 1
Results == {"none", "fd", "ERR_NO_CLIENT_WAITING", "ERR_INTERRUPTED",
            "ERR_NO_FREE_FD", "ERR_OPEN", "ERR_ASSOC", "ERR_READ"}
\* the VFS and descriptor calls that may fail after a client is found
Failures == {"none", "open", "assoc", "read"}

VARIABLES
  pc,        \* "user", blocked in the wait of getWork ("wait"), or made ready
             \* again and not yet resumed ("woken")
  sig,       \* sig_hasSignalFor(d): a signal is pending for d
  nsig,      \* signals sent so far
  fds,       \* fds[d][fd]: the file associated with descriptor fd of d
  opens,     \* opens[d][c]: files d holds open on client c
  sent,      \* messages client c has written
  got,       \* messages of c a driver has received
  res,       \* the value the last call of d returned
  drivers,   \* the drivers registered at the VFS, as <<owner, flags>>
  ncalls     \* regDriver, unregDriver and getClientThread calls so far

vars == <<pc, sig, nsig, fds, opens, sent, got, res, drivers, ncalls>>

(* DRV_ALL: the flags a general driver may implement.                     *)
DRV_ALL == DRV_OPEN | DRV_READ | DRV_WRITE | DRV_CLOSE | DRV_TERM

(* Mutant: DRV_FS is counted among the general flags.                      *)
FlagsValidFsInAll(flags) ==
  ~(flags - (flags & (DRV_ALL | DRV_FS)) # 0 /\ flags # DRV_FS)

(* The flag check of sysc_regDriver: a word with a bit outside DRV_ALL     *)
(* that is not exactly DRV_FS is ERR_INVALID_ARGS.  flags & ~DRV_ALL is    *)
(* written flags - (flags & DRV_ALL), its value on every u32 word.         *)
FlagsValid(flags) ==
  ~(flags - (flags & DRV_ALL) # 0 /\ flags # DRV_FS)

(* Mutant: a client counts as pending when all its messages were received. *)
PendingInclusive(c) == sent[c] >= got[c]

Pending(c) == sent[c] > got[c]

GetClient(ids, n) ==
  {c \in Clients : Pending(c) /\ \E i \in 1 .. n : DrvOf[c] = ids[i]}

(* thread_getFreeFd(): the lowest free descriptor, or -1 (ERR_NO_FREE_FD) *)
FreeFds(d) == {f \in FdSlots : fds[d][f] = NoFile}
GetFreeFd(d) == IF FreeFds(d) = {} THEN -1 ELSE Min(FreeFds(d))

(* Descriptor and open-file bookkeeping: vfs_openFile, vfs_closeFile,      *)
(* thread_assocFd and thread_unassocFd on the per-thread tables.           *)
OpenFile(o, d, c)  == [o EXCEPT ![d][c] = @ + 1]
CloseFile(o, d, c) == [o EXCEPT ![d][c] = @ - 1]
AssocFd(f, d, fd, c) == [f EXCEPT ![d][fd] = c]
UnassocFd(f, d, fd)  == [f EXCEPT ![d][fd] = NoFile]

(* Mutant: a failed receive unassociates the descriptor but leaves the     *)
(* file open.                                                              *)
ReadFailRollbackOpen(f, o, d, fd, c) == <<UnassocFd(f, d, fd), o>>

(* The rollback after vfsrw_readDrvUse fails: thread_unassocFd(fd) and     *)
(* vfs_closeFile(file).  Result: <<fds, opens>>.                           *)
ReadFailRollback(f, o, d, fd, c) == <<UnassocFd(f, d, fd), CloseFile(o, d, c)>>

(* Everything getWork does once vfs_getClient returned client c: get a     *)
(* descriptor, open the client, associate, receive one message, with the   *)
(* rollback of each failure; the call returns to user mode.                *)
Serve(d, c, fail) ==
  /\ pc' = [pc EXCEPT ![d] = "user"]
  /\ IF GetFreeFd(d) < 0
     THEN /\ res' = [res EXCEPT ![d] = "ERR_NO_FREE_FD"]
          /\ UNCHANGED <<fds, opens, got>>
     ELSE LET fd == GetFreeFd(d)
              o1 == OpenFile(opens, d, c)
              f1 == AssocFd(fds, d, fd, c)
          IN  CASE fail = "open" ->
                     /\ res' = [res EXCEPT ![d] = "ERR_OPEN"]
                     /\ UNCHANGED <<fds, opens, got>>
                [] fail = "assoc" ->
                     /\ res' = [res EXCEPT ![d] = "ERR_ASSOC"]
                     /\ opens' = CloseFile(o1, d, c)
                     /\ UNCHANGED <<fds, got>>
                [] fail = "read" ->
                     LET rb == ReadFailRollback(f1, o1, d, fd, c)
                     IN  /\ res' = [res EXCEPT ![d] = "ERR_READ"]
                         /\ fds' = rb[1]
                         /\ opens' = rb[2]
                         /\ UNCHANGED got
                [] fail = "none" ->
                     /\ res' = [res EXCEPT ![d] = "fd"]
                     /\ fds' = f1
                     /\ opens' = o1
                     /\ got' = [got EXCEPT ![c] = @ + 1]

(* One pass of the loop of getWork: a pending client is served; with none, *)
(* GW_NOBLOCK returns ERR_NO_CLIENT_WAITING and otherwise the thread waits *)
(* for EV_CLIENT and switches.                                             *)
Fetch(d, nb, fail) ==
  LET cs == GetClient(Ids[d], Len(Ids[d]))
  IN  IF cs # {}
      THEN \E c \in cs : Serve(d, c, fail)
      ELSE /\ pc' = [pc EXCEPT ![d] = IF nb THEN "user" ELSE "wait"]
           /\ res' = [res EXCEPT ![d] = IF nb THEN "ERR_NO_CLIENT_WAITING"
                                              ELSE "none"]
           /\ UNCHANGED <<fds, opens, got>>

Init ==
  /\ pc = [d \in DrvThreads |-> "user"]
  /\ sig = [d \in DrvThreads |-> FALSE]
  /\ nsig = 0
  /\ fds = [d \in DrvThreads |-> [f \in FdSlots |-> NoFile]]
  /\ opens = [d \in DrvThreads |-> [c \in Clients |-> 0]]
  /\ sent = [c \in Clients |-> 0]
  /\ got = [c \in Clients |-> 0]
  /\ res = [d \in DrvThreads |-> "none"]
  /\ drivers = {}
  /\ ncalls = 0

(* sysc_getWork entered from user mode (a pending signal is delivered on   *)
(* the way back to user mode, before the next call).                       *)
GetWork(d, nb, fail) ==
  /\ pc[d] = "user" /\ ~sig[d]
  /\ Fetch(d, nb, fail)
  /\ UNCHANGED <<sig, nsig, sent, drivers, ncalls>>

(* The thread resumes after thread_switch in the loop: a pending signal    *)
(* ends the call with ERR_INTERRUPTED, otherwise the loop asks again.      *)
Resume(d, fail) ==
  /\ pc[d] = "woken"
  /\ IF sig[d]
     THEN /\ pc' = [pc EXCEPT ![d] = "user"]
          /\ res' = [res EXCEPT ![d] = "ERR_INTERRUPTED"]
          /\ UNCHANGED <<fds, opens, got>>
     ELSE Fetch(d, FALSE, fail)
  /\ UNCHANGED <<sig, nsig, sent, drivers, ncalls>>

(* Mutant: the signal is recorded but the waiting thread is not woken.     *)
SignalNoWake(d) ==
  /\ nsig < MaxSignals /\ ~sig[d]
  /\ sig' = [sig EXCEPT ![d] = TRUE]
  /\ nsig' = nsig + 1
  /\ UNCHANGED <<pc, fds, opens, sent, got, res, drivers, ncalls>>

(* A signal for a driver thread; thread_setReady wakes it if it waits.     *)
Signal(d) ==
  /\ nsig < MaxSignals /\ ~sig[d]
  /\ sig' = [sig EXCEPT ![d] = TRUE]
  /\ nsig' = nsig + 1
  /\ pc' = [pc EXCEPT ![d] = IF @ = "wait" THEN "woken" ELSE @]
  /\ UNCHANGED <<fds, opens, sent, got, res, drivers, ncalls>>

(* The signal is handled on the return to user mode.                       *)
DeliverSignal(d) ==
  /\ pc[d] = "user" /\ sig[d]
  /\ sig' = [sig EXCEPT ![d] = FALSE]
  /\ UNCHANGED <<pc, nsig, fds, opens, sent, got, res, drivers, ncalls>>

(* A client writes a message to its driver node; the VFS wakes every       *)
(* thread waiting for EV_CLIENT.                                           *)
ClientSend(c) ==
  /\ sent[c] < MaxMsgs
  /\ sent' = [sent EXCEPT ![c] = @ + 1]
  /\ pc' = [d \in DrvThreads |-> IF pc[d] = "wait" THEN "woken" ELSE pc[d]]
  /\ UNCHANGED <<sig, nsig, fds, opens, got, res, drivers, ncalls>>

(* sysc_getClientThread(id, tid): ERR_INVALID_TID for a tid no thread     *)
(* has, ERR_NO_FREE_FD, or the error of vfs_openClientThread (fail "open") *)
(* leave the tables alone; a failing thread_assocFd (fail "assoc") closes  *)
(* the file again; otherwise the descriptor is bound to the client thread. *)
(* Its return value is not recorded: res is getWork's.                     *)
GetClientThread(d, t, fail) ==
  /\ ncalls < MaxCalls /\ ncalls' = ncalls + 1
  /\ pc[d] = "user" /\ ~sig[d]
  /\ IF t = BadTid \/ GetFreeFd(d) < 0 \/ fail = "open"
     THEN UNCHANGED <<fds, opens>>
     ELSE LET o1 == OpenFile(opens, d, t)
          IN  IF fail = "assoc"
              THEN opens' = CloseFile(o1, d, t) /\ UNCHANGED fds
              ELSE opens' = o1 /\ fds' = AssocFd(fds, d, GetFreeFd(d), t)
  /\ UNCHANGED <<pc, sig, nsig, sent, got, res, drivers>>

(* sysc_regDriver(name, flags): ERR_INVALID_ARGS for flags the check       *)
(* rejects, then vfs_createDriver, which fails (ok = FALSE) for a name     *)
(* that exists or when the VFS is out of nodes.  All threads register the  *)
(* one name the clients use.                                               *)
RegDriver(d, flags, ok) ==
  /\ ncalls < MaxCalls /\ ncalls' = ncalls + 1
  /\ pc[d] = "user" /\ ~sig[d]
  /\ IF FlagsValid(flags) /\ ok /\ drivers = {}
     THEN drivers' = {<<d, flags>>}
     ELSE UNCHANGED drivers
  /\ UNCHANGED <<pc, sig, nsig, fds, opens, sent, got, res>>

(* sysc_unregDriver(id): vfs_removeDriver removes the driver of its owner  *)
(* and fails for another thread.                                           *)
UnregDriver(d) ==
  /\ ncalls < MaxCalls /\ ncalls' = ncalls + 1
  /\ pc[d] = "user" /\ ~sig[d]
  /\ drivers' = {r \in drivers : r[1] # d}
  /\ UNCHANGED <<pc, sig, nsig, fds, opens, sent, got, res>>

(* The driver closes a descriptor it got from getWork.                     *)
CloseFd(d, fd) ==
  /\ pc[d] = "user" /\ fds[d][fd] # NoFile
  /\ fds' = UnassocFd(fds, d, fd)
  /\ opens' = CloseFile(opens, d, fds[d][fd])
  /\ UNCHANGED <<pc, sig, nsig, sent, got, res, drivers, ncalls>>

Next ==
  \/ \E d \in DrvThreads, nb \in BOOLEAN, f \in Failures : GetWork(d, nb, f)
  \/ \E d \in DrvThreads, f \in Failures : Resume(d, f)
  \/ \E d \in DrvThreads : Signal(d) \/ DeliverSignal(d)
  \/ \E c \in Clients : ClientSend(c)
  \/ \E d \in DrvThreads, fd \in FdSlots : CloseFd(d, fd)
  \/ \E d \in DrvThreads, t \in Clients \cup {BadTid},
        f \in {"none", "open", "assoc"} : GetClientThread(d, t, f)
  \/ \E d \in DrvThreads, w \in FlagWords, ok \in BOOLEAN : RegDriver(d, w, ok)
  \/ \E d \in DrvThreads : UnregDriver(d)

Spec == Init /\ [][Next]_vars

(* Fairness: the scheduler runs a woken thread (Kernel's                   *)
(* ReadyEventuallyRuns), a driver's server loop calls blocking getWork     *)
(* again and closes the descriptors it was given, signals are handled on   *)
(* the way to user mode, and the VFS does not fail forever.                *)
FairSpec ==
  /\ Spec
  /\ \A d \in DrvThreads :
       /\ WF_vars(Resume(d, "none"))
       /\ WF_vars(GetWork(d, FALSE, "none"))
       /\ WF_vars(DeliverSignal(d))
       /\ \A fd \in FdSlots : WF_vars(CloseFd(d, fd))

TypeOK ==
  /\ pc \in [DrvThreads -> {"user", "wait", "woken"}]
  /\ sig \in [DrvThreads -> BOOLEAN]
  /\ nsig \in 0 .. MaxSignals
  /\ fds \in [DrvThreads -> [FdSlots -> Clients \cup {NoFile}]]
  /\ opens \in [DrvThreads -> [Clients -> Nat]]
  /\ sent \in [Clients -> 0 .. MaxMsgs]
  /\ got \in [Clients -> 0 .. MaxMsgs]
  /\ res \in [DrvThreads -> Results]
  /\ drivers \subseteq DrvThreads \X FlagWords
  /\ ncalls \in 0 .. MaxCalls

(* The capability flags a word sets, read bit by bit.                      *)
BitsOf(w) == {2^i : i \in {j \in 0 .. 30 : (w \div 2^j) % 2 = 1}}

(* What spec.md section 8 states of regDriver: the registered flags are    *)
(* exactly the filesystem flag or a subset of {Open, Read, Write, Close,   *)
(* Term}; sysc_regDriver's bit test on the u32 word must reject the rest.  *)
RegisteredFlagsValid ==
  \A r \in drivers :
    r[2] = DRV_FS
    \/ BitsOf(r[2]) \subseteq {DRV_OPEN, DRV_READ, DRV_WRITE, DRV_CLOSE, DRV_TERM}

(* No leaked open file (spec section 7: "a failed get-work leaves no       *)
(* dangling file descriptor"): every file a driver thread holds open on a  *)
(* client is associated with exactly one of its descriptors, after any     *)
(* mix of successful, failed and interrupted getWork calls and closes.     *)
NoDanglingFile ==
  \A d \in DrvThreads, c \in Clients :
    opens[d][c] = Cardinality({f \in FdSlots : fds[d][f] = c})

(* No lost wake-up: a driver thread blocked in getWork's wait has neither  *)
(* a pending client on any node of its ids array nor a pending signal; the *)
(* check for clients, the wait and every send and signal are ordered so    *)
(* that a thread only sleeps when there is nothing to do.                  *)
NoLostWakeup ==
  \A d \in DrvThreads :
    pc[d] = "wait" =>
      /\ ~sig[d]
      /\ ~\E c \in Clients : Pending(c) /\ DrvOf[c] \in ToSet(Ids[d])

====
