---------------------------- MODULE MCProcLocks -----------------------------
(***************************************************************************)
(* Model-checking instance of ProcLocks: three kernel threads and one      *)
(* process with its five locks; a pid without a process exercises the NULL *)
(* result of request.  Three threads let two wait for a mutex held by a    *)
(* third that blocks, and let the spinlock discipline be tested against    *)
(* a thread that holds a mutex across a block.                             *)
(***************************************************************************)
EXTENDS ProcLocks, TLC

Symm == Permutations(Threads)

====
