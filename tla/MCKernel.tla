------------------------------ MODULE MCKernel ------------------------------
(***************************************************************************)
(* Model-checking instance of Kernel: three thread slots (the initial and  *)
(* idle threads and a forked process's thread; a clone finds a slot only   *)
(* after a kill, and a full table makes the tid scan wrap and fail), two   *)
(* processes, a tick of 2 ms, a time slice of two ticks,                   *)
(* sleeps of 0, 1 and 3 ms (due at the next tick, the next tick, two ticks *)
(* later) and room for two pending sleeps.                                 *)
(***************************************************************************)
EXTENDS Kernel

MC_Tids == 3
MC_SleepMs == {0, 1, 3}
=============================================================================
