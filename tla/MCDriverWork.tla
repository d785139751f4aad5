---------------------------- MODULE MCDriverWork ----------------------------
(***************************************************************************)
(* Model-checking instance of DriverWork: two driver threads, d1 serving   *)
(* nodes n1 and n2 and d2 serving n2 only, so that both race for clients   *)
(* of n2 and only d1 can serve n1; one client per node, one descriptor per *)
(* thread (a second client finds the table full), one message per client   *)
(* (MaxMsgs in the cfg) and two signals.                                   *)
(***************************************************************************)
EXTENDS DriverWork

MC_DrvOf == [c \in Clients |-> IF c = "c1" THEN "n1" ELSE "n2"]
MC_Ids == [d \in DrvThreads |-> IF d = "d1" THEN <<"n1", "n2">> ELSE <<"n2">>]

(* A read-write driver, a filesystem driver, a filesystem word with a      *)
(* general flag, and a word with a high bit set (TLC's integers stop at  *)
(* 2^31 - 1, so bit 31 is out of reach).                                    *)
MC_FlagWords == {6, 16, 18, 2^30 + 2}
====
