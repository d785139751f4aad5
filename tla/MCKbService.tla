----------------------------- MODULE MCKbService -----------------------------
(* The keyboard service with four keys typed.                              *)
EXTENDS KbService
MC_Keys == <<"K1", "K2", "K3", "K4">>
====
