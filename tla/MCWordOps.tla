------------------------------ MODULE MCWordOps -----------------------------
(* A 3-bit word: the signed range -4..3 holds INT_MIN / -1, and a          *)
(* direct-mapped area in the upper half of the unsigned range 0..7 leaves  *)
(* ranges that wrap past 7 as well as ones that end inside the area.       *)
(* Amounts include LONG_MIN (-4), whose negation overflows.                *)
EXTENDS WordOps

MC_Amounts == {-4, -1, 0, 1, 2}
=============================================================================
