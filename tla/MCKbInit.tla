------------------------------ MODULE MCKbInit ------------------------------
(* The keyboard driver's initialisation against a controller that answers  *)
(* within two of the driver's sleeps, or within one, and may crash.        *)
EXTENDS KbInit
====
