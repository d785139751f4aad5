------------------------------ MODULE MCVector ------------------------------
(* esc::Vector<T> with two element values, the code's initial size of 8    *)
(* and room for one element past it, so that ensureCapacity doubles the   *)
(* array once.                                                             *)
EXTENDS Vector
====
