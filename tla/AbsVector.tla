------------------------------ MODULE AbsVector ------------------------------
(***************************************************************************)
(* What esc::Vector<T> (src/libcpp/include/esc/vector.h) promises in the   *)
(* comments of its declaration: a sequence of values with add, insert at   *)
(* an index between 0 and size(), remove at an index, remove the first or  *)
(* every element equal to a value, and their results.  Indexes are 0-based *)
(* as in the code; the sequence is 1-based as in TLA+.                     *)
(***************************************************************************)
EXTENDS Naturals, Sequences

CONSTANTS
  Values,    \* the element values T
  MaxCount,  \* bound on the number of elements, to keep the model finite
  NoRet      \* the result of an operation returning void

VARIABLES
  seq,  \* the elements, in order
  ret,  \* the bool result of the last operation, NoRet if another
  cnt   \* the count removeAll returned, NoRet after another operation

vars == <<seq, ret, cnt>>

SX == INSTANCE SequencesExt

(* "Creates a new vector with space for 8 elements": empty.                *)
Init ==
  /\ seq = <<>>
  /\ ret = NoRet
  /\ cnt = NoRet

(* "Adds the given value to the end of the vector".                       *)
Add(v) ==
  /\ Len(seq) < MaxCount
  /\ seq' = Append(seq, v)
  /\ ret' = NoRet /\ cnt' = NoRet

(* "Inserts <value> at <i>. Note that <i> has to be between 0 and size()". *)
Insert(i, v) ==
  /\ Len(seq) < MaxCount /\ i <= Len(seq)
  /\ seq' = SX!InsertAt(seq, i + 1, v)
  /\ ret' = NoRet /\ cnt' = NoRet

(* "Removes the element at given index", "true if removed".               *)
Remove(i) ==
  /\ seq' = IF i < Len(seq) THEN SX!RemoveAt(seq, i + 1) ELSE seq
  /\ ret' = (i < Len(seq)) /\ cnt' = NoRet

(* "Removes the first element that equals <value>", "true if removed".    *)
RemoveFirst(v) ==
  /\ seq' = SX!RemoveFirst(seq, v)
  /\ ret' = (v \in SX!Range(seq)) /\ cnt' = NoRet

(* "Removes all values that equal <value>", "the number of removed        *)
(* elements".                                                              *)
RemoveAll(v) ==
  /\ seq' = SX!Remove(seq, v)
  /\ cnt' = Len(seq) - Len(SX!Remove(seq, v)) /\ ret' = NoRet

Next ==
  \/ \E v \in Values : Add(v) \/ RemoveFirst(v) \/ RemoveAll(v)
  \/ \E i \in 0..MaxCount, v \in Values : Insert(i, v)
  \/ \E i \in 0..MaxCount : Remove(i)

Spec == Init /\ [][Next]_vars

====
