------------------------------- MODULE Vector -------------------------------
(***************************************************************************)
(* esc::Vector<T> of src/libcpp/include/esc/vector.h: an array _elements   *)
(* of _elSize slots of which the first _elCount are in use, doubled by     *)
(* ensureCapacity when full.  Each method is one action; its loops are     *)
(* RECURSIVE operators that do what the loop does, slot by slot.           *)
(*                                                                         *)
(* Abstraction: a slot at or beyond _elCount is never read (operator[]     *)
(* asserts i < _elCount and every loop stops before _elCount), so its      *)
(* content is kept as Null instead of the stale value the code leaves.     *)
(***************************************************************************)
EXTENDS Integers, Sequences

CONSTANTS
  Values,       \* the element values T
  MaxCount,     \* bound on the number of elements
  NoRet,        \* the result of a method returning void
  InitialSize,  \* Vector<T>::initialSize
  Null          \* the content of a slot not in use

VARIABLES
  elements,  \* _elements[0 .. _elSize-1]
  elCount,   \* _elCount
  elSize,    \* _elSize
  ret,       \* the bool result of the last method, NoRet if another
  cnt        \* the count removeAll returned, NoRet after another method

vars == <<elements, elCount, elSize, ret, cnt>>

(* Vector(): _elCount = 0, _elSize = initialSize, new T[initialSize].      *)
Init ==
  /\ elements = [x \in 0..InitialSize - 1 |-> Null]
  /\ elCount = 0
  /\ elSize = InitialSize
  /\ ret = NoRet
  /\ cnt = NoRet

(* Mutant: ensureCapacity grows only once the count exceeds the size.      *)
EnsureCapacityLate(a, n, sz) ==
  IF n > sz
  THEN <<[x \in 0..2 * sz - 1 |-> IF x < n THEN a[x] ELSE Null], 2 * sz>>
  ELSE <<a, sz>>

(* ensureCapacity: when full, double _elSize and copy the _elCount         *)
(* elements into the new array; the result is <<_elements, _elSize>>.      *)
EnsureCapacity(a, n, sz) ==
  IF n >= sz
  THEN <<[x \in 0..2 * sz - 1 |-> IF x < n THEN a[x] ELSE Null], 2 * sz>>
  ELSE <<a, sz>>

(* The loop of insert: for(x = _elCount; x > i; x--) a[x] = a[x - 1].      *)
RECURSIVE ShiftUp(_, _, _)
ShiftUp(a, x, i) ==
  IF x > i THEN ShiftUp([a EXCEPT ![x] = a[x - 1]], x - 1, i) ELSE a

(* The loop of remove: for(x = i + 1; x < _elCount; x++) a[x-1] = a[x].    *)
RECURSIVE ShiftDown(_, _, _)
ShiftDown(a, x, n) ==
  IF x < n THEN ShiftDown([a EXCEPT ![x - 1] = a[x]], x + 1, n) ELSE a

(* remove(i) for i < _elCount, as <<_elements, _elCount>>; the slot that   *)
(* falls out of use becomes Null.                                          *)
DoRemove(a, n, i) ==
  <<[ShiftDown(a, i + 1, n) EXCEPT ![n - 1] = Null], n - 1>>

(* The search loop of removeFirst: the first i < _elCount with             *)
(* _elements[i] == value, or -1.                                           *)
RECURSIVE FirstIndex(_, _, _, _)
FirstIndex(a, n, v, i) ==
  IF i >= n THEN -1 ELSE IF a[i] = v THEN i ELSE FirstIndex(a, n, v, i + 1)

(* Mutant: removeAll steps past the slot it just removed from, skipping    *)
(* the element that moved into it.                                         *)
RECURSIVE RemoveAllLoopSkip(_, _, _, _, _)
RemoveAllLoopSkip(a, n, v, i, c) ==
  IF i >= n THEN <<a, n, c>>
  ELSE IF a[i] = v
       THEN LET r == DoRemove(a, n, i)
            IN RemoveAllLoopSkip(r[1], r[2], v, i + 1, c + 1)
       ELSE RemoveAllLoopSkip(a, n, v, i + 1, c)

(* The loop of removeAll, as <<_elements, _elCount, c>>: remove(i) and     *)
(* continue at the same i when _elements[i] == value, i++ otherwise.       *)
RECURSIVE RemoveAllLoop(_, _, _, _, _)
RemoveAllLoop(a, n, v, i, c) ==
  IF i >= n THEN <<a, n, c>>
  ELSE IF a[i] = v
       THEN LET r == DoRemove(a, n, i)
            IN RemoveAllLoop(r[1], r[2], v, i, c + 1)
       ELSE RemoveAllLoop(a, n, v, i + 1, c)

(* add(value): ensureCapacity, then _elements[_elCount++] = value.        *)
Add(v) ==
  /\ elCount < MaxCount
  /\ LET g == EnsureCapacity(elements, elCount, elSize)
     IN /\ elements' = [g[1] EXCEPT ![elCount] = v]
        /\ elSize' = g[2]
  /\ elCount' = elCount + 1
  /\ ret' = NoRet /\ cnt' = NoRet

(* insert(i, value): the vassert makes i <= _elCount a precondition;       *)
(* i == _elCount is add, otherwise ensureCapacity, shift up, store.       *)
Insert(i, v) ==
  /\ elCount < MaxCount /\ i <= elCount
  /\ IF i = elCount
     THEN Add(v)
     ELSE LET g == EnsureCapacity(elements, elCount, elSize)
          IN /\ elements' = [ShiftUp(g[1], elCount, i) EXCEPT ![i] = v]
             /\ elSize' = g[2]
             /\ elCount' = elCount + 1
             /\ ret' = NoRet /\ cnt' = NoRet

(* remove(i): false for i >= _elCount, otherwise shift down and count down.*)
Remove(i) ==
  /\ IF i >= elCount
     THEN UNCHANGED <<elements, elCount>>
     ELSE LET r == DoRemove(elements, elCount, i)
          IN elements' = r[1] /\ elCount' = r[2]
  /\ ret' = (i < elCount) /\ cnt' = NoRet
  /\ UNCHANGED elSize

(* removeFirst(value): remove(i) at the first equal element, else false.   *)
RemoveFirst(v) ==
  LET i == FirstIndex(elements, elCount, v, 0)
  IN /\ IF i = -1
        THEN UNCHANGED <<elements, elCount>>
        ELSE LET r == DoRemove(elements, elCount, i)
             IN elements' = r[1] /\ elCount' = r[2]
     /\ ret' = (i # -1) /\ cnt' = NoRet
     /\ UNCHANGED elSize

(* removeAll(value): the loop, returning the count c.                      *)
RemoveAll(v) ==
  LET r == RemoveAllLoop(elements, elCount, v, 0, 0)
  IN /\ elements' = r[1]
     /\ elCount' = r[2]
     /\ cnt' = r[3] /\ ret' = NoRet
     /\ UNCHANGED elSize

Next ==
  \/ \E v \in Values : Add(v) \/ RemoveFirst(v) \/ RemoveAll(v)
  \/ \E i \in 0..MaxCount, v \in Values : Insert(i, v)
  \/ \E i \in 0..MaxCount : Remove(i)

Spec == Init /\ [][Next]_vars

(* The elements as size() and operator[] show them.                        *)
Elems == [k \in 1..elCount |-> elements[k - 1]]

TypeOK ==
  /\ elSize \in {InitialSize * (2 ^ k) : k \in 0..MaxCount}
  /\ elCount \in 0..elSize
  /\ elements \in [0..elSize - 1 -> Values \cup {Null}]
  /\ \A x \in 0..elSize - 1 : elements[x] = Null <=> x >= elCount
  /\ ret \in BOOLEAN \cup {NoRet}
  /\ cnt \in (0..MaxCount) \cup {NoRet}

Abs == INSTANCE AbsVector WITH seq <- Elems

(* Every sequence of add, insert, remove, removeFirst and removeAll,       *)
(* through the doubling of the array, does to the elements what the        *)
(* comments of the declarations promise, and returns what they promise:    *)
(* the array implementation refines AbsVector.                             *)
ImplementsAbsVector == Abs!Spec

====
