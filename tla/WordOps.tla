------------------------------ MODULE WordOps ------------------------------
(***************************************************************************)
(* Fixed-width integer code of the tree, at a word width W small enough to *)
(* enumerate:                                                              *)
(*                                                                         *)
(*   - div/ldiv/lldiv (lib/c/stdlib/div.c): C's truncating / and % on a    *)
(*     signed word, with the two inputs the C standard leaves undefined    *)
(*     (a zero denominator, and the most negative word over -1) given the  *)
(*     outcomes an x86 or MMIX build produces;                             *)
(*   - PageDirBase::isInUserSpace (mmix/mem/pagedir.h), which relies on    *)
(*     unsigned wrap-around to reject a range that overflows;              *)
(*   - ProcBase::addOwn/addShared/addSwap (task/proc.h), which add a       *)
(*     signed long to an unsigned frame counter after an assert.           *)
(*                                                                         *)
(* div and isInUserSpace are pure operators; a caller calls them with any *)
(* input of the width and last keeps the latest call, which the reference *)
(* definitions are checked against.  The frame counters are state: one    *)
(* action per method, called with any amount.                             *)
(***************************************************************************)
EXTENDS Integers

CONSTANTS
  W,            \* bits of a word (long, ulong, s32, uintptr_t)
  DIR_MAP_AREA, \* first address of the kernel's direct-mapped area
  Amounts,      \* the amounts a caller passes to addOwn/addShared/addSwap
  MaxFrames     \* frames of physical memory: no counter is added beyond it

ASSUME DIR_MAP_AREA \in 0..2^W - 1 /\ MaxFrames \in 0..2^W - 1

VARIABLES
  ownFrames, sharedFrames, swapped,       \* ProcBase counters (proc.h 515-519)
  peakOwnFrames, peakSharedFrames, swapCount, \* ProcBase::stats (540-542)
  last          \* the latest call of div or isInUserSpace and its result

counters == <<ownFrames, sharedFrames, swapped,
              peakOwnFrames, peakSharedFrames, swapCount>>
vars == <<counters, last>>

Words  == 0..2^W - 1                      \* unsigned values
SWords == -(2^(W - 1))..2^(W - 1) - 1      \* signed values

(* Conversion of a mathematical integer to the unsigned and the signed     *)
(* word with the same low W bits.                                          *)
ToUnsigned(x) == x % 2^W
ToSigned(x)   == IF x % 2^W >= 2^(W - 1) THEN (x % 2^W) - 2^W ELSE x % 2^W

Mag(x) == IF x < 0 THEN -x ELSE x

(***************************************************************************)
(* div.c: res.quot = numerator / denominator; res.rem = numerator %        *)
(* denominator.  C truncates toward zero.  A zero denominator and a        *)
(* quotient out of range are undefined: idiv traps on both (#DE), and a    *)
(* compiler that folds the division yields the wrapped quotient and a     *)
(* remainder of 0.  Div is the set of outcomes, Trap the trap.            *)
(***************************************************************************)
CQuot(n, d) == IF (n < 0) = (d < 0) THEN Mag(n) \div Mag(d)
                                    ELSE -(Mag(n) \div Mag(d))

Trap == [trap |-> TRUE, quot |-> 0, rem |-> 0]
Res(q, r) == [trap |-> FALSE, quot |-> q, rem |-> r]

Div(n, d) ==
  IF d = 0 THEN {Trap}
  ELSE IF CQuot(n, d) \notin SWords
       THEN {Trap, Res(ToSigned(CQuot(n, d)), 0)}
       ELSE {Res(CQuot(n, d), n - d * CQuot(n, d))}

(* isInUserSpace: virt + count <= DIR_MAP_AREA && virt + count >= virt,    *)
(* the sum taken in uintptr_t.                                             *)
(* Mutant: the wrap-around test dropped.                                  *)
IsInUserSpaceNoWrapCheck(virt, count) == ToUnsigned(virt + count) <= DIR_MAP_AREA

IsInUserSpace(virt, count) ==
  /\ ToUnsigned(virt + count) <= DIR_MAP_AREA
  /\ ToUnsigned(virt + count) >= virt

(***************************************************************************)
(* The frame counters.  Each method asserts                                *)
(*   amount > 0 || counter >= (ulong)-amount                               *)
(* and adds the long to the ulong.  A failing assert panics the kernel,    *)
(* so the step does not happen.  -amount of the most negative long         *)
(* overflows; the build wraps it, which is what ToUnsigned computes.       *)
(***************************************************************************)
(* Mutant: an off-by-one in the assert.                                  *)
AdmitsOffByOne(counter, amount) == amount > 0 \/ counter + 1 >= ToUnsigned(-amount)

Admits(counter, amount) == amount > 0 \/ counter >= ToUnsigned(-amount)

MaxOf(a, b) == IF a > b THEN a ELSE b

Init ==
  /\ ownFrames = 0 /\ sharedFrames = 0 /\ swapped = 0
  /\ peakOwnFrames = 0 /\ peakSharedFrames = 0 /\ swapCount = 0
  /\ last = [call |-> "none"]

(* A caller of div(n, d) and of isInUserSpace(virt, count).                *)
CallDiv(n, d) ==
  /\ \E r \in Div(n, d) : last' = [call |-> "div", n |-> n, d |-> d, res |-> r]
  /\ UNCHANGED counters

CallIsInUserSpace(virt, count) ==
  /\ last' = [call |-> "isInUserSpace", virt |-> virt, count |-> count,
              ok |-> IsInUserSpace(virt, count)]
  /\ UNCHANGED counters

(* Mutant: the peak taken from the counter before the addition.          *)
AddOwnPeakStale(amount) ==
  /\ Admits(ownFrames, amount)
  /\ ownFrames + amount <= MaxFrames
  /\ ownFrames' = ToUnsigned(ownFrames + amount)
  /\ peakOwnFrames' = MaxOf(ownFrames, peakOwnFrames)
  /\ UNCHANGED <<sharedFrames, swapped, peakSharedFrames, swapCount, last>>

AddOwn(amount) ==
  /\ Admits(ownFrames, amount)
  /\ ownFrames + amount <= MaxFrames
  /\ ownFrames' = ToUnsigned(ownFrames + amount)
  /\ peakOwnFrames' = MaxOf(ownFrames', peakOwnFrames)
  /\ UNCHANGED <<sharedFrames, swapped, peakSharedFrames, swapCount, last>>

AddShared(amount) ==
  /\ Admits(sharedFrames, amount)
  /\ sharedFrames + amount <= MaxFrames
  /\ sharedFrames' = ToUnsigned(sharedFrames + amount)
  /\ peakSharedFrames' = MaxOf(sharedFrames', peakSharedFrames)
  /\ UNCHANGED <<ownFrames, swapped, peakOwnFrames, swapCount, last>>

AddSwap(amount) ==
  /\ Admits(swapped, amount)
  /\ swapped + amount <= MaxFrames
  /\ swapCount + Mag(amount) <= MaxFrames
  /\ swapped' = ToUnsigned(swapped + amount)
  /\ swapCount' = ToUnsigned(swapCount + Mag(amount))
  /\ UNCHANGED <<ownFrames, sharedFrames, peakOwnFrames, peakSharedFrames, last>>

Next ==
  \/ \E a \in Amounts : AddOwn(a) \/ AddShared(a) \/ AddSwap(a)
  \/ \E n, d \in SWords : CallDiv(n, d)
  \/ \E v, c \in Words : CallIsInUserSpace(v, c)

Spec == Init /\ [][Next]_vars

-----------------------------------------------------------------------------
TypeOK ==
  /\ {ownFrames, sharedFrames, swapped} \subseteq 0..MaxFrames
  /\ peakOwnFrames \in ownFrames..MaxFrames
  /\ peakSharedFrames \in sharedFrames..MaxFrames
  /\ swapCount \in 0..MaxFrames
  /\ last.call \in {"none", "div", "isInUserSpace"}

(* isInUserSpace accepts a range exactly when the whole range, computed    *)
(* without wrap-around, ends at or below DIR_MAP_AREA: no range that wraps *)
(* past the top of the address space gets through.                         *)
InUserSpaceIffBelowMapArea ==
  last.call = "isInUserSpace" =>
    (last.ok <=> last.virt + last.count <= DIR_MAP_AREA)

(* addOwn/addShared/addSwap never wrap a counter: every step moves each    *)
(* counter by at most the amount of one call, never round the word.        *)
FramesNeverWrap ==
  [][\A c \in {<<ownFrames, ownFrames'>>, <<sharedFrames, sharedFrames'>>,
               <<swapped, swapped'>>} : c[2] - c[1] \in Amounts \cup {0}]_vars

=============================================================================
