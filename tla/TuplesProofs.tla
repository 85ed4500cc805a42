---------------------------- MODULE TuplesProofs ----------------------------
(* htuple_free drops every item of a tuple exactly once, or goes on for    *)
(* ever: what a tuple of any length comes to, for any width of the index.  *)
EXTENDS Tuples, TLAPS

(* Items below the index have been dropped once, the others not at all. *)
DroppedUpTo(n) == \A k \in 0..len - 1 : drops[k] = IF k < n THEN 1 ELSE 0

Progress ==
  /\ phase \in {"building", "built"} => i = 0
  /\ i <= len
  /\ phase = "freed" => i = len
  /\ DroppedUpTo(i)

(* The inductive invariant. The index never reaches the end of a tuple that  *)
(* has as many items as it has values.                                      *)
Inv ==
  /\ TypeOK
  /\ len < IndexRange => Progress
  /\ len >= IndexRange => phase # "freed"

LEMMA Start == htuple_begin => Inv
  <1>1. \A n \in Lengths : n \in Nat
    BY LengthsAssumption
  <1> QED
    BY <1>1, IndexRangeAssumption DEF htuple_begin, Inv, TypeOK, Progress, DroppedUpTo

LEMMA TypeStep == TypeOK /\ [Next]_vars => TypeOK'
  <1> SUFFICES ASSUME TypeOK, [Next]_vars PROVE TypeOK'
    OBVIOUS
  <1>1. len \in Nat /\ IndexRange \in Nat \ {0}
    BY LengthsAssumption, IndexRangeAssumption DEF TypeOK
  <1>2. CASE htuple_put
    BY <1>1, <1>2 DEF htuple_put, HasRoom, TypeOK
  <1>3. CASE htuple_end
    BY <1>3 DEF htuple_end, TypeOK
  <1>4. CASE LastDrop
    BY <1>4 DEF LastDrop, TypeOK
  <1>5. CASE htuple_free /\ i < len
    <2>1. (i + 1) % IndexRange \in 0..IndexRange - 1
      BY <1>1 DEF TypeOK
    <2>2. i \in 0..len - 1
      BY <1>1, <1>5 DEF TypeOK
    <2> QED
      BY <1>5, <2>1, <2>2 DEF htuple_free, MoreItems, NextIndex, TypeOK
  <1>6. CASE htuple_free /\ ~(i < len)
    BY <1>6 DEF htuple_free, MoreItems, TypeOK
  <1>7. CASE UNCHANGED vars
    BY <1>7 DEF vars, TypeOK
  <1> QED
    BY <1>2, <1>3, <1>4, <1>5, <1>6, <1>7 DEF Next

(* A tuple whose items the index can count. *)
LEMMA ShortStep ==
  ASSUME Inv, [Next]_vars, len < IndexRange
  PROVE  Progress' /\ len' = len
  <1>1. len \in Nat /\ IndexRange \in Nat /\ TypeOK /\ Progress
    BY LengthsAssumption, IndexRangeAssumption DEF Inv, TypeOK
  <1>2. CASE htuple_put
    BY <1>1, <1>2 DEF htuple_put, TypeOK, Progress, DroppedUpTo
  <1>3. CASE htuple_end
    BY <1>1, <1>3 DEF htuple_end, TypeOK, Progress, DroppedUpTo
  <1>4. CASE LastDrop
    BY <1>1, <1>4 DEF LastDrop, TypeOK, Progress, DroppedUpTo
  <1>5. CASE htuple_free /\ i < len
    <2>1. (i + 1) % IndexRange = i + 1
      BY <1>1, <1>5 DEF TypeOK
    <2>2. i' = i + 1 /\ drops' = [drops EXCEPT ![i] = IF @ = 0 THEN 1 ELSE 2]
          /\ UNCHANGED <<len, put, phase>> /\ phase = "freeing"
      BY <2>1, <1>5 DEF htuple_free, MoreItems, NextIndex
    <2> QED
      BY <1>1, <1>5, <2>2 DEF TypeOK, Progress, DroppedUpTo
  <1>6. CASE htuple_free /\ ~(i < len)
    BY <1>1, <1>6 DEF htuple_free, MoreItems, TypeOK, Progress, DroppedUpTo
  <1>7. CASE UNCHANGED vars
    BY <1>1, <1>7 DEF vars, TypeOK, Progress, DroppedUpTo
  <1> QED
    BY <1>2, <1>3, <1>4, <1>5, <1>6, <1>7 DEF Next

(* A tuple whose end the index does not reach. *)
LEMMA LongStep ==
  ASSUME Inv, [Next]_vars, len >= IndexRange
  PROVE  phase' # "freed" /\ len' = len
  <1>1. len \in Nat /\ IndexRange \in Nat \ {0} /\ phase # "freed" /\ i < len
    BY LengthsAssumption, IndexRangeAssumption DEF Inv, TypeOK
  <1> QED
    BY <1>1 DEF Next, vars, htuple_put, htuple_end, LastDrop, htuple_free, MoreItems

LEMMA Step == Inv /\ [Next]_vars => Inv'
  <1> SUFFICES ASSUME Inv, [Next]_vars PROVE Inv'
    OBVIOUS
  <1>1. TypeOK'
    BY TypeStep DEF Inv
  <1>2. len \in Nat /\ IndexRange \in Nat
    BY LengthsAssumption, IndexRangeAssumption DEF Inv, TypeOK
  <1>3. CASE len < IndexRange
    BY <1>1, <1>2, <1>3, ShortStep DEF Inv
  <1>4. CASE len >= IndexRange
    BY <1>1, <1>2, <1>4, LongStep DEF Inv
  <1> QED
    BY <1>2, <1>3, <1>4

(* Whatever the lengths, the index that wraps included, no more items are  *)
(* put than the tuple has places, and none but those is dropped (TypeOK).  *)
THEOREM PlacesRespected == Spec => []TypeOK
  BY Start, TypeStep, PTL DEF Spec, Inv

(* Of every tuple of any length, the index that wraps included: it is freed *)
(* only with each item dropped once, none is dropped twice as long as the   *)
(* index can count the items, and if it cannot the tuple is never freed.    *)
THEOREM ItemsDroppedOnce == Spec => []DroppedOnce
  <1>1. Inv => DroppedOnce
    <2> SUFFICES ASSUME Inv PROVE DroppedOnce
      OBVIOUS
    <2>1. len \in Nat /\ IndexRange \in Nat
      BY LengthsAssumption, IndexRangeAssumption DEF Inv, TypeOK
    <2> QED
      BY <2>1 DEF Inv, TypeOK, Progress, DroppedUpTo, DroppedOnce
  <1> QED
    BY <1>1, Start, Step, PTL DEF Spec
=============================================================================
