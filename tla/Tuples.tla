------------------------------- MODULE Tuples -------------------------------
(***************************************************************************)
(* The life of one tuple: htuple_begin, htuple_put and htuple_end build    *)
(* it, htuple_free drops its items when the last reference goes.  A length *)
(* is a uint16_t, but the index of the loop in htuple_free is a uint8_t.   *)
(***************************************************************************)
EXTENDS Naturals

CONSTANTS
  Lengths,    \* lengths of tuples to build, uint16_t
  IndexRange  \* number of values of the index: 2^8

ASSUME LengthsAssumption == Lengths \subseteq Nat
ASSUME IndexRangeAssumption == IndexRange \in Nat \ {0}

VARIABLES
  len,    \* the tuple's length
  put,    \* items put so far
  drops,  \* drops[k]: how often item k was dropped, 2 for more than once
  i,      \* the index of htuple_free
  phase

vars == <<len, put, drops, i, phase>>

htuple_begin ==
  /\ len \in Lengths
  /\ put = 0
  /\ drops = [k \in 0..len - 1 |-> 0]
  /\ i = 0
  /\ phase = "building"

(* Mutant: a bound that lets one item too many in. *)
HasRoom_inclusive == put <= len

HasRoom == put < len

htuple_put ==
  /\ phase = "building"
  /\ HasRoom
  /\ put' = put + 1
  /\ UNCHANGED <<len, drops, i, phase>>

htuple_end ==
  /\ phase = "building"
  /\ put = len
  /\ phase' = "built"
  /\ UNCHANGED <<len, put, drops, i>>

(* hvalue_drop of the last reference; an empty tuple is a null pointer. *)
LastDrop ==
  /\ phase = "built"
  /\ phase' = IF len = 0 THEN "freed" ELSE "freeing"
  /\ UNCHANGED <<len, put, drops, i>>

(* Mutants: a loop that stops before the last item, one that never moves. *)
MoreItems_short == i + 1 < len
NextIndex_stuck(k) == k

MoreItems == i < len
NextIndex(k) == (k + 1) % IndexRange

htuple_free ==
  /\ phase = "freeing"
  /\ IF MoreItems
       THEN /\ drops' = [drops EXCEPT ![i] = IF @ = 0 THEN 1 ELSE 2]
            /\ i' = NextIndex(i)
            /\ UNCHANGED <<len, put, phase>>
       ELSE /\ phase' = "freed"
            /\ UNCHANGED <<len, put, drops, i>>

Next == htuple_put \/ htuple_end \/ LastDrop \/ htuple_free

Spec == htuple_begin /\ [][Next]_vars

(* htuple_free is a loop: it goes on while it can. *)
FairSpec == Spec /\ WF_vars(Next)

-----------------------------------------------------------------------------
TypeOK ==
  /\ len \in Lengths
  /\ put \in 0..len
  /\ drops \in [0..len - 1 -> 0..2]
  /\ i \in 0..IndexRange - 1
  /\ phase \in {"building", "built", "freeing", "freed"}

(* A tuple is freed only with each of its items dropped once, and before    *)
(* that none is dropped twice, which would release a reference somebody      *)
(* else holds.  A tuple with as many items as the index has values, which    *)
(* a uint16_t length allows, is never freed.                                *)
DroppedOnce ==
  /\ len < IndexRange => \A k \in 0..len - 1 : drops[k] <= 1
  /\ phase = "freed" => len < IndexRange /\ \A k \in 0..len - 1 : drops[k] = 1

(* hvalue_drop returns, but for such a tuple: of that it drops again what it *)
(* has dropped.                                                             *)
Returns ==
  /\ len < IndexRange => <>(phase = "freed")
  /\ len >= IndexRange => <>(\A k \in DOMAIN drops : k < IndexRange => drops[k] = 2)
=============================================================================
