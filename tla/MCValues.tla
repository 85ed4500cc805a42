------------------------------ MODULE MCValues ------------------------------
(* Small heaps for TLC.  Cells and addresses are model values and symmetric *)
(* (nothing depends on which one the allocator hands out), and the         *)
(* allocator hands out an arbitrary but fixed choice, which reaches every  *)
(* heap up to that symmetry.                                               *)
EXTENDS ValueTerms, TLC

Symmetry == Permutations(Cell) \cup Permutations(Obj)

(* Two compiled functions would differ only in their arity. *)
MCClosureArgc == [fn \in Fn |-> 2]

(* The metas of src/lib/builtin, one per combination of callbacks. *)
Meta(argc, call, effect, freeDrops, cloneRefs) ==
  [argc |-> argc, call |-> call, effect |-> effect,
   freeDrops |-> freeDrops, cloneRefs |-> cloneRefs]

Builtin ==
  [id            |-> Meta(1, "arg", FALSE, TRUE, TRUE),
   const         |-> Meta(2, "arg", FALSE, TRUE, TRUE),
   eq            |-> Meta(2, "scalar", FALSE, TRUE, TRUE),
   error         |-> Meta(1, "fails", FALSE, TRUE, TRUE),
   each          |-> Meta(1, "each_effect", FALSE, TRUE, TRUE),
   each_effect   |-> Meta(0, "none", TRUE, TRUE, TRUE),
   print         |-> Meta(1, "print_effect", FALSE, TRUE, TRUE),
   print_effect  |-> Meta(0, "none", TRUE, TRUE, FALSE),
   return        |-> Meta(1, "return_effect", FALSE, TRUE, TRUE),
   return_effect |-> Meta(0, "none", TRUE, FALSE, FALSE)]

MCNativeMeta == [m \in Native |-> Builtin[m]]

Fixed(S, n) ==
  IF Cardinality(S) < n THEN {}
  ELSE {CHOOSE T \in SUBSET S : Cardinality(T) = n}
=============================================================================
