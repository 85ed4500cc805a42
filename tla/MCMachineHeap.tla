--------------------------- MODULE MCMachineHeap ----------------------------
(* Programs without effects, and an allocator that hands out the first free *)
(* place, so that freed memory is used again at once.                      *)
EXTENDS MachineHeapTerms, Compiler, Prelude, Families

RECURSIVE First(_, _)
First(free, n) ==
  IF n = 0 THEN {}
  ELSE LET x == CHOOSE x \in free : TRUE IN {x} \cup First(free \ {x}, n - 1)
FirstFree(free, n) == IF Cardinality(free) < n THEN {} ELSE {First(free, n)}

PureNatives == {"id", "const", "==", "+", "-", "*", "error"}
PureMembers == [name \in PureNatives |-> HNative(name, Argc[name])]

Meta ==
  [name \in PureNatives |->
     [argc |-> Argc[name], effect |-> FALSE, freeDrops |-> TRUE, cloneRefs |-> TRUE,
      call |-> CASE name \in {"id", "const"} -> "arg"
                 [] name = "error" -> "fails" [] OTHER -> "scalar"]]

(* Every kth of a family, k coprime to the numbers of its choices. *)
Every(k, programs) == [i \in 1..Len(programs) \div k |-> programs[k * i]]
HeapPrograms == Tests \o Every(19, FlatMatches) \o Every(23, Scopes)

CompiledPrograms == Map(Compile, HeapPrograms)

Words == [kind : {"int", "true", "false", "tuple", "nil"}, n : Int, s : {""}, args : {<<>>}]
=============================================================================
