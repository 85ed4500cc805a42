-------------------------- MODULE MachineHeapTerms ---------------------------
(* MachineHeap, with its shared and mutated heap, implements Machine, whose  *)
(* values are immutable terms: the mapping reads the terms off the heap.    *)
EXTENDS MachineHeap

TermOrNone(c) == IF c = Blank THEN Uninit ELSE Term(mem, c)
Frame(frame) == [frame EXCEPT !.locals = Map(TermOrNone, @)]

(* The machine on terms that this one implements. *)
Abstract ==
  INSTANCE Machine WITH
    opstack <- Map(TermOrNone, mem.operands),
    fnstack <- Map(Frame, frames)

(* What a program computes does not depend on which HValues are shared, on *)
(* which closures are copied and on which are filled in place, or on when  *)
(* memory is freed and used again: every instruction is one of the machine *)
(* on immutable terms, and a free is none that it notices.                 *)
RefinesMachine ==
  Abstract!machine_init /\ [][Abstract!machine_step \/ machine_free]_(Abstract!machine)
=============================================================================
