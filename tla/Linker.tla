------------------------------- MODULE Linker -------------------------------
(* How compiler_write_program of src/lib/compiler.c puts the blocks of a    *)
(* compiled program one behind the other.  Addresses count instructions     *)
(* here, from 1; Bytecode has what is written, where they count bytes.      *)
EXTENDS Integers, Sequences, SequencesExt

Jumps == {"JUMP", "JUMPIF", "JUMPIFN"}

(* How much lies before each of some pieces that follow one another, and
   before the end. *)
Places(sizes) ==
  LET place[n \in 1..Len(sizes) + 1] == IF n = 1 THEN 0 ELSE place[n - 1] + sizes[n - 1]
  IN place

(* The blocks in the order of the output, and the place of a block in it. *)
Laid(c) == [i \in DOMAIN c.order |-> c.blocks[c.order[i]]]
Position(c, b) == CHOOSE i \in DOMAIN c.order : c.order[i] = b

(* Blocks get their offsets from their order; jumps and functions that name
   a block get its offset. *)
compiler_write_program(c) ==
  LET starts == Places([i \in DOMAIN c.order |-> Len(Laid(c)[i])])
      offset(b) == 1 + starts[Position(c, b)]
      resolve(is) == [i \in DOMAIN is |->
                        IF is[i].op \in Jumps
                          THEN [is[i] EXCEPT !.n = offset(@)] ELSE is[i]]
  IN [code  |-> FlattenSeq([i \in DOMAIN c.order |-> resolve(Laid(c)[i])]),
      funcs |-> [f \in DOMAIN c.funcs |->
                  [addr |-> offset(c.funcs[f].start), locals |-> c.funcs[f].locals,
                   args |-> c.funcs[f].args, captures |-> c.funcs[f].captures,
                   type |-> c.funcs[f].type, name |-> c.funcs[f].name]]]
=============================================================================
