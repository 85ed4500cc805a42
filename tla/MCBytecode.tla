----------------------------- MODULE MCBytecode -----------------------------
(* What the compiler makes of the repository's programs and of some of the  *)
(* generated ones, for TLC.                                                 *)
EXTENDS Bytecode, Compiler, Families

(* The bytes of a string, whatever the codes of its characters are. *)
CHARACTERS ==
  "abcdefghijklmnopqrstuvwxyzABCDEFGHIJKLMNOPQRSTUVWXYZ0123456789_ !\"#$%&'()*+,-./:;<=>?@[\\]^{|}~\n\r"
Codes(s) ==
  [i \in 1..Len(s) |->
     CHOOSE code \in 1..Len(CHARACTERS) : SubSeq(CHARACTERS, code, code) = SubSeq(s, i, i)]

ObjectOf(tree) ==
  LET c == compiler_visit_program(tree)
  IN [blocks |-> c.blocks, order |-> c.order, funcs |-> c.funcs, strings |-> c.strings]

(* Every 17th of the generated programs. *)
SomeObjects ==
  LET generated == FlatMatches \o Scopes \o EffectPrograms
      trees == Range(Examples) \cup {generated[17 * i] : i \in 1..Len(generated) \div 17}
  IN {ObjectOf(tree) : tree \in trees}
=============================================================================
