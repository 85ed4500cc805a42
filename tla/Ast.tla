--------------------------------- MODULE Ast ---------------------------------
(***************************************************************************)
(* A node of src/lib/ast.h: name is the text of its token and value an     *)
(* integer literal or the flag (NF_REC, 1 or 0) of a function pattern.     *)
(* The name of an N_PLTAIL without NF_NAMED is "".                         *)
(***************************************************************************)
Node(type, name, value, kids) ==
  [type |-> type, name |-> name, value |-> value, kids |-> kids]

Nothing == Node("NULL", "", 0, <<>>)  \* a null node pointer

(* f applied to each of a list. *)
Map(f(_), s) == [i \in DOMAIN s |-> f(s[i])]
==============================================================================
