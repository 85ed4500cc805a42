----------------------------- MODULE ValueTerms -----------------------------
(* Values, with its shared and mutated heap, implements the immutable      *)
(* terms of Terms: the mapping reads the term off the heap.                *)
EXTENDS Values

Node(kind, fields) == [kind |-> kind, fields |-> fields]

(* The term that cell c refers to, if t[k] is that of each field k. *)
TermFrom(h, t, c) ==
  LET o == h.ref[c]
  IN IF o \notin Obj THEN Node(o, <<>>)
     ELSE Node(h.kind[o],
               [i \in {h.slot[k] : k \in Held(h, o)} |-> t[ArgAt(h, o, i)]])

(* The terms of all cells: a heap without cycles determines them. *)
Term[c \in Cell] == TermFrom(heap, Term, c)

(* What the client sees: the terms of the cells it holds. *)
ClientTerm ==
  [c \in Cell |-> IF c \in Client THEN Term[c] ELSE Node("none", <<>>)]

Immutable == INSTANCE Terms WITH val <- ClientTerm

(* What value.h promises: sharing and in-place mutation cannot be          *)
(* observed.  Every step of the client is a step on immutable terms, and   *)
(* the frees that follow a drop change no term it still holds.             *)
ImmutableTerms == Immutable!Spec

(* What value.c keeps of it: the same, but for hnative_clone, whose copy   *)
(* of a native has none of its arguments.  The original keeps them.        *)
ImmutableButNatives == Immutable!LosingSpec
=============================================================================
