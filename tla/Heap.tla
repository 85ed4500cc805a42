-------------------------------- MODULE Heap --------------------------------
(***************************************************************************)
(* The reference-counted heap of src/lib/value.c.                          *)
(*                                                                         *)
(* An HValue is a two-word C struct that may hold a pointer to a heap      *)
(* object with a reference count.  Here every place that holds an HValue   *)
(* is a CELL: a C variable, an operand-stack or locals slot, a field of a  *)
(* heap object.  Passing a struct by value moves the cell (its owner       *)
(* changes); only hvalue_ref makes a second cell for the same object.      *)
(*                                                                         *)
(* A heap is a record; each operation of value.c is a function from heaps  *)
(* to heaps, so that a C function that makes several calls is their        *)
(* composition.                                                            *)
(***************************************************************************)
EXTENDS Naturals, Sequences, FiniteSets, Functions

CONSTANTS
  Obj,          \* addresses malloc can return
  Cell,         \* places an HValue can be in
  Blank,        \* what a cell that holds no HValue refers to
  Word,         \* what a cell of a _COPY type (or a NULL tuple) refers to
  Fn,           \* compiled functions a closure can be made of
  ClosureArgc,  \* ClosureArgc[fn]: captures + arguments
  Native,       \* the hnative_meta tables
  NativeMeta,   \* NativeMeta[m]: argc, call, freeDrops, cloneRefs (below)
  Pick(_, _)    \* Pick(S, n): which n-element subsets of S the allocator may hand
                \* out; in MachineHeap also which cell is dropped next

(***************************************************************************)
(* A meta's free and clone callbacks matter only for an effect that holds  *)
(* an HValue in its data: freeDrops says that free calls hvalue_drop on    *)
(* it, cloneRefs that clone copies it with hvalue_ref.                     *)
(***************************************************************************)
Holder == {"unused", "client", "dropping", "lost"}
Kind == {"free", "string", "cons", "tuple", "binding"} \cup Fn \cup Native

ASSUME CellAssumption == IsFiniteSet(Cell)
ASSUME WordAssumption == Blank \notin Obj /\ \A o \in Obj : o \notin Word
ASSUME KindAssumption ==
  {"free", "string", "cons", "tuple", "binding"} \cap (Fn \cup Native) = {}
ASSUME HolderAssumption == Obj \cap Holder = {}

Heap ==
  [ref  : [Cell -> Obj \cup Word \cup {Blank}],  \* what is in the cell
   own  : [Cell -> Obj \cup Holder],    \* who holds the cell
   slot : [Cell -> Nat],                \* which field, if an object does
   rc   : [Obj -> Nat],                 \* hvalue_header.rc, 0 once freed
   kind : [Obj -> Kind]]

EmptyHeap ==
  [ref  |-> [c \in Cell |-> Blank],
   own  |-> [c \in Cell |-> "unused"],
   slot |-> [c \in Cell |-> 0],
   rc   |-> [o \in Obj |-> 0],
   kind |-> [o \in Obj |-> "free"]]

Held(h, who) == {c \in Cell : h.own[c] = who}
Refs(h, o) == {c \in Cell : h.ref[c] = o}
Live(h) == {o \in Obj : h.kind[o] # "free"}
Args(h, o) == {k \in Held(h, o) : h.slot[k] > 0}
ArgAt(h, o, i) == CHOOSE k \in Held(h, o) : h.slot[k] = i

(* malloc and the next free slot hand out only what is not in use. *)
Fresh(S, n) == {T \in Pick(S, n) : T \subseteq S /\ Cardinality(T) = n}
FreshCells(h, n) == Fresh(Held(h, "unused"), n)
FreshCell(h) == UNION FreshCells(h, 1)
FreshObj(h) == UNION Fresh(Obj \ Live(h), 1)

(* A cell of a type without an allocation: hvalue_make_int, _bool, _unit. *)
hvalue_make(h, c, w) == [h EXCEPT !.ref[c] = w, !.own[c] = "client"]

(* Mutant: hvalue_ref that copies the struct and forgets the count. *)
hvalue_ref_uncounted(h, c, d) ==
  [h EXCEPT !.ref[d] = h.ref[c], !.own[d] = "client"]

(* hvalue_ref: cell d becomes a second reference to what c refers to. *)
hvalue_ref(h, c, d) ==
  [ref  |-> [h.ref EXCEPT ![d] = h.ref[c]],
   own  |-> [h.own EXCEPT ![d] = "client"],
   slot |-> h.slot,
   rc   |-> [o \in Obj |-> IF o = h.ref[c] THEN h.rc[o] + 1 ELSE h.rc[o]],
   kind |-> h.kind]

(***************************************************************************)
(* What becomes of field k of object o when hvalue_free frees o.  The free *)
(* functions drop every field, but hnative_free drops none of the args:    *)
(* it only calls the meta's free on the data (slot 0 of a native).         *)
(***************************************************************************)
Dropped(h, o, k) ==
  h.kind[o] \in Native => h.slot[k] = 0 /\ NativeMeta[h.kind[o]].freeDrops

(* Mutants: a test that frees one reference early, and one that tests the
   count before decrementing it. *)
IsLast_early(h, o) == o \in Obj /\ h.rc[o] <= 2
IsLast_late(h, o) == o \in Obj /\ h.rc[o] = 0

(* The reference that is dropped is the last one: --rc == 0. *)
IsLast(h, o) == o \in Obj /\ h.rc[o] = 1

(***************************************************************************)
(* hvalue_drop up to the recursive calls: the fields of a freed object are *)
(* left "dropping", each to be dropped in turn.                            *)
(***************************************************************************)
hvalue_drop(h, c) ==
  LET o == h.ref[c]
      frees == IsLast(h, o)
  IN [ref  |-> [h.ref EXCEPT ![c] = Blank],
      own  |-> [k \in Cell |->
                 IF k = c THEN "unused"
                 ELSE IF frees /\ h.own[k] = o
                   THEN IF Dropped(h, o, k) THEN "dropping" ELSE "lost"
                   ELSE h.own[k]],
      slot |-> [k \in Cell |->
                 IF k = c \/ (frees /\ h.own[k] = o) THEN 0 ELSE h.slot[k]],
      rc   |-> [p \in Obj |-> IF p = o THEN h.rc[p] - 1 ELSE h.rc[p]],
      kind |-> [p \in Obj |-> IF p = o /\ frees THEN "free" ELSE h.kind[p]]]

(* The cells of a sequence, each at its field number counted from first. *)
Fields(cs, first) ==
  [k \in Range(cs) |-> first + (CHOOSE i \in DOMAIN cs : cs[i] = k) - 1]

(* Moving client cells into fields of o: at[k] is the field of cell k. *)
Store(h, o, at) ==
  [h EXCEPT !.own = [k \in Cell |-> IF k \in DOMAIN at THEN o ELSE @[k]],
            !.slot = [k \in Cell |-> IF k \in DOMAIN at THEN at[k] ELSE @[k]]]

(* Mutant: args[++args_len], which leaves the first place empty. *)
PutArgs_preincrement(h, o, as) ==
  Store(h, o, Fields(as, Cardinality(Args(h, o)) + 2))

(* Operands moved behind the args o has, as hvalue_closure_put_arg_mut and
   hvalue_native_put_arg_mut do one by one. *)
PutArgs(h, o, as) == Store(h, o, Fields(as, Cardinality(Args(h, o)) + 1))

(* The args of o moved back to the client, as hvalue_closure_take_arg_mut
   does one by one. *)
TakeArgs(h, o) ==
  [h EXCEPT !.own = [k \in Cell |-> IF k \in Args(h, o) THEN "client" ELSE @[k]],
            !.slot = [k \in Cell |-> IF k \in Args(h, o) THEN 0 ELSE @[k]]]

(* malloc of a kind object with the given fields; c is its one reference. *)
Alloc(h, o, c, kind, at) ==
  Store([h EXCEPT !.ref[c] = o, !.own[c] = "client",
                  !.rc[o] = 1, !.kind[o] = kind], o, at)

(* Mutant: a clone loop that starts at the second field. *)
CloneRefs_from_second(h, o, k) == h.slot[k] > 1

(***************************************************************************)
(* What the clone functions do with field k of the object o they clone.    *)
(* hnative_clone references every argument but leaves the args_len of the  *)
(* clone 0, so those references are in no field of the clone any more.     *)
(* The data goes through the meta's clone.                                 *)
(***************************************************************************)
CloneRefs(h, o, k) ==
  (h.kind[o] \in Native /\ h.slot[k] = 0) => NativeMeta[h.kind[o]].cloneRefs

CloneKeeps(h, o, k) == h.kind[o] \in Native => h.slot[k] = 0

(***************************************************************************)
(* hvalue_clone: object n becomes a copy of o one level deep, d its        *)
(* reference, f[k] the copy's cell for field k of o.                       *)
(***************************************************************************)
hvalue_clone(h, o, n, d, f) ==
  LET isCopy(c) == \E k \in DOMAIN f : f[k] = c
      from(c) == CHOOSE k \in DOMAIN f : f[k] = c
      extra(p) == {k \in DOMAIN f : CloneRefs(h, o, k) /\ h.ref[k] = p}
  IN [ref  |-> [c \in Cell |-> IF c = d THEN n
                               ELSE IF isCopy(c) THEN h.ref[from(c)] ELSE h.ref[c]],
      own  |-> [c \in Cell |-> IF c = d THEN "client"
                               ELSE IF ~isCopy(c) THEN h.own[c]
                               ELSE IF CloneKeeps(h, o, from(c)) THEN n ELSE "lost"],
      slot |-> [c \in Cell |-> IF c # d /\ isCopy(c) /\ CloneKeeps(h, o, from(c))
                               THEN h.slot[from(c)] ELSE h.slot[c]],
      rc   |-> [p \in Obj |-> IF p = n THEN 1 ELSE h.rc[p] + Cardinality(extra(p))],
      kind |-> [h.kind EXCEPT ![n] = h.kind[o]]]

Bijections(S, T) == {f \in [S -> T] : \A x, y \in S : f[x] = f[y] => x = y}

(* Mutant: a bound that is off by one. *)
hvalue_is_uniq_loose(h, c) == h.ref[c] \in Obj => h.rc[h.ref[c]] <= 2

hvalue_is_uniq(h, c) == h.ref[c] \in Obj => h.rc[h.ref[c]] <= 1

(* The heaps hvalue_clone can leave, each with the cell it returns. *)
Clones(h, o) ==
  LET fields == Held(h, o)
  IN UNION {UNION {UNION {
       {<<hvalue_clone(h, o, n, d, f), d>> : f \in Bijections(fields, T \ {d})}
       : d \in T}
       : T \in FreshCells(h, Cardinality(fields) + 1)}
       : n \in FreshObj(h)}

(* hvalue_uniq: the reference itself, or a clone in exchange for it. *)
hvalue_uniq(h, c) ==
  IF hvalue_is_uniq(h, c) THEN {<<h, c>>}
  ELSE {<<hvalue_drop(u[1], c), u[2]>> : u \in Clones(h, h.ref[c])}
=============================================================================
