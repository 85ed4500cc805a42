------------------------------- MODULE Values -------------------------------
(***************************************************************************)
(* A client of value.h: the machine, a native or a test that holds HValues *)
(* and calls the operations of src/lib/value.c and the calls of            *)
(* src/lib/machine.c that mutate values in place.  Each action is one      *)
(* complete C function; only the recursion of hvalue_free over the fields  *)
(* of a freed object is spread over steps, and nothing else runs while it  *)
(* lasts.                                                                  *)
(***************************************************************************)
EXTENDS Heap

CONSTANT MaxFields  \* longest tuple, and most operands of one call

ASSUME MaxFieldsAssumption == MaxFields \in Nat

VARIABLE heap

Idle == Held(heap, "dropping") = {}
Client == Held(heap, "client")
Is(c, kinds) ==
  /\ c \in Client
  /\ heap.ref[c] \in Obj
  /\ heap.kind[heap.ref[c]] \in kinds

(* Operands the client can move into a call: distinct cells it holds. *)
Operands(S) ==
  {as \in UNION {[1..n -> S] : n \in 1..MaxFields} :
     \A i, j \in DOMAIN as : as[i] = as[j] => i = j}

Init == heap = EmptyHeap

-----------------------------------------------------------------------------
(* Making values. *)

MakeScalar(c, w) == heap' = hvalue_make(heap, c, w)

MakeString(o, c) == heap' = Alloc(heap, o, c, "string", <<>>)

MakeClosure(o, c, fn) == heap' = Alloc(heap, o, c, fn, <<>>)

MakeNative(o, c, m) ==
  /\ ~NativeMeta[m].effect
  /\ heap' = Alloc(heap, o, c, m, <<>>)

MakeCons(o, c, h, t) ==
  /\ h # t
  /\ heap' = Alloc(heap, o, c, "cons", Fields(<<h, t>>, 1))

MakeTuple(o, c, as) == heap' = Alloc(heap, o, c, "tuple", Fields(as, 1))

-----------------------------------------------------------------------------
(* Sharing, releasing and taking apart. *)

Reference(c, d) == heap' = hvalue_ref(heap, c, d)

Clone(c) ==
  /\ heap.ref[c] \in Obj
  /\ \E u \in Clones(heap, heap.ref[c]) : heap' = u[1]

Drop(c) == heap' = hvalue_drop(heap, c)

(* The recursive call of hvalue_free on one field of a freed object. *)
DropField ==
  \E c \in Held(heap, "dropping") : heap' = hvalue_drop(heap, c)

Uncons(c, head, tail) ==
  /\ Is(c, {"cons"})
  /\ head # tail
  /\ \E h, t \in Held(heap, heap.ref[c]) :
       /\ heap.slot[h] = 1 /\ heap.slot[t] = 2
       /\ heap' = hvalue_drop(hvalue_ref(hvalue_ref(heap, h, head), t, tail), c)

TupleGet(c, i, d) ==
  /\ Is(c, {"tuple"})
  /\ \E k \in Held(heap, heap.ref[c]) :
       heap.slot[k] = i /\ heap' = hvalue_ref(heap, k, d)

-----------------------------------------------------------------------------
(* Calls: the operands are moved in, in order. *)

ClosureArgsLeft(h, o) == ClosureArgc[h.kind[o]] - Cardinality(Args(h, o))
NativeArgsLeft(h, o) == NativeMeta[h.kind[o]].argc - Cardinality(Args(h, o))

(* A saturated closure hands all its arguments to the new frame. *)
CallClosure(c, as) ==
  /\ Is(c, Fn)
  /\ Len(as) <= ClosureArgsLeft(heap, heap.ref[c])
  /\ \E u \in hvalue_uniq(heap, c) :
       LET h == u[1]
           o == h.ref[u[2]]
       IN heap' = IF Len(as) < ClosureArgsLeft(h, o)
                  THEN PutArgs(h, o, as)
                  ELSE hvalue_drop(TakeArgs(h, o), u[2])

(* The call callbacks of src/lib/builtin: they return a reference to their
   first argument, a scalar, an error, or an effect that refers to it. *)
NativeCall(h, o, d) ==
  LET meta == NativeMeta[h.kind[o]]
      first == {k \in Held(h, o) : h.slot[k] = 1}
  IN \/ /\ meta.call = "arg"
        /\ \E arg \in first, r \in FreshCell(h) :
             heap' = hvalue_drop(hvalue_ref(h, arg, r), d)
     \/ /\ meta.call = "scalar"
        /\ \E r \in FreshCell(h), w \in Word : heap' = hvalue_drop(hvalue_make(h, r, w), d)
     \/ /\ meta.call = "fails"
        /\ \E r \in FreshCell(h), e \in FreshObj(h) :
             heap' = [Alloc(h, e, r, "string", <<>>) EXCEPT !.own[d] = "lost"]
     \/ /\ meta.call \in Native
        /\ \E arg \in first, T \in FreshCells(h, 2), e \in FreshObj(h) :
             \E r, x \in T :
               /\ r # x
               /\ heap' = hvalue_drop(Alloc(hvalue_ref(h, arg, x), e, r, meta.call,
                                            [k \in {x} |-> 0]), d)

CallNative(c, as) ==
  /\ Is(c, Native)
  /\ Len(as) <= NativeArgsLeft(heap, heap.ref[c])
  /\ \E u \in hvalue_uniq(heap, c) :
       LET o == u[1].ref[u[2]]
           h == PutArgs(u[1], o, as)
       IN IF NativeArgsLeft(h, o) > 0 THEN heap' = h ELSE NativeCall(h, o, u[2])

-----------------------------------------------------------------------------
(* hvalue_bind, except on a non-empty list, which calls back into the
   machine.  On [] it returns the list and forgets the continuation. *)

IsEffect(c) ==
  Is(c, {"binding"} \cup {m \in Native : NativeMeta[m].effect})

BindEffect(o, c, effect, then) ==
  /\ IsEffect(effect)
  /\ effect # then
  /\ heap' = Alloc(heap, o, c, "binding", Fields(<<effect, then>>, 1))

BindNil(nil, then) ==
  /\ heap.ref[nil] \in Word
  /\ nil # then
  /\ heap' = [heap EXCEPT !.own[then] = "lost"]

-----------------------------------------------------------------------------

Make(o, c) ==
  \/ MakeString(o, c)
  \/ \E fn \in Fn : MakeClosure(o, c, fn)
  \/ \E m \in Native : MakeNative(o, c, m)
  \/ \E h, t \in Client : MakeCons(o, c, h, t) \/ BindEffect(o, c, h, t)
  \/ \E as \in Operands(Client) : MakeTuple(o, c, as)

Take(c) ==
  \/ \E T \in FreshCells(heap, 2) : \E h, t \in T : Uncons(c, h, t)
  \/ \E d \in FreshCell(heap), i \in 1..MaxFields : TupleGet(c, i, d)

Call(c) ==
  \E as \in Operands(Client \ {c}) : CallClosure(c, as) \/ CallNative(c, as)

Next ==
  \/ DropField
  \/ /\ Idle
     /\ \/ \E c \in FreshCell(heap), w \in Word : MakeScalar(c, w)
        \/ \E o \in FreshObj(heap), c \in FreshCell(heap) : Make(o, c)
        \/ \E c \in Client, d \in FreshCell(heap) : Reference(c, d)
        \/ \E c \in Client : Drop(c) \/ Clone(c) \/ Take(c) \/ Call(c)
        \/ \E c, d \in Client : BindNil(c, d)

vars == heap
Spec == Init /\ [][Next]_vars

-----------------------------------------------------------------------------
(* Every heap is well formed. *)
TypeOK == heap \in Heap

(* The count of an object is exactly the number of HValues that refer to   *)
(* it, so one is freed when, and only when, the last reference goes, and   *)
(* no HValue refers to freed memory.                                       *)
RcExact == \A o \in Obj : heap.rc[o] = Cardinality(Refs(heap, o))

(* An HValue never refers to, and is never a field of, freed memory.       *)
NoDangling ==
  \A c \in Cell :
    /\ heap.ref[c] \in Obj => heap.kind[heap.ref[c]] # "free"
    /\ heap.own[c] \in Obj => heap.kind[heap.own[c]] # "free"

(* The fields of a live object are numbered without gap or repetition, a   *)
(* cons and a binding always have both: args_len counts what args holds.   *)
FieldsInOrder ==
  \A o \in Live(heap) :
    LET n == Cardinality(Args(heap, o))
    IN /\ {heap.slot[k] : k \in Args(heap, o)} = 1..n
       /\ Cardinality(Held(heap, o) \ Args(heap, o)) <= 1
       /\ heap.kind[o] \in {"cons", "binding"} => n = 2

(* Reference counts cannot reclaim a cycle; value.c never builds one, even *)
(* when a closure is applied to itself.                                    *)
PointsTo(p, o) == \E c \in Held(heap, p) : heap.ref[c] = o
Acyclic ==
  \A S \in SUBSET Live(heap) :
    S # {} => \E o \in S : \A p \in S : ~PointsTo(p, o)

(* A client that drops every HValue it holds gets all its memory back.     *)
AllReclaimed ==
  (Client = {} /\ Held(heap, "lost") = {} /\ Idle) => Live(heap) = {}

(* A shared object is frozen: value.h lets an HValue be mutated only while *)
(* it is the one reference to its allocation.  Fields of a shared object   *)
(* neither come, go nor move.                                              *)
SharedFrozen ==
  [][\A o \in Obj :
       heap.rc[o] > 1 =>
         /\ heap'.kind[o] = heap.kind[o]
         /\ Held(heap', o) = Held(heap, o)
         /\ \A k \in Held(heap, o) :
              heap'.ref[k] = heap.ref[k] /\ heap'.slot[k] = heap.slot[k]]_vars
=============================================================================
