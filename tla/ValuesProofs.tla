---------------------------- MODULE ValuesProofs ----------------------------
(***************************************************************************)
(* The heap of Values keeps its shape at every size, provided each         *)
(* native's clone callback keeps to value.h and copies its data with       *)
(* hvalue_ref: the reference counts are exact, no cycle is ever built,     *)
(* nothing leaks but what is marked lost, and what is shared is left alone. *)
(***************************************************************************)
EXTENDS Values, HeapProofs

LEMMA OperandsDistinct ==
  ASSUME NEW S
  PROVE  Operands(S) \subseteq DistinctSeqs(S)
  BY MaxFieldsAssumption DEF Operands, DistinctSeqs

-----------------------------------------------------------------------------
(* Every action keeps the heap good. *)

LEMMA MakeStep ==
  ASSUME Good(heap), NEW o \in FreshObj(heap), NEW c \in FreshCell(heap), Make(o, c)
  PROVE  Good(heap')
  <1>1. /\ o \in Obj /\ heap.kind[o] = "free"
        /\ c \in Cell /\ heap.own[c] = "unused"
    BY FreshFacts
  <1>2. Client \subseteq Cell
    BY DEF Client, Held
  <1>3. \A kind \in Kind \ {"free"} : Good(Alloc(heap, o, c, kind, <<>>))
    <2>1. DOMAIN <<>> = {}
      OBVIOUS
    <2> QED BY <1>1, <2>1, AllocGood
  <1>4. \A kind \in {"cons", "binding"}, h, t \in Client :
          Good(Alloc(heap, o, c, kind, Fields(<<h, t>>, 1)))
    <2> SUFFICES ASSUME NEW kind \in {"cons", "binding"}, NEW h \in Client, NEW t \in Client
                 PROVE  Good(Alloc(heap, o, c, kind, Fields(<<h, t>>, 1)))
      OBVIOUS
    <2>1. kind \in Kind \ {"free"}
      BY DEF Kind
    <2> QED BY <1>1, <1>2, <2>1, PairFacts, AllocGood
  <1>5. \A as \in Operands(Client) : Good(Alloc(heap, o, c, "tuple", Fields(as, 1)))
    <2> SUFFICES ASSUME NEW as \in Operands(Client)
                 PROVE  Good(Alloc(heap, o, c, "tuple", Fields(as, 1)))
      OBVIOUS
    <2>1. "tuple" \in Kind \ {"free"} /\ 1 \in Nat /\ 1 > 0
      BY DEF Kind
    <2>2. /\ DOMAIN Fields(as, 1) \subseteq Cell
          /\ \A k \in DOMAIN Fields(as, 1) : Fields(as, 1)[k] \in Nat
      BY <1>2, <2>1, OperandsDistinct, OperandsFacts
    <2> QED BY <1>1, <2>1, <2>2, AllocGood
  <1>6. CASE MakeString(o, c)
    BY <1>6, <1>3 DEF MakeString, Kind
  <1>7. CASE \E fn \in Fn : MakeClosure(o, c, fn)
    BY <1>7, <1>3, KindAssumption DEF MakeClosure, Kind
  <1>8. CASE \E m \in Native : MakeNative(o, c, m)
    BY <1>8, <1>3, KindAssumption DEF MakeNative, Kind
  <1>9. CASE \E h, t \in Client : MakeCons(o, c, h, t) \/ BindEffect(o, c, h, t)
    BY <1>9, <1>4 DEF MakeCons, BindEffect
  <1>10. CASE \E as \in Operands(Client) : MakeTuple(o, c, as)
    BY <1>10, <1>5 DEF MakeTuple
  <1> QED BY <1>6, <1>7, <1>8, <1>9, <1>10 DEF Make

LEMMA TakeStep ==
  ASSUME Good(heap), NEW c \in Client, Take(c)
  PROVE  Good(heap')
  <1>1. ASSUME NEW T \in FreshCells(heap, 2), NEW head \in T, NEW tail \in T,
               Uncons(c, head, tail)
        PROVE  Good(heap')
    <2>1. PICK h \in Held(heap, heap.ref[c]), t \in Held(heap, heap.ref[c]) :
            heap' = hvalue_drop(hvalue_ref(hvalue_ref(heap, h, head), t, tail), c)
      BY <1>1 DEF Uncons
    <2>2. /\ h \in Cell /\ t \in Cell /\ c \in Cell /\ head # tail
          /\ head \in Cell /\ heap.own[head] = "unused"
          /\ tail \in Cell /\ heap.own[tail] = "unused"
      BY <1>1, FreshFacts DEF Held, Client, Uncons
    <2> DEFINE h1 == hvalue_ref(heap, h, head)
    <2>3. Good(h1)
      BY <2>2, RefGood
    <2>4. h1.own[tail] = "unused"
      BY <2>2 DEF hvalue_ref, Good, Heap
    <2> DEFINE h2 == hvalue_ref(h1, t, tail)
    <2> HIDE DEF h1
    <2>5. Good(h2)
      BY <2>2, <2>3, <2>4, RefGood
    <2> HIDE DEF h2
    <2>6. Good(hvalue_drop(h2, c))
      BY <2>2, <2>5, DropGood
    <2> QED BY <2>1, <2>6 DEF h1, h2
  <1>2. ASSUME NEW d \in FreshCell(heap), NEW i, TupleGet(c, i, d)
        PROVE  Good(heap')
    <2>1. PICK k \in Held(heap, heap.ref[c]) : heap' = hvalue_ref(heap, k, d)
      BY <1>2 DEF TupleGet
    <2>2. k \in Cell /\ d \in Cell /\ heap.own[d] = "unused"
      BY FreshFacts DEF Held
    <2> QED BY <2>1, <2>2, RefGood
  <1> QED BY <1>1, <1>2 DEF Take

LEMMA ClosureStep ==
  ASSUME Good(heap), CloneContract, NEW c \in Client,
         NEW as \in Operands(Client \ {c}), CallClosure(c, as)
  PROVE  Good(heap')
  <1>1. c \in Cell /\ heap.ref[c] \in Obj /\ Client \ {c} \subseteq Cell
    BY DEF Client, Held, CallClosure, Is
  <1>2. PICK u \in hvalue_uniq(heap, c) :
          \/ heap' = PutArgs(u[1], u[1].ref[u[2]], as)
          \/ heap' = hvalue_drop(TakeArgs(u[1], u[1].ref[u[2]]), u[2])
    BY DEF CallClosure
  <1>3. /\ Good(u[1]) /\ u[2] \in Cell
        /\ u[1].ref[u[2]] \in Obj /\ u[1].kind[u[1].ref[u[2]]] # "free"
    BY <1>1, UniqGood
  <1>4. Good(PutArgs(u[1], u[1].ref[u[2]], as))
    BY <1>1, <1>3, OperandsDistinct, PutArgsGood
  <1>5. Good(TakeArgs(u[1], u[1].ref[u[2]]))
    BY <1>3, TakeArgsGood
  <1>6. Good(hvalue_drop(TakeArgs(u[1], u[1].ref[u[2]]), u[2]))
    BY <1>3, <1>5, DropGood
  <1> QED BY <1>2, <1>4, <1>6

LEMMA NativeResult ==
  ASSUME NEW h, Good(h), NEW o \in Obj, NEW d \in Cell, h.own[d] # "unused",
         NativeCall(h, o, d)
  PROVE  Good(heap')
  <1>1. CASE \E arg \in Held(h, o), r \in FreshCell(h) :
               heap' = hvalue_drop(hvalue_ref(h, arg, r), d)
    <2>1. PICK arg \in Held(h, o), r \in FreshCell(h) :
            heap' = hvalue_drop(hvalue_ref(h, arg, r), d)
      BY <1>1
    <2>2. arg \in Cell /\ r \in Cell /\ h.own[r] = "unused"
      BY FreshFacts DEF Held
    <2>3. Good(hvalue_ref(h, arg, r))
      BY <2>2, RefGood
    <2> QED BY <2>1, <2>3, DropGood
  <1>2. CASE \E r \in FreshCell(h), w \in Word :
               heap' = hvalue_drop(hvalue_make(h, r, w), d)
    <2>1. PICK r \in FreshCell(h), w \in Word :
            heap' = hvalue_drop(hvalue_make(h, r, w), d)
      BY <1>2
    <2>2. Good(hvalue_make(h, r, w))
      BY FreshFacts, MakeGood
    <2> QED BY <2>1, <2>2, DropGood
  <1>3. CASE \E r \in FreshCell(h), e \in FreshObj(h) :
               heap' = [Alloc(h, e, r, "string", <<>>) EXCEPT !.own[d] = "lost"]
    <2>1. PICK r \in FreshCell(h), e \in FreshObj(h) :
            heap' = [Alloc(h, e, r, "string", <<>>) EXCEPT !.own[d] = "lost"]
      BY <1>3
    <2> DEFINE g == Alloc(h, e, r, "string", <<>>)
    <2>2. DOMAIN <<>> = {} /\ "string" \in Kind \ {"free"}
      BY DEF Kind
    <2>3. Good(g)
      BY <2>2, FreshFacts, AllocGood
    <2> HIDE DEF g
    <2>4. [g EXCEPT !.own[d] = "lost"] \in Heap
      BY <2>3 DEF Good, Heap, Holder
    <2>5. Good([g EXCEPT !.own[d] = "lost"])
      BY <2>3, <2>4, MoveGood DEF Good, Heap
    <2> QED BY <2>1, <2>5 DEF g
  <1> DEFINE m == NativeMeta[h.kind[o]].call
  <1>4. CASE /\ m \in Native
             /\ \E arg \in Held(h, o), T \in FreshCells(h, 2), e \in FreshObj(h) : \E r, x \in T :
                 /\ r # x
                 /\ heap' = hvalue_drop(Alloc(hvalue_ref(h, arg, x), e, r, m,
                                              [k \in {x} |-> 0]), d)
    <2>1. PICK arg \in Held(h, o), T \in FreshCells(h, 2), e \in FreshObj(h) :
               \E r, x \in T :
                 /\ r # x
                 /\ heap' = hvalue_drop(Alloc(hvalue_ref(h, arg, x), e, r, m,
                                              [k \in {x} |-> 0]), d)
      BY <1>4
    <2>2. PICK r \in T, x \in T :
                 /\ r # x
                 /\ heap' = hvalue_drop(Alloc(hvalue_ref(h, arg, x), e, r, m,
                                              [k \in {x} |-> 0]), d)
      BY <2>1
    <2>3. /\ arg \in Cell /\ e \in Obj /\ h.kind[e] = "free"
          /\ r \in Cell /\ h.own[r] = "unused" /\ x \in Cell /\ h.own[x] = "unused"
      BY FreshFacts DEF Held
    <2> DEFINE g == hvalue_ref(h, arg, x)
    <2>4. Good(g) /\ g.own[r] = "unused" /\ g.kind[e] = "free"
      <3>1. Good(g)
        BY <2>3, RefGood
      <3>2. g.own[r] = "unused" /\ g.kind[e] = "free"
        BY <2>2, <2>3 DEF hvalue_ref, Good, Heap
      <3> QED BY <3>1, <3>2
    <2> DEFINE at == [k \in {x} |-> 0]
    <2>5. m \in Kind \ {"free"} /\ DOMAIN at \subseteq Cell /\ \A k \in DOMAIN at : at[k] \in Nat
      BY <1>4, <2>3, KindAssumption DEF Kind
    <2> HIDE DEF g, at, m
    <2>6. Good(Alloc(g, e, r, m, at))
      BY <2>3, <2>4, <2>5, AllocGood
    <2>7. Good(hvalue_drop(Alloc(g, e, r, m, at), d))
      BY <2>6, DropGood
    <2> QED BY <2>2, <2>7 DEF g, at, m
  <1> QED BY <1>1, <1>2, <1>3, <1>4 DEF NativeCall

LEMMA NativeStep ==
  ASSUME Good(heap), CloneContract, NEW c \in Client,
         NEW as \in Operands(Client \ {c}), CallNative(c, as)
  PROVE  Good(heap')
  <1>1. c \in Cell /\ heap.ref[c] \in Obj /\ Client \ {c} \subseteq Cell
    BY DEF Client, Held, CallNative, Is
  <1>2. PICK u \in hvalue_uniq(heap, c) :
          \/ heap' = PutArgs(u[1], u[1].ref[u[2]], as)
          \/ NativeCall(PutArgs(u[1], u[1].ref[u[2]], as), u[1].ref[u[2]], u[2])
    BY DEF CallNative
  <1> DEFINE o == u[1].ref[u[2]]
             h == PutArgs(u[1], o, as)
  <1>3. Good(u[1]) /\ u[2] \in Cell /\ o \in Obj /\ u[1].kind[o] # "free"
    BY <1>1, UniqGood
  <1>4. Good(h) /\ h.ref = u[1].ref
    <2>1. Good(h)
      BY <1>1, <1>3, OperandsDistinct, PutArgsGood
    <2>2. h.ref = u[1].ref
      BY <1>3 DEF PutArgs, Store, Good, Heap
    <2> QED BY <2>1, <2>2
  <1>5. h.own[u[2]] # "unused"
    <2> HIDE DEF h
    <2> QED BY <1>3, <1>4, WordAssumption DEF Good, UnusedEmpty
  <1> HIDE DEF h
  <1>6. CASE heap' = h
    BY <1>6, <1>4
  <1>7. CASE NativeCall(h, o, u[2])
    <2> HIDE DEF o
    <2> QED BY <1>7, <1>3, <1>4, <1>5, NativeResult
  <1> QED BY <1>2, <1>6, <1>7 DEF h

LEMMA GoodStep ==
  ASSUME Good(heap), CloneContract, [Next]_vars
  PROVE  Good(heap')
  <1>1. Client \subseteq Cell
    BY DEF Client, Held
  <1>2. CASE DropField
    BY <1>2, DropGood DEF DropField, Held
  <1>3. ASSUME NEW c \in FreshCell(heap), NEW w \in Word, MakeScalar(c, w)
        PROVE  Good(heap')
    BY <1>3, FreshFacts, MakeGood DEF MakeScalar
  <1>4. ASSUME NEW o \in FreshObj(heap), NEW c \in FreshCell(heap), Make(o, c)
        PROVE  Good(heap')
    BY <1>4, MakeStep
  <1>5. ASSUME NEW c \in Client, NEW d \in FreshCell(heap), Reference(c, d)
        PROVE  Good(heap')
    BY <1>1, <1>5, FreshFacts, RefGood DEF Reference
  <1>6. ASSUME NEW c \in Client, Drop(c) PROVE Good(heap')
    BY <1>1, <1>6, DropGood DEF Drop
  <1>7. ASSUME NEW c \in Client, Clone(c) PROVE Good(heap')
    <2>1. c \in Cell /\ heap.ref[c] \in Obj /\ heap.kind[heap.ref[c]] # "free"
      BY <1>1, <1>7, FreeUnreferenced DEF Clone
    <2> QED BY <1>7, <2>1, ClonesGood DEF Clone
  <1>8. ASSUME NEW c \in Client, Take(c) PROVE Good(heap')
    BY <1>8, TakeStep
  <1>9. ASSUME NEW c \in Client, Call(c) PROVE Good(heap')
    BY <1>9, ClosureStep, NativeStep DEF Call
  <1>10. ASSUME NEW c \in Client, NEW d \in Client, BindNil(c, d) PROVE Good(heap')
    <2>1. heap' \in Heap
      BY <1>1, <1>10 DEF BindNil, Good, Heap, Holder
    <2> QED BY <1>1, <1>10, <2>1, MoveGood DEF BindNil, Good, Heap
  <1>11. CASE UNCHANGED vars
    BY <1>11 DEF vars
  <1> QED BY <1>2, <1>3, <1>4, <1>5, <1>6, <1>7, <1>8, <1>9, <1>10, <1>11 DEF Next

LEMMA AlwaysGood == CloneContract /\ Spec => []Good(heap)
  <1>1. Init => Good(heap)
    BY EmptyGood DEF Init
  <1>2. CloneContract /\ Good(heap) /\ [Next]_vars => Good(heap)'
    BY GoodStep
  <1>3. CASE CloneContract
    <2>1. Good(heap) /\ [Next]_vars => Good(heap)'
      BY <1>2, <1>3
    <2> QED BY <1>1, <2>1, PTL DEF Spec
  <1>4. CASE ~CloneContract
    BY <1>4, PTL
  <1> QED BY <1>3, <1>4

-----------------------------------------------------------------------------
(* Every heap the client can reach is well formed (TypeOK): in particular  *)
(* no count is ever decremented below zero.                                *)
THEOREM HeapWellFormed == CloneContract /\ Spec => []TypeOK
  BY AlwaysGood, PTL DEF Good, TypeOK

(* The count in hvalue_header is always the number of HValues that refer   *)
(* to the object (RcExact), so that hvalue_drop frees it with its last     *)
(* reference and never before.                                             *)
THEOREM CountsExact == CloneContract /\ Spec => []RcExact
  <1>1. Good(heap) => RcExact
    BY DEF Good, Counted, RcExact
  <1> QED BY <1>1, AlwaysGood, PTL

(* No HValue refers to freed memory and no field of a freed object is      *)
(* still held by it (NoDangling).                                          *)
THEOREM NothingDangles == CloneContract /\ Spec => []NoDangling
  <1>1. Good(heap) => NoDangling
    BY FreeUnreferenced DEF Good, OwnersLive, NoDangling
  <1> QED BY <1>1, AlwaysGood, PTL

-----------------------------------------------------------------------------
(* Every action keeps the shape, and what is shared as it is. *)

Frozen(h, g) == \A p \in Obj : h.rc[p] > 1 => Untouched(h, g, p)

LEMMA SharedLive ==
  ASSUME NEW h, Shape(h), NEW p \in Obj, h.rc[p] > 1
  PROVE  h.kind[p] # "free"
  BY DEF Shape, Good, FreedAtZero

LEMMA MakeKeepsShape ==
  ASSUME Shape(heap), NEW o \in FreshObj(heap), NEW c \in FreshCell(heap), Make(o, c)
  PROVE  Shape(heap') /\ Frozen(heap, heap')
  <1>1. /\ o \in Obj /\ heap.kind[o] = "free" /\ ~(heap.rc[o] > 1)
        /\ c \in Cell /\ heap.own[c] = "unused"
    BY FreshFacts, SharedLive
  <1>2. Client \subseteq Cell /\ \A k \in Client : heap.own[k] = "client"
    BY DEF Client, Held
  <1> DEFINE ok(g) == Shape(g) /\ \A p \in Obj : p # o => Untouched(heap, g, p)
  <1>3. ASSUME NEW kind \in Kind \ {"free"}, kind \notin Pairs
        PROVE  ok(Alloc(heap, o, c, kind, <<>>))
    <2>1. DOMAIN <<>> = {} /\ 0 \in Nat
      OBVIOUS
    <2>2. NextFields(<<>>, 0, 0)
      BY <2>1 DEF NextFields
    <2> QED BY <1>1, <1>3, <2>1, <2>2, AllocShape
  <1>4. ASSUME NEW kind \in Pairs, NEW h \in Client, NEW t \in Client, h # t
        PROVE  ok(Alloc(heap, o, c, kind, Fields(<<h, t>>, 1)))
    <2>1. kind \in Kind \ {"free"}
      BY DEF Kind, Pairs
    <2> DEFINE as == <<h, t>>
    <2>2. as \in [1..2 -> Client] /\ \A i, j \in 1..2 : as[i] = as[j] => i = j
      BY <1>4
    <2>3. as[1] = h /\ as[2] = t
      OBVIOUS
    <2> HIDE DEF as
    <2>4. DOMAIN Fields(as, 0 + 1) = Range(as) /\ NextFields(Fields(as, 0 + 1), 0, 2)
      BY <2>2, FieldsNext
    <2>5. 0 + 1 = 1
      OBVIOUS
    <2>6. DOMAIN Fields(as, 1) = Range(as) /\ NextFields(Fields(as, 1), 0, 2)
      BY <2>4, <2>5, Zenon
    <2>7. Range(as) \subseteq Client
      BY <2>2 DEF Range
    <2>8. ok(Alloc(heap, o, c, kind, Fields(as, 1)))
      <3> DEFINE at == Fields(as, 1)
      <3>1. DOMAIN at \subseteq Cell /\ \A k \in DOMAIN at : heap.own[k] = "client"
        BY <1>2, <2>6, <2>7
      <3>2. NextFields(at, 0, 2) /\ 2 \in Nat
        BY <2>6
      <3> HIDE DEF at
      <3>3. ok(Alloc(heap, o, c, kind, at))
        BY <1>1, <2>1, <3>1, <3>2, AllocShape
      <3> QED BY <3>3 DEF at
    <2> QED BY <2>8 DEF as
  <1>5. ASSUME NEW as \in Operands(Client)
        PROVE  ok(Alloc(heap, o, c, "tuple", Fields(as, 1)))
    <2>1. "tuple" \in Kind \ {"free"} /\ "tuple" \notin Pairs /\ 0 + 1 = 1 /\ 0 \in Nat
      BY DEF Kind, Pairs
    <2>2. PICK m \in Nat : /\ DOMAIN Fields(as, 0 + 1) \subseteq Client
                           /\ NextFields(Fields(as, 0 + 1), 0, m)
      BY <2>1, OperandsDistinct, OperandsNext
    <2> DEFINE at == Fields(as, 1)
    <2>3. DOMAIN at \subseteq Client /\ NextFields(at, 0, m)
      BY <2>1, <2>2, Zenon
    <2> HIDE DEF at
    <2>4. DOMAIN at \subseteq Cell /\ \A k \in DOMAIN at : heap.own[k] = "client"
      BY <1>2, <2>3
    <2>5. ok(Alloc(heap, o, c, "tuple", at))
      BY <1>1, <2>1, <2>3, <2>4, AllocShape
    <2> QED BY <2>5 DEF at
  <1>6. \E g : ok(g) /\ heap' = g
    <2> HIDE DEF ok
    <2>1. CASE MakeString(o, c)
      <3>1. "string" \in Kind \ {"free"} /\ "string" \notin Pairs
        BY DEF Kind, Pairs
      <3> QED BY <1>3, <2>1, <3>1 DEF MakeString
    <2>2. CASE \E fn \in Fn : MakeClosure(o, c, fn)
      BY <1>3, <2>2, KindAssumption DEF MakeClosure, Kind, Pairs
    <2>3. CASE \E m \in Native : MakeNative(o, c, m)
      BY <1>3, <2>3, KindAssumption DEF MakeNative, Kind, Pairs
    <2>4. CASE \E h, t \in Client : MakeCons(o, c, h, t) \/ BindEffect(o, c, h, t)
      BY <1>4, <2>4 DEF MakeCons, BindEffect, Pairs
    <2>5. CASE \E as \in Operands(Client) : MakeTuple(o, c, as)
      BY <1>5, <2>5 DEF MakeTuple
    <2> QED BY <2>1, <2>2, <2>3, <2>4, <2>5 DEF Make
  <1> QED BY <1>1, <1>6 DEF Frozen

LEMMA TakeKeepsShape ==
  ASSUME Shape(heap), NEW c \in Client, Take(c)
  PROVE  Shape(heap') /\ Frozen(heap, heap')
  <1>1. ASSUME NEW T \in FreshCells(heap, 2), NEW head \in T, NEW tail \in T,
               Uncons(c, head, tail)
        PROVE  Shape(heap') /\ Frozen(heap, heap')
    <2>1. PICK h \in Held(heap, heap.ref[c]), t \in Held(heap, heap.ref[c]) :
            heap' = hvalue_drop(hvalue_ref(hvalue_ref(heap, h, head), t, tail), c)
      BY <1>1 DEF Uncons
    <2>2. /\ h \in Cell /\ t \in Cell /\ c \in Cell /\ head # tail
          /\ head \in Cell /\ heap.own[head] = "unused"
          /\ tail \in Cell /\ heap.own[tail] = "unused"
          /\ heap.own[c] = "client"
      BY <1>1, FreshFacts DEF Held, Client, Uncons
    <2> DEFINE h1 == hvalue_ref(heap, h, head)
               h2 == hvalue_ref(h1, t, tail)
               g == hvalue_drop(h2, c)
    <2>3. /\ Shape(h1) /\ h1.own[tail] = "unused" /\ h1.own[c] = "client"
          /\ \A p \in Obj : Untouched(heap, h1, p) /\ (heap.rc[p] > 1 => h1.rc[p] > 1)
      BY <2>2, RefShape
    <2> HIDE DEF h1
    <2>4. /\ Shape(h2) /\ h2.own[c] = "client"
          /\ \A p \in Obj : Untouched(h1, h2, p) /\ (h1.rc[p] > 1 => h2.rc[p] > 1)
      BY <2>2, <2>3, RefShape
    <2> HIDE DEF h2
    <2>5. h2.own[c] \notin Obj
      BY <2>4, HolderAssumption DEF Holder
    <2>6. Shape(g) /\ \A p \in Obj : h2.rc[p] > 1 => Untouched(h2, g, p)
      BY <2>2, <2>4, <2>5, DropShape
    <2> HIDE DEF g
    <2>7. ASSUME NEW p \in Obj, heap.rc[p] > 1 PROVE Untouched(heap, g, p)
      <3>1. Untouched(heap, h1, p) /\ Untouched(h1, h2, p) /\ Untouched(h2, g, p)
        BY <2>3, <2>4, <2>6, <2>7
      <3>2. Untouched(heap, h2, p)
        BY <3>1, UntouchedTwice
      <3> QED BY <3>1, <3>2, UntouchedTwice
    <2>8. heap' = g
      BY <2>1 DEF g, h1, h2
    <2> QED BY <2>6, <2>7, <2>8 DEF Frozen
  <1>2. ASSUME NEW d \in FreshCell(heap), NEW i, TupleGet(c, i, d)
        PROVE  Shape(heap') /\ Frozen(heap, heap')
    <2>1. PICK k \in Held(heap, heap.ref[c]) : heap' = hvalue_ref(heap, k, d)
      BY <1>2 DEF TupleGet
    <2>2. k \in Cell /\ d \in Cell /\ heap.own[d] = "unused"
      BY FreshFacts DEF Held
    <2>3. /\ Shape(hvalue_ref(heap, k, d))
          /\ \A p \in Obj : Untouched(heap, hvalue_ref(heap, k, d), p)
      BY <2>2, RefShape
    <2> QED BY <2>1, <2>3 DEF Frozen
  <1> QED BY <1>1, <1>2 DEF Take

LEMMA ClosureKeepsShape ==
  ASSUME Shape(heap), CloneContract, NEW c \in Client,
         NEW as \in Operands(Client \ {c}), CallClosure(c, as)
  PROVE  Shape(heap') /\ Frozen(heap, heap')
  <1>1. /\ c \in Cell /\ heap.own[c] = "client" /\ heap.ref[c] \in Obj
        /\ heap.kind[heap.ref[c]] \in Fn
        /\ \A k \in Client \ {c} : k \in Cell /\ heap.own[k] = "client" /\ k # c
    BY DEF Client, Held, CallClosure, Is
  <1>2. PICK u \in hvalue_uniq(heap, c) :
          \/ heap' = PutArgs(u[1], u[1].ref[u[2]], as)
          \/ heap' = hvalue_drop(TakeArgs(u[1], u[1].ref[u[2]]), u[2])
    BY DEF CallClosure
  <1> DEFINE h == u[1]
             d == u[2]
             o == h.ref[d]
  <1>3. /\ Shape(h) /\ d \in Cell /\ h.own[d] = "client"
        /\ o \in Obj /\ h.kind[o] # "free" /\ h.kind[o] = heap.kind[heap.ref[c]]
        /\ \A k \in Cell : h.ref[k] = o => k = d
        /\ \A k \in Cell : heap.own[k] = "client" /\ k # c => k # d /\ h.own[k] = "client"
        /\ \A p \in Obj : heap.rc[p] > 1 => p # o /\ Untouched(heap, h, p)
    BY <1>1, UniqShape
  <1>4. h.kind[o] \notin Pairs
    BY <1>1, <1>3, KindAssumption DEF Pairs
  <1>5. heap' = PutArgs(h, o, as) \/ heap' = hvalue_drop(TakeArgs(h, o), d)
    BY <1>2
  <1>6. h.ref[d] = o
    OBVIOUS
  <1> HIDE DEF h, d, o
  <1>7. ASSUME heap' = PutArgs(h, o, as) PROVE Shape(heap') /\ Frozen(heap, heap')
    <2>1. /\ Client \ {c} \subseteq Cell /\ d \notin Client \ {c}
          /\ \A k \in Client \ {c} : h.own[k] = "client"
      BY <1>1, <1>3
    <2>2. Filled(h, PutArgs(h, o, as), o, d)
      BY <1>3, <1>4, <1>6, <2>1, OperandsDistinct, PutArgsShape
    <2> QED BY <1>3, <1>7, <2>2, UntouchedTwice DEF Filled, Frozen
  <1>8. ASSUME heap' = hvalue_drop(TakeArgs(h, o), d) PROVE Shape(heap') /\ Frozen(heap, heap')
    <2> DEFINE t == TakeArgs(h, o)
               g == hvalue_drop(t, d)
    <2>1. /\ Shape(t) /\ t.ref = h.ref /\ t.own[d] = "client"
          /\ \A p \in Obj : p # o => Untouched(h, t, p)
      BY <1>3, <1>4, TakeArgsShape
    <2> HIDE DEF t
    <2>2. t.own[d] \notin Obj /\ t.ref[d] = o
      BY <1>6, <2>1, HolderAssumption DEF Holder
    <2>3. Shape(g) /\ \A p \in Obj : p # o => Untouched(t, g, p)
      BY <1>3, <2>1, <2>2, DropShape
    <2> HIDE DEF g
    <2>4. ASSUME NEW p \in Obj, heap.rc[p] > 1 PROVE Untouched(heap, g, p)
      <3>1. Untouched(heap, h, p) /\ Untouched(h, t, p) /\ Untouched(t, g, p)
        BY <1>3, <2>1, <2>3, <2>4
      <3>2. Untouched(heap, t, p)
        BY <3>1, UntouchedTwice
      <3> QED BY <3>1, <3>2, UntouchedTwice
    <2>5. heap' = g
      BY <1>8 DEF g, t
    <2> QED BY <2>3, <2>4, <2>5 DEF Frozen
  <1> QED BY <1>5, <1>7, <1>8

(* A native that has all its arguments spares every object but itself. *)
LEMMA NativeSpares ==
  ASSUME NEW h, Shape(h), NEW o \in Obj, NEW d \in Cell, h.own[d] = "client",
         h.ref[d] = o, NativeCall(h, o, d)
  PROVE  /\ Shape(heap')
         /\ \A p \in Obj : p # o /\ h.kind[p] # "free" => Untouched(h, heap', p)
  <1> DEFINE spares(f, g) ==
               Shape(g) /\ \A p \in Obj : p # o /\ h.kind[p] # "free" => Untouched(f, g, p)
  <1>0. "client" \notin Obj
    BY HolderAssumption DEF Holder
  <1>1. ASSUME NEW g, spares(h, g), g.own[d] = "client", g.ref[d] = o
        PROVE  spares(h, hvalue_drop(g, d))
    <2> DEFINE f == hvalue_drop(g, d)
    <2>1. Shape(f) /\ \A p \in Obj : p # o => Untouched(g, f, p)
      BY <1>0, <1>1, DropShape
    <2> HIDE DEF f
    <2>2. spares(h, f)
      BY <1>1, <2>1, UntouchedTwice
    <2> QED BY <2>2 DEF f
  <1>2. ASSUME NEW arg \in Held(h, o), NEW r \in FreshCell(h)
        PROVE  spares(h, hvalue_drop(hvalue_ref(h, arg, r), d))
    <2> DEFINE g == hvalue_ref(h, arg, r)
    <2>1. arg \in Cell /\ r \in Cell /\ h.own[r] = "unused" /\ r # d
      BY FreshFacts DEF Held
    <2>2. spares(h, g) /\ g.own[d] = "client" /\ g.ref[d] = o
      BY <2>1, RefShape
    <2> HIDE DEF g
    <2>3. spares(h, hvalue_drop(g, d))
      BY <1>1, <2>2
    <2> QED BY <2>3 DEF g
  <1>3. ASSUME NEW r \in FreshCell(h), NEW w \in Word
        PROVE  spares(h, hvalue_drop(hvalue_make(h, r, w), d))
    <2> DEFINE g == hvalue_make(h, r, w)
    <2>1. r \in Cell /\ h.own[r] = "unused" /\ r # d
      BY FreshFacts
    <2>2. spares(h, g) /\ g.own[d] = "client" /\ g.ref[d] = o
      BY <2>1, MakeShape
    <2> HIDE DEF g
    <2>3. spares(h, hvalue_drop(g, d))
      BY <1>1, <2>2
    <2> QED BY <2>3 DEF g
  <1>4. ASSUME NEW r \in FreshCell(h), NEW e \in FreshObj(h)
        PROVE  spares(h, [Alloc(h, e, r, "string", <<>>) EXCEPT !.own[d] = "lost"])
    <2> DEFINE g == Alloc(h, e, r, "string", <<>>)
               f == [g EXCEPT !.own[d] = "lost"]
    <2>1. /\ r \in Cell /\ h.own[r] = "unused" /\ r # d
          /\ e \in Obj /\ h.kind[e] = "free"
      BY FreshFacts
    <2>2. /\ DOMAIN <<>> = {} /\ 0 \in Nat
          /\ "string" \in Kind \ {"free"} /\ "string" \notin Pairs
      BY DEF Kind, Pairs
    <2>3. NextFields(<<>>, 0, 0)
      BY <2>2 DEF NextFields
    <2>4. Shape(g) /\ \A p \in Obj : p # e => Untouched(h, g, p)
      BY <2>1, <2>2, <2>3, AllocShape
    <2>5. g.own[d] = "client"
      BY <2>1, <2>2, AllocLeaves
    <2> HIDE DEF g
    <2>6. Shape(f) /\ \A p \in Obj : Untouched(g, f, p)
      BY <2>4, <2>5, MoveShape
    <2> HIDE DEF f
    <2>7. spares(h, f)
      BY <2>1, <2>4, <2>6, UntouchedTwice
    <2> QED BY <2>7 DEF f, g
  <1>5. ASSUME NEW m \in Native, NEW arg \in Held(h, o), NEW T \in FreshCells(h, 2),
               NEW e \in FreshObj(h), NEW r \in T, NEW x \in T, r # x
        PROVE  spares(h, hvalue_drop(Alloc(hvalue_ref(h, arg, x), e, r, m,
                                           [k \in {x} |-> 0]), d))
    <2> DEFINE f == hvalue_ref(h, arg, x)
               g == Alloc(f, e, r, m, [k \in {x} |-> 0])
    <2>1. /\ arg \in Cell /\ e \in Obj /\ h.kind[e] = "free"
          /\ r \in Cell /\ h.own[r] = "unused" /\ x \in Cell /\ h.own[x] = "unused"
          /\ r # d /\ x # d
      BY FreshFacts DEF Held
    <2>2. m \in Kind \ {"free"} /\ m \notin Pairs
      BY KindAssumption DEF Kind, Pairs
    <2>3. /\ Shape(f) /\ f.own[r] = "unused" /\ f.own[x] = "client" /\ f.kind[e] = "free"
          /\ f.own[d] = "client" /\ f.ref[d] = o
          /\ \A p \in Obj : Untouched(h, f, p)
      BY <1>5, <2>1, RefShape
    <2> HIDE DEF f
    <2>4. /\ Shape(g)
          /\ \A k \in Cell : k # r /\ k # x => g.own[k] = f.own[k] /\ g.ref[k] = f.ref[k]
          /\ \A p \in Obj : p # e => Untouched(f, g, p)
      BY <2>1, <2>2, <2>3, AllocDataShape
    <2> HIDE DEF g
    <2>5. spares(h, g) /\ g.own[d] = "client" /\ g.ref[d] = o
      BY <2>1, <2>3, <2>4, UntouchedTwice
    <2>6. spares(h, hvalue_drop(g, d))
      BY <1>1, <2>5
    <2> QED BY <2>6 DEF f, g
  <1>6. spares(h, heap')
    <2> HIDE DEF spares
    <2> DEFINE m == NativeMeta[h.kind[o]].call
    <2>1. CASE \E arg \in Held(h, o), r \in FreshCell(h) :
                 heap' = hvalue_drop(hvalue_ref(h, arg, r), d)
      BY <1>2, <2>1
    <2>2. CASE \E r \in FreshCell(h), w \in Word :
                 heap' = hvalue_drop(hvalue_make(h, r, w), d)
      BY <1>3, <2>2
    <2>3. CASE \E r \in FreshCell(h), e \in FreshObj(h) :
                 heap' = [Alloc(h, e, r, "string", <<>>) EXCEPT !.own[d] = "lost"]
      BY <1>4, <2>3
    <2>4. CASE /\ m \in Native
               /\ \E arg \in Held(h, o), T \in FreshCells(h, 2), e \in FreshObj(h) :
                    \E r, x \in T :
                      /\ r # x
                      /\ heap' = hvalue_drop(Alloc(hvalue_ref(h, arg, x), e, r, m,
                                                   [k \in {x} |-> 0]), d)
      <3> HIDE DEF m
      <3>1. PICK arg \in Held(h, o), T \in FreshCells(h, 2), e \in FreshObj(h) :
               \E r, x \in T :
                 /\ r # x
                 /\ heap' = hvalue_drop(Alloc(hvalue_ref(h, arg, x), e, r, m,
                                              [k \in {x} |-> 0]), d)
        BY <2>4
      <3>2. PICK r \in T, x \in T :
                 /\ r # x
                 /\ heap' = hvalue_drop(Alloc(hvalue_ref(h, arg, x), e, r, m,
                                              [k \in {x} |-> 0]), d)
        BY <3>1
      <3>3. spares(h, hvalue_drop(Alloc(hvalue_ref(h, arg, x), e, r, m,
                                        [k \in {x} |-> 0]), d))
        BY <1>5, <2>4, <3>2
      <3> QED BY <3>2, <3>3
    <2> QED BY <2>1, <2>2, <2>3, <2>4 DEF NativeCall
  <1> QED BY <1>6

LEMMA NativeKeepsShape ==
  ASSUME Shape(heap), CloneContract, NEW c \in Client,
         NEW as \in Operands(Client \ {c}), CallNative(c, as)
  PROVE  Shape(heap') /\ Frozen(heap, heap')
  <1>1. /\ c \in Cell /\ heap.own[c] = "client" /\ heap.ref[c] \in Obj
        /\ heap.kind[heap.ref[c]] \in Native
        /\ \A k \in Client \ {c} : k \in Cell /\ heap.own[k] = "client" /\ k # c
    BY DEF Client, Held, CallNative, Is
  <1>2. PICK u \in hvalue_uniq(heap, c) :
          \/ heap' = PutArgs(u[1], u[1].ref[u[2]], as)
          \/ NativeCall(PutArgs(u[1], u[1].ref[u[2]], as), u[1].ref[u[2]], u[2])
    BY DEF CallNative
  <1> DEFINE h == u[1]
             d == u[2]
             o == h.ref[d]
             g == PutArgs(h, o, as)
  <1>3. /\ Shape(h) /\ d \in Cell /\ h.own[d] = "client"
        /\ o \in Obj /\ h.kind[o] # "free" /\ h.kind[o] = heap.kind[heap.ref[c]]
        /\ \A k \in Cell : h.ref[k] = o => k = d
        /\ \A k \in Cell : heap.own[k] = "client" /\ k # c => k # d /\ h.own[k] = "client"
        /\ \A p \in Obj : heap.rc[p] > 1 => p # o /\ Untouched(heap, h, p)
    BY <1>1, UniqShape
  <1>4. h.kind[o] \notin Pairs
    BY <1>1, <1>3, KindAssumption DEF Pairs
  <1>5. heap' = g \/ NativeCall(g, o, d)
    BY <1>2
  <1>6. h.ref[d] = o
    OBVIOUS
  <1> HIDE DEF h, d, o
  <1>7. /\ Client \ {c} \subseteq Cell /\ d \notin Client \ {c}
        /\ \A k \in Client \ {c} : h.own[k] = "client"
    BY <1>1, <1>3
  <1>8. /\ Shape(g) /\ g.ref = h.ref /\ g.own[d] = "client"
        /\ \A p \in Obj : p # o => Untouched(h, g, p)
    <2>1. Filled(h, PutArgs(h, o, as), o, d)
      BY <1>3, <1>4, <1>6, <1>7, OperandsDistinct, PutArgsShape
    <2> QED BY <2>1 DEF Filled
  <1> HIDE DEF g
  <1>9. ASSUME NEW p \in Obj, heap.rc[p] > 1
        PROVE  p # o /\ g.kind[p] # "free" /\ Untouched(heap, g, p)
    <2>1. Untouched(heap, g, p) /\ p # o
      BY <1>3, <1>8, <1>9, UntouchedTwice
    <2> QED BY <1>9, <2>1, SharedLive DEF Untouched
  <1>10. CASE heap' = g
    BY <1>8, <1>9, <1>10 DEF Frozen
  <1>11. CASE NativeCall(g, o, d)
    <2>1. /\ Shape(heap')
          /\ \A p \in Obj : p # o /\ g.kind[p] # "free" => Untouched(g, heap', p)
      BY <1>3, <1>6, <1>8, <1>11, NativeSpares
    <2> QED BY <1>9, <2>1, UntouchedTwice DEF Frozen
  <1> QED BY <1>5, <1>10, <1>11

LEMMA ShapeStep ==
  ASSUME Shape(heap), CloneContract, Next
  PROVE  Shape(heap') /\ Frozen(heap, heap')
  <1>1. /\ \A k \in Client : k \in Cell /\ heap.own[k] = "client"
        /\ "client" \notin Obj /\ "dropping" \notin Obj
    BY HolderAssumption DEF Client, Held, Holder
  <1>2. ASSUME NEW c \in Cell, heap.own[c] \notin Obj, heap' = hvalue_drop(heap, c)
        PROVE  Shape(heap') /\ Frozen(heap, heap')
    BY <1>2, DropShape DEF Frozen
  <1>3. CASE DropField
    BY <1>1, <1>2, <1>3 DEF DropField, Held
  <1>4. ASSUME NEW c \in FreshCell(heap), NEW w \in Word, MakeScalar(c, w)
        PROVE  Shape(heap') /\ Frozen(heap, heap')
    BY <1>4, FreshFacts, MakeShape DEF MakeScalar, Frozen
  <1>5. ASSUME NEW o \in FreshObj(heap), NEW c \in FreshCell(heap), Make(o, c)
        PROVE  Shape(heap') /\ Frozen(heap, heap')
    BY <1>5, MakeKeepsShape
  <1>6. ASSUME NEW c \in Client, NEW d \in FreshCell(heap), Reference(c, d)
        PROVE  Shape(heap') /\ Frozen(heap, heap')
    <2>1. /\ Shape(hvalue_ref(heap, c, d))
          /\ \A p \in Obj : Untouched(heap, hvalue_ref(heap, c, d), p)
      BY <1>1, FreshFacts, RefShape
    <2> QED BY <1>6, <2>1 DEF Reference, Frozen
  <1>7. ASSUME NEW c \in Client, Drop(c) PROVE Shape(heap') /\ Frozen(heap, heap')
    BY <1>1, <1>2, <1>7 DEF Drop
  <1>8. ASSUME NEW c \in Client, Clone(c) PROVE Shape(heap') /\ Frozen(heap, heap')
    <2>1. c \in Cell /\ heap.ref[c] \in Obj /\ heap.kind[heap.ref[c]] # "free"
      BY <1>1, <1>8, FreeUnreferenced DEF Clone, Shape
    <2>2. PICK u \in Clones(heap, heap.ref[c]) : heap' = u[1]
      BY <1>8 DEF Clone
    <2> DEFINE n == u[1].ref[u[2]]
    <2>3. heap.rc[n] = 0 /\ Copied(heap, heap', heap.ref[c], n, u[2])
      BY <2>1, <2>2, ClonesShape
    <2> HIDE DEF n
    <2> QED BY <2>3 DEF Copied, Frozen
  <1>9. ASSUME NEW c \in Client, Take(c) PROVE Shape(heap') /\ Frozen(heap, heap')
    BY <1>9, TakeKeepsShape
  <1>10. ASSUME NEW c \in Client, Call(c) PROVE Shape(heap') /\ Frozen(heap, heap')
    BY <1>10, ClosureKeepsShape, NativeKeepsShape DEF Call
  <1>11. ASSUME NEW c \in Client, NEW d \in Client, BindNil(c, d)
         PROVE  Shape(heap') /\ Frozen(heap, heap')
    BY <1>1, <1>11, MoveShape DEF BindNil, Frozen
  <1> QED BY <1>3, <1>4, <1>5, <1>6, <1>7, <1>8, <1>9, <1>10, <1>11 DEF Next

LEMMA AlwaysShape == CloneContract /\ Spec => []Shape(heap)
  <1>1. Init => Shape(heap)
    BY EmptyShape DEF Init
  <1>2. CASE CloneContract
    <2>1. Shape(heap) /\ [Next]_vars => Shape(heap)'
      BY <1>2, ShapeStep DEF vars
    <2> QED BY <1>1, <2>1, PTL DEF Spec
  <1>3. CASE ~CloneContract
    BY <1>3, PTL
  <1> QED BY <1>2, <1>3

-----------------------------------------------------------------------------
(* No chain of fields leads back to where it started (Acyclic): a new      *)
(* object is referred to by no field, and an object is only filled while   *)
(* the one reference to it is the operand the machine holds.               *)
THEOREM NoCycles == CloneContract /\ Spec => []Acyclic
  <1>1. Shape(heap) => Acyclic
    BY DEF Shape, AcyclicIn, Acyclic, PointsTo, Held
  <1> QED BY <1>1, AlwaysShape, PTL

(* The fields of every live object are numbered from 1 on without a gap, a *)
(* pair has its two (FieldsInOrder), through calls, clones and frees.      *)
THEOREM FieldsStayInOrder == CloneContract /\ Spec => []FieldsInOrder
  <1>1. Shape(heap) => FieldsInOrder
    BY NumberedInOrder DEF Shape, FieldsInOrder
  <1> QED BY <1>1, AlwaysShape, PTL

(* A client that holds nothing, and to which no operation has lost a cell, *)
(* has all its memory back (AllReclaimed): the object that no field refers *)
(* to would have a count of zero.                                          *)
THEOREM MemoryReclaimed == CloneContract /\ Spec => []AllReclaimed
  <1>1. ASSUME Shape(heap), Client = {}, Held(heap, "lost") = {}, Idle PROVE Live(heap) = {}
    <2> SUFFICES ASSUME Live(heap) # {} PROVE FALSE
      OBVIOUS
    <2>1. PICK o \in Live(heap) : \A c \in Cell : heap.own[c] \in Live(heap) => heap.ref[c] # o
      BY <1>1 DEF Shape, AcyclicIn
    <2>2. o \in Obj /\ heap.rc[o] # 0
      BY <1>1 DEF Shape, Good, FreedAtZero, Live
    <2>3. Refs(heap, o) # {}
      BY <1>1, <2>2, FS_EmptySet DEF Shape, Good, Counted
    <2>4. PICK c \in Cell : heap.ref[c] = o
      BY <2>3 DEF Refs
    <2>5. heap.own[c] \in Obj \cup Holder
      BY <1>1 DEF Shape, Good, Heap
    <2>6. heap.own[c] # "unused"
      BY <1>1, <2>2, <2>4, WordAssumption DEF Shape, Good, UnusedEmpty
    <2>7. heap.own[c] \in Live(heap)
      BY <1>1, <2>5, <2>6 DEF Shape, Good, OwnersLive, Live, Client, Idle, Held, Holder
    <2> QED BY <2>1, <2>4, <2>7
  <1>2. Shape(heap) => AllReclaimed
    BY <1>1 DEF AllReclaimed
  <1> QED BY <1>2, AlwaysShape, PTL

(* No step changes an object while two HValues refer to it (SharedFrozen): *)
(* every mutation goes through hvalue_uniq or has the only reference.      *)
THEOREM SharedStayFrozen == CloneContract /\ Spec => SharedFrozen
  <1>1. CASE CloneContract
    <2>1. Shape(heap) /\ [Next]_vars =>
            [\A o \in Obj :
               heap.rc[o] > 1 =>
                 /\ heap'.kind[o] = heap.kind[o]
                 /\ Held(heap', o) = Held(heap, o)
                 /\ \A k \in Held(heap, o) :
                      heap'.ref[k] = heap.ref[k] /\ heap'.slot[k] = heap.slot[k]]_vars
      <3>1. ASSUME Shape(heap), Next PROVE Frozen(heap, heap')
        BY <1>1, <3>1, ShapeStep
      <3> QED BY <3>1 DEF Frozen, Untouched, SameFields
    <2> QED BY <1>1, <2>1, AlwaysShape, PTL DEF Spec, SharedFrozen
  <1>2. CASE ~CloneContract
    BY <1>2, PTL
  <1> QED BY <1>1, <1>2
=============================================================================
