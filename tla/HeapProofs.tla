----------------------------- MODULE HeapProofs -----------------------------
(***************************************************************************)
(* What each operation of Heap does to a heap of any size: the counts stay *)
(* exact, no cycle is built, the fields of an object stay numbered, and    *)
(* nothing is touched but what the operation is about.                     *)
(***************************************************************************)
EXTENDS Heap, FiniteSetTheorems, WellFoundedInduction, TLAPS

CloneContract == \A m \in Native : NativeMeta[m].cloneRefs

(***************************************************************************)
(* The inductive invariant, stated of any heap so that each operation of   *)
(* Heap has a lemma of its own.  To the counts it adds that an unused cell *)
(* refers to nothing (writing it forgets no reference) and that an object  *)
(* is freed exactly when its count is zero.                                *)
(***************************************************************************)
Counted(h) == \A o \in Obj : h.rc[o] = Cardinality(Refs(h, o))
FreedAtZero(h) == \A o \in Obj : h.kind[o] = "free" <=> h.rc[o] = 0
UnusedEmpty(h) == \A c \in Cell : h.own[c] = "unused" => h.ref[c] = Blank
OwnersLive(h) == \A c \in Cell : h.own[c] \in Obj => h.kind[h.own[c]] # "free"
Good(h) ==
  h \in Heap /\ Counted(h) /\ FreedAtZero(h) /\ UnusedEmpty(h) /\ OwnersLive(h)

LEMMA RefsFinite ==
  ASSUME NEW h, NEW o
  PROVE  IsFiniteSet(Refs(h, o)) /\ Cardinality(Refs(h, o)) \in Nat
  BY CellAssumption, FS_Subset, FS_CardinalityType DEF Refs

(* Nothing refers to a freed object. *)
LEMMA FreeUnreferenced ==
  ASSUME NEW h, Good(h), NEW o \in Obj, h.kind[o] = "free"
  PROVE  \A c \in Cell : h.ref[c] # o
  <1>1. Cardinality(Refs(h, o)) = 0
    BY DEF Good, Counted, FreedAtZero
  <1>2. Refs(h, o) = {}
    BY <1>1, RefsFinite, FS_EmptySet
  <1> QED BY <1>2 DEF Refs

LEMMA EmptyGood == Good(EmptyHeap)
  <1>1. EmptyHeap \in Heap
    BY DEF EmptyHeap, Heap, Holder, Kind
  <1>2. \A o \in Obj : Refs(EmptyHeap, o) = {}
    BY WordAssumption DEF Refs, EmptyHeap
  <1>3. Counted(EmptyHeap)
    BY <1>2, FS_EmptySet DEF Counted, EmptyHeap
  <1> QED BY <1>1, <1>3, HolderAssumption DEF Good, FreedAtZero, UnusedEmpty, OwnersLive, EmptyHeap, Holder

LEMMA MakeGood ==
  ASSUME NEW h, Good(h), NEW c \in Cell, h.own[c] = "unused", NEW w \in Word
  PROVE  Good(hvalue_make(h, c, w))
  <1> DEFINE g == hvalue_make(h, c, w)
  <1>1. g \in Heap /\ g.rc = h.rc /\ g.kind = h.kind
    BY DEF Good, Heap, hvalue_make, Holder
  <1>2. /\ \A k \in Cell : g.ref[k] = IF k = c THEN w ELSE h.ref[k]
        /\ \A k \in Cell : g.own[k] = IF k = c THEN "client" ELSE h.own[k]
    BY DEF Good, Heap, hvalue_make
  <1>3. h.ref[c] = Blank
    BY DEF Good, UnusedEmpty
  <1>4. ASSUME NEW o \in Obj PROVE Refs(g, o) = Refs(h, o)
    BY <1>2, <1>3, WordAssumption DEF Refs
  <1>5. Counted(g)
    <2> HIDE DEF g
    <2> QED BY <1>1, <1>4 DEF Counted, Good
  <1> QED BY <1>1, <1>2, <1>5, HolderAssumption
          DEF Good, FreedAtZero, UnusedEmpty, OwnersLive, Holder

LEMMA RefGood ==
  ASSUME NEW h, Good(h), NEW c \in Cell, NEW d \in Cell, h.own[d] = "unused"
  PROVE  Good(hvalue_ref(h, c, d))
  <1> DEFINE g == hvalue_ref(h, c, d)
  <1>1. g \in Heap
    BY DEF Good, Heap, hvalue_ref, Holder
  <1>2. /\ \A k \in Cell : g.ref[k] = IF k = d THEN h.ref[c] ELSE h.ref[k]
        /\ \A k \in Cell : g.own[k] = IF k = d THEN "client" ELSE h.own[k]
        /\ \A o \in Obj : g.rc[o] = IF o = h.ref[c] THEN h.rc[o] + 1 ELSE h.rc[o]
        /\ g.kind = h.kind
    BY DEF Good, Heap, hvalue_ref
  <1>3. h.ref[d] = Blank
    BY DEF Good, UnusedEmpty
  <1>4. ASSUME NEW o \in Obj PROVE g.rc[o] = Cardinality(Refs(g, o))
    <2>1. CASE o = h.ref[c]
      <3>1. Refs(g, o) = Refs(h, o) \cup {d} /\ d \notin Refs(h, o)
        BY <2>1, <1>2, <1>3, WordAssumption DEF Refs
      <3>2. Cardinality(Refs(g, o)) = Cardinality(Refs(h, o)) + 1
        <4> HIDE DEF g
        <4> QED BY <3>1, RefsFinite, FS_AddElement
      <3>3. h.rc[o] = Cardinality(Refs(h, o))
        BY DEF Good, Counted
      <3> HIDE DEF g
      <3> QED BY <3>2, <3>3, <2>1, <1>2
    <2>2. CASE o # h.ref[c]
      <3>1. Refs(g, o) = Refs(h, o)
        BY <2>2, <1>2, <1>3, WordAssumption DEF Refs
      <3> QED BY <3>1, <2>2, <1>2 DEF Good, Counted
    <2> QED BY <2>1, <2>2
  <1>5. FreedAtZero(g)
    <2> SUFFICES ASSUME NEW o \in Obj PROVE g.kind[o] = "free" <=> g.rc[o] = 0
      BY DEF FreedAtZero
    <2>1. CASE o = h.ref[c]
      <3>1. h.kind[o] # "free"
        BY <2>1, FreeUnreferenced
      <3>2. h.rc[o] \in Nat
        BY DEF Good, Heap
      <3> QED BY <3>1, <3>2, <2>1, <1>2
    <2>2. CASE o # h.ref[c]
      BY <2>2, <1>2 DEF Good, FreedAtZero
    <2> QED BY <2>1, <2>2
  <1> QED BY <1>1, <1>2, <1>4, <1>5, HolderAssumption
          DEF Good, Counted, UnusedEmpty, OwnersLive, Holder

LEMMA DropGood ==
  ASSUME NEW h, Good(h), NEW c \in Cell
  PROVE  Good(hvalue_drop(h, c))
  <1> DEFINE g == hvalue_drop(h, c)
             o == h.ref[c]
             frees == o \in Obj /\ h.rc[o] = 1
  <1>0. /\ \A p \in Obj : h.rc[p] \in Nat /\ h.rc[p] = Cardinality(Refs(h, p))
        /\ o \in Obj \cup Word \cup {Blank}
    BY DEF Good, Heap, Counted
  <1>1. o \in Obj => h.rc[o] > 0 /\ h.kind[o] # "free"
    <2> SUFFICES ASSUME o \in Obj PROVE h.kind[o] # "free"
      BY <1>0 DEF Good, FreedAtZero
    <2> QED BY FreeUnreferenced
  <1>2. /\ \A k \in Cell : g.ref[k] = IF k = c THEN Blank ELSE h.ref[k]
        /\ \A k \in Cell : \/ g.own[k] \in {"unused", "dropping", "lost"}
                            \/ (g.own[k] = h.own[k] /\ (frees => h.own[k] # o))
        /\ \A k \in Cell : g.own[k] = "unused" => (k = c \/ h.own[k] = "unused")
        /\ \A p \in Obj : g.rc[p] = IF p = o THEN h.rc[p] - 1 ELSE h.rc[p]
        /\ \A p \in Obj : g.kind[p] = IF p = o /\ frees THEN "free" ELSE h.kind[p]
    BY DEF Good, Heap, hvalue_drop, IsLast
  <1>3. g \in Heap
    <2>1. g.ref \in [Cell -> Obj \cup Word \cup {Blank}] /\ g.slot \in [Cell -> Nat]
      BY DEF Good, Heap, hvalue_drop, IsLast
    <2>2. g.own \in [Cell -> Obj \cup Holder]
      BY DEF Good, Heap, hvalue_drop, IsLast, Holder
    <2>3. g.rc \in [Obj -> Nat]
      BY <1>0, <1>1 DEF hvalue_drop, IsLast
    <2>4. g.kind \in [Obj -> Kind]
      BY DEF Good, Heap, hvalue_drop, IsLast, Kind
    <2> QED BY <2>1, <2>2, <2>3, <2>4 DEF Heap, hvalue_drop, IsLast
  <1>4. ASSUME NEW p \in Obj PROVE g.rc[p] = Cardinality(Refs(g, p))
    <2>1. Refs(g, p) = IF p = o THEN Refs(h, p) \ {c} ELSE Refs(h, p)
      BY <1>2, WordAssumption DEF Refs
    <2>2. p = o => c \in Refs(h, p)
      BY DEF Refs
    <2> HIDE DEF g
    <2>3. Cardinality(Refs(g, p)) =
            IF p = o THEN Cardinality(Refs(h, p)) - 1 ELSE Cardinality(Refs(h, p))
      BY <2>1, <2>2, RefsFinite, FS_RemoveElement
    <2> QED BY <2>3, <1>0, <1>2
  <1>5. FreedAtZero(g)
    BY <1>0, <1>1, <1>2 DEF FreedAtZero, Good
  <1>6. UnusedEmpty(g)
    BY <1>2 DEF UnusedEmpty, Good
  <1>7. OwnersLive(g)
    BY <1>2, HolderAssumption DEF OwnersLive, Good, Holder
  <1> QED BY <1>3, <1>4, <1>5, <1>6, <1>7 DEF Good, Counted

(* Moving cells, none of them to or from "unused", disturbs no count. *)
LEMMA MoveGood ==
  ASSUME NEW h, Good(h), NEW g \in Heap,
         g.ref = h.ref, g.rc = h.rc, g.kind = h.kind,
         \A k \in Cell : \/ g.own[k] = h.own[k]
                         \/ g.own[k] \in Obj /\ h.kind[g.own[k]] # "free"
                         \/ g.own[k] \in {"client", "dropping", "lost"}
  PROVE  Good(g)
  <1>1. Counted(g)
    BY DEF Counted, Good, Refs
  <1>2. FreedAtZero(g)
    BY DEF FreedAtZero, Good
  <1>3. UnusedEmpty(g)
    BY HolderAssumption DEF UnusedEmpty, Good, Holder
  <1>4. OwnersLive(g)
    BY HolderAssumption DEF OwnersLive, Good, Holder
  <1> QED BY <1>1, <1>2, <1>3, <1>4 DEF Good

LEMMA StoreGood ==
  ASSUME NEW h, Good(h), NEW o \in Obj, h.kind[o] # "free",
         NEW at, DOMAIN at \subseteq Cell, \A k \in DOMAIN at : at[k] \in Nat
  PROVE  Good(Store(h, o, at))
  <1> DEFINE g == Store(h, o, at)
  <1>1. g \in Heap /\ g.ref = h.ref /\ g.rc = h.rc /\ g.kind = h.kind
    BY DEF Good, Heap, Store
  <1>2. \A k \in Cell : g.own[k] = h.own[k] \/ g.own[k] = o
    BY DEF Good, Heap, Store
  <1> HIDE DEF g
  <1>3. Good(g)
    BY <1>1, <1>2, MoveGood
  <1> QED BY <1>3 DEF g

LEMMA TakeArgsGood ==
  ASSUME NEW h, Good(h), NEW o \in Obj
  PROVE  Good(TakeArgs(h, o))
  <1> DEFINE g == TakeArgs(h, o)
  <1>1. g \in Heap /\ g.ref = h.ref /\ g.rc = h.rc /\ g.kind = h.kind
    BY DEF Good, Heap, TakeArgs, Holder
  <1>2. \A k \in Cell : g.own[k] = h.own[k] \/ g.own[k] = "client"
    BY DEF Good, Heap, TakeArgs
  <1> HIDE DEF g
  <1>3. Good(g)
    BY <1>1, <1>2, MoveGood
  <1> QED BY <1>3 DEF g

(* malloc, before the fields are stored. *)
Bare(h, o, c, kind) ==
  [h EXCEPT !.ref[c] = o, !.own[c] = "client", !.rc[o] = 1, !.kind[o] = kind]

LEMMA BareGood ==
  ASSUME NEW h, Good(h), NEW o \in Obj, h.kind[o] = "free",
         NEW c \in Cell, h.own[c] = "unused", NEW kind \in Kind \ {"free"}
  PROVE  Good(Bare(h, o, c, kind)) /\ Bare(h, o, c, kind).kind[o] # "free"
  <1> DEFINE g == Bare(h, o, c, kind)
  <1>1. g \in Heap
    BY DEF Good, Heap, Holder, Bare
  <1>2. /\ \A k \in Cell : g.ref[k] = IF k = c THEN o ELSE h.ref[k]
        /\ \A k \in Cell : g.own[k] = IF k = c THEN "client" ELSE h.own[k]
        /\ \A p \in Obj : g.rc[p] = IF p = o THEN 1 ELSE h.rc[p]
        /\ \A p \in Obj : g.kind[p] = IF p = o THEN kind ELSE h.kind[p]
    BY DEF Good, Heap, Bare
  <1>3. h.ref[c] = Blank /\ \A k \in Cell : h.ref[k] # o
    BY FreeUnreferenced DEF Good, UnusedEmpty
  <1> HIDE DEF g
  <1>4. ASSUME NEW p \in Obj PROVE g.rc[p] = Cardinality(Refs(g, p))
    <2>1. Refs(g, p) = IF p = o THEN {c} ELSE Refs(h, p)
      BY <1>2, <1>3, WordAssumption DEF Refs
    <2>2. Cardinality({c}) = 1
      BY FS_Singleton
    <2> QED BY <2>1, <2>2, <1>2 DEF Good, Counted
  <1>5. FreedAtZero(g) /\ UnusedEmpty(g)
    BY <1>2 DEF Good, FreedAtZero, UnusedEmpty
  <1>6. OwnersLive(g)
    BY <1>2, HolderAssumption DEF Good, OwnersLive, Holder
  <1>7. Good(g)
    BY <1>1, <1>4, <1>5, <1>6 DEF Good, Counted
  <1> QED BY <1>2, <1>7 DEF g

LEMMA AllocGood ==
  ASSUME NEW h, Good(h), NEW o \in Obj, h.kind[o] = "free",
         NEW c \in Cell, h.own[c] = "unused", NEW kind \in Kind \ {"free"},
         NEW at, DOMAIN at \subseteq Cell, \A k \in DOMAIN at : at[k] \in Nat
  PROVE  Good(Alloc(h, o, c, kind, at))
  <1> DEFINE g == Bare(h, o, c, kind)
  <1>1. Good(g) /\ g.kind[o] # "free"
    BY BareGood
  <1> HIDE DEF g
  <1>2. Good(Store(g, o, at))
    BY <1>1, StoreGood
  <1> QED BY <1>2 DEF Alloc, Bare, g

(* The copies of the fields that refer to p are as many as those fields.   *)
LEMMA CloneGood ==
  ASSUME NEW h, Good(h), CloneContract,
         NEW o \in Obj, NEW n \in Obj, h.kind[o] # "free", h.kind[n] = "free",
         NEW T, T \subseteq Held(h, "unused"), NEW d \in T,
         NEW f \in Bijections(Held(h, o), T \ {d})
  PROVE  Good(hvalue_clone(h, o, n, d, f))
  <1> DEFINE g == hvalue_clone(h, o, n, d, f)
             S == Held(h, o)
             isCopy(c) == \E k \in S : f[k] = c
             extra(p) == {k \in S : h.ref[k] = p}
             copies(p) == {f[k] : k \in extra(p)}
  <1>0. /\ f \in [S -> T \ {d}] /\ \A x, y \in S : f[x] = f[y] => x = y
        /\ DOMAIN f = S /\ d \in Cell /\ h.own[d] = "unused"
        /\ \A k \in S : f[k] \in Cell /\ h.own[f[k]] = "unused" /\ f[k] # d
        /\ S \subseteq Cell
    BY DEF Bijections, Held
  <1>1. /\ \A k \in S : CloneRefs(h, o, k)
        /\ \A c \in Cell : h.own[c] = "unused" => h.ref[c] = Blank
        /\ \A c \in Cell : h.ref[c] # n
    BY FreeUnreferenced DEF CloneContract, CloneRefs, Good, UnusedEmpty
  <1>2. /\ \A c \in Cell : g.ref[c] =
             IF c = d THEN n
             ELSE IF isCopy(c) THEN h.ref[CHOOSE k \in S : f[k] = c] ELSE h.ref[c]
        /\ \A c \in Cell : \/ g.own[c] \in {"client", "lost"}
                           \/ g.own[c] = n
                           \/ (g.own[c] = h.own[c] /\ c # d /\ ~isCopy(c))
    BY <1>0 DEF Good, Heap, hvalue_clone
  <1>3. /\ \A p \in Obj : g.rc[p] =
             IF p = n THEN 1 ELSE h.rc[p] + Cardinality(extra(p))
        /\ \A p \in Obj : g.kind[p] = IF p = n THEN h.kind[o] ELSE h.kind[p]
    <2>1. \A p : {k \in DOMAIN f : CloneRefs(h, o, k) /\ h.ref[k] = p} = extra(p)
      BY <1>0, <1>1
    <2> QED BY <2>1 DEF Good, Heap, hvalue_clone
  <1>4. \A p \in Obj : IsFiniteSet(extra(p)) /\ Cardinality(extra(p)) \in Nat
    BY <1>0, CellAssumption, FS_Subset, FS_CardinalityType
  <1>5. g \in Heap
    <2>1. g.ref \in [Cell -> Obj \cup Word \cup {Blank}]
      <3>1. \A c \in Cell : isCopy(c) => (CHOOSE k \in S : f[k] = c) \in Cell
        BY <1>0
      <3> QED BY <3>1, <1>0 DEF Good, Heap, hvalue_clone
    <2>2. g.own \in [Cell -> Obj \cup Holder]
      BY DEF Good, Heap, hvalue_clone, Holder
    <2>3. g.slot \in [Cell -> Nat]
      <3>1. \A c \in Cell : isCopy(c) => (CHOOSE k \in S : f[k] = c) \in Cell
        BY <1>0
      <3> QED BY <3>1, <1>0 DEF Good, Heap, hvalue_clone
    <2>4. g.rc \in [Obj -> Nat]
      <3>1. DOMAIN g.rc = Obj /\ g.rc = [p \in Obj |-> g.rc[p]]
        BY DEF hvalue_clone
      <3>2. \A p \in Obj : h.rc[p] \in Nat
        BY DEF Good, Heap
      <3>3. \A p \in Obj : g.rc[p] \in Nat
        <4> HIDE DEF g, extra
        <4> QED BY <3>2, <1>3, <1>4
      <3> QED BY <3>1, <3>3
    <2>5. g.kind \in [Obj -> Kind]
      BY DEF Good, Heap, hvalue_clone
    <2> QED BY <2>1, <2>2, <2>3, <2>4, <2>5 DEF Heap, hvalue_clone
  <1>6. ASSUME NEW p \in Obj PROVE g.rc[p] = Cardinality(Refs(g, p))
    <2>1. \A k \in S : (CHOOSE x \in S : f[x] = f[k]) = k
      BY <1>0
    <2>2. CASE p = n
      <3>1. Refs(g, p) = {d}
        BY <2>2, <1>0, <1>1, <1>2, <2>1 DEF Refs
      <3> QED BY <3>1, <2>2, <1>3, FS_Singleton
    <2>3. CASE p # n
      <3>1. Refs(g, p) = Refs(h, p) \cup copies(p)
        BY <2>3, <1>0, <1>1, <1>2, <2>1, WordAssumption DEF Refs
      <3>2. Refs(h, p) \cap copies(p) = {}
        BY <1>0, <1>1, WordAssumption DEF Refs
      <3>3. IsFiniteSet(copies(p)) /\ Cardinality(copies(p)) = Cardinality(extra(p))
        <4>1. [k \in extra(p) |-> f[k]] \in Bijection(extra(p), copies(p))
          BY <1>0 DEF Bijection, Injection, Surjection, IsInjective
        <4>2. ExistsBijection(extra(p), copies(p))
          BY <4>1 DEF ExistsBijection
        <4> QED BY <4>2, <1>4, FS_Bijection
      <3>4. Cardinality(Refs(h, p) \cup copies(p)) =
              Cardinality(Refs(h, p)) + Cardinality(copies(p)) - 0
        BY <3>2, <3>3, RefsFinite, FS_Union, FS_EmptySet
      <3>5. h.rc[p] = Cardinality(Refs(h, p))
        BY DEF Good, Counted
      <3> HIDE DEF g, copies, extra
      <3> QED BY <3>1, <3>3, <3>4, <3>5, <2>3, <1>3, <1>4, RefsFinite
    <2> QED BY <2>2, <2>3
  <1>7. FreedAtZero(g)
    <2> SUFFICES ASSUME NEW p \in Obj PROVE g.kind[p] = "free" <=> g.rc[p] = 0
      BY DEF FreedAtZero
    <2>1. CASE h.kind[p] = "free" /\ p # n
      <3>1. extra(p) = {}
        BY <2>1, <1>0, FreeUnreferenced
      <3>2. Cardinality(extra(p)) = 0
        BY <3>1, FS_EmptySet
      <3> QED BY <3>2, <2>1, <1>3 DEF Good, FreedAtZero
    <2>2. CASE h.kind[p] # "free" /\ p # n
      <3>1. h.rc[p] # 0 /\ h.rc[p] \in Nat
        BY <2>2 DEF Good, FreedAtZero, Heap
      <3> HIDE DEF g, extra
      <3> QED BY <3>1, <2>2, <1>3, <1>4
    <2>3. CASE p = n
      <3> HIDE DEF g, extra
      <3> QED BY <2>3, <1>3
    <2> QED BY <2>1, <2>2, <2>3
  <1>8. UnusedEmpty(g)
    BY <1>1, <1>2, HolderAssumption DEF UnusedEmpty, Holder
  <1>9. OwnersLive(g)
    BY <1>2, <1>3, HolderAssumption DEF OwnersLive, Good, Holder
  <1> QED BY <1>5, <1>6, <1>7, <1>8, <1>9 DEF Good, Counted

-----------------------------------------------------------------------------
(* What the actions pass to the operations. *)

LEMMA FreshFacts ==
  ASSUME NEW h
  PROVE  /\ \A n : \A T \in FreshCells(h, n) : T \subseteq Held(h, "unused")
         /\ \A c \in FreshCell(h) : c \in Cell /\ h.own[c] = "unused"
         /\ \A o \in FreshObj(h) : o \in Obj /\ h.kind[o] = "free"
  BY DEF Fresh, FreshCells, FreshCell, FreshObj, Held, Live

LEMMA FieldsFacts ==
  ASSUME NEW n \in Nat, NEW as \in [1..n -> Cell], NEW first \in Nat, first > 0
  PROVE  /\ DOMAIN Fields(as, first) \subseteq Cell
         /\ \A k \in DOMAIN Fields(as, first) : Fields(as, first)[k] \in Nat
  <1>1. DOMAIN as = 1..n /\ Range(as) \subseteq Cell
    BY DEF Range
  <1>2. ASSUME NEW k \in Range(as)
        PROVE  first + (CHOOSE i \in DOMAIN as : as[i] = k) - 1 \in Nat
    <2>1. (CHOOSE i \in DOMAIN as : as[i] = k) \in 1..n
      BY <1>1 DEF Range
    <2> QED BY <2>1
  <1> QED BY <1>1, <1>2 DEF Fields

LEMMA PairFacts ==
  ASSUME NEW h \in Cell, NEW t \in Cell
  PROVE  /\ DOMAIN Fields(<<h, t>>, 1) \subseteq Cell
         /\ \A k \in DOMAIN Fields(<<h, t>>, 1) : Fields(<<h, t>>, 1)[k] \in Nat
  <1>1. <<h, t>> \in [1..2 -> Cell]
    OBVIOUS
  <1>2. 2 \in Nat /\ 1 \in Nat /\ 1 > 0
    OBVIOUS
  <1> DEFINE as == <<h, t>>
  <1>3. as \in [1..2 -> Cell]
    BY <1>1
  <1> HIDE DEF as
  <1>4. /\ DOMAIN Fields(as, 1) \subseteq Cell
        /\ \A k \in DOMAIN Fields(as, 1) : Fields(as, 1)[k] \in Nat
    BY <1>2, <1>3, FieldsFacts
  <1> QED BY <1>4 DEF as

(* Sequences of distinct members of S. *)
DistinctSeqs(S) ==
  {as \in UNION {[1..n -> S] : n \in Nat} : \A i, j \in DOMAIN as : as[i] = as[j] => i = j}

LEMMA OperandsFacts ==
  ASSUME NEW S, S \subseteq Cell, NEW as \in DistinctSeqs(S), NEW first \in Nat, first > 0
  PROVE  /\ DOMAIN Fields(as, first) \subseteq Cell
         /\ \A k \in DOMAIN Fields(as, first) : Fields(as, first)[k] \in Nat
  <1>1. PICK n \in Nat : as \in [1..n -> S]
    BY DEF DistinctSeqs
  <1>2. as \in [1..n -> Cell]
    BY <1>1
  <1> QED BY <1>2, FieldsFacts

LEMMA PutArgsGood ==
  ASSUME NEW h, Good(h), NEW o \in Obj, h.kind[o] # "free",
         NEW S, S \subseteq Cell, NEW as \in DistinctSeqs(S)
  PROVE  Good(PutArgs(h, o, as))
  <1>1. Cardinality(Args(h, o)) + 1 \in Nat /\ Cardinality(Args(h, o)) + 1 > 0
    BY CellAssumption, FS_Subset, FS_CardinalityType DEF Args, Held
  <1> HIDE DEF Args
  <1> QED BY <1>1, OperandsFacts, StoreGood DEF PutArgs

LEMMA ClonesGood ==
  ASSUME NEW h, Good(h), CloneContract, NEW o \in Obj, h.kind[o] # "free",
         NEW u \in Clones(h, o)
  PROVE  /\ Good(u[1]) /\ u[2] \in Cell
         /\ h.own[u[2]] = "unused" /\ u[1].ref[u[2]] \in Obj
  <1>1. PICK n \in FreshObj(h), T \in FreshCells(h, Cardinality(Held(h, o)) + 1) :
          \E d \in T : \E f \in Bijections(Held(h, o), T \ {d}) :
            u = <<hvalue_clone(h, o, n, d, f), d>>
    BY DEF Clones
  <1>2. PICK d \in T : \E f \in Bijections(Held(h, o), T \ {d}) :
            u = <<hvalue_clone(h, o, n, d, f), d>>
    BY <1>1
  <1>3. PICK f \in Bijections(Held(h, o), T \ {d}) :
            u = <<hvalue_clone(h, o, n, d, f), d>>
    BY <1>2
  <1>4. n \in Obj /\ h.kind[n] = "free" /\ T \subseteq Held(h, "unused")
    BY FreshFacts
  <1>5. Good(hvalue_clone(h, o, n, d, f))
    BY <1>4, CloneGood
  <1>6. d \in Cell /\ h.own[d] = "unused"
    BY <1>4 DEF Held
  <1>7. hvalue_clone(h, o, n, d, f).ref[d] = n
    BY <1>6 DEF hvalue_clone
  <1> QED BY <1>3, <1>4, <1>5, <1>6, <1>7

LEMMA UniqGood ==
  ASSUME NEW h, Good(h), CloneContract, NEW c \in Cell, h.ref[c] \in Obj,
         NEW u \in hvalue_uniq(h, c)
  PROVE  /\ Good(u[1]) /\ u[2] \in Cell
         /\ u[1].ref[u[2]] \in Obj /\ u[1].kind[u[1].ref[u[2]]] # "free"
  <1>1. CASE u = <<h, c>>
    BY <1>1, FreeUnreferenced
  <1>2. ASSUME NEW v \in Clones(h, h.ref[c]), u = <<hvalue_drop(v[1], c), v[2]>>
        PROVE  Good(u[1]) /\ u[2] \in Cell /\ u[1].ref[u[2]] \in Obj
    <2>1. h.kind[h.ref[c]] # "free"
      BY FreeUnreferenced
    <2>2. Good(v[1]) /\ v[2] \in Cell /\ h.own[v[2]] = "unused" /\ v[1].ref[v[2]] \in Obj
      BY <2>1, ClonesGood
    <2>3. v[2] # c
      BY <2>2, WordAssumption DEF Good, UnusedEmpty
    <2>4. hvalue_drop(v[1], c).ref[v[2]] = v[1].ref[v[2]]
      BY <2>2, <2>3 DEF hvalue_drop, IsLast, Good, Heap
    <2> QED BY <1>2, <2>2, <2>4, DropGood
  <1>3. Good(u[1]) /\ u[2] \in Cell /\ u[1].ref[u[2]] \in Obj
    BY <1>1, <1>2 DEF hvalue_uniq
  <1> QED BY <1>3, FreeUnreferenced

-----------------------------------------------------------------------------
(* Cycles. *)

(* Some object of each set of live objects is no field of one in the set.  *)
AcyclicIn(h) ==
  \A S \in SUBSET Live(h) :
    S # {} => \E o \in S : \A c \in Cell : h.own[c] \in S => h.ref[c] # o

(* What lets a step add n: nothing refers to it, and nothing else changed. *)
OnTop(h, g, n) ==
  /\ Live(g) \subseteq Live(h) \cup {n}
  /\ \A c \in Cell : g.own[c] \in Live(g) /\ g.ref[c] \in Live(g) =>
       /\ g.ref[c] # n
       /\ g.own[c] = n \/ (g.own[c] = h.own[c] /\ g.ref[c] = h.ref[c])

LEMMA OnTopAcyclic ==
  ASSUME NEW h, AcyclicIn(h), NEW g, NEW n, OnTop(h, g, n)
  PROVE  AcyclicIn(g)
  <1> SUFFICES ASSUME NEW S \in SUBSET Live(g), S # {}
               PROVE  \E o \in S : \A c \in Cell : g.own[c] \in S => g.ref[c] # o
    BY DEF AcyclicIn
  <1>1. CASE n \in S
    BY <1>1 DEF OnTop
  <1>2. CASE n \notin S
    <2>1. S \in SUBSET Live(h)
      BY <1>2 DEF OnTop
    <2>2. PICK o \in S : \A c \in Cell : h.own[c] \in S => h.ref[c] # o
      BY <2>1 DEF AcyclicIn
    <2>3. \A c \in Cell : g.own[c] \in S => g.ref[c] # o
      BY <1>2, <2>2 DEF OnTop
    <2> QED BY <2>3
  <1> QED BY <1>1, <1>2

(* A step that adds no object and no reference between objects. *)
Fewer(h, g) ==
  /\ Live(g) \subseteq Live(h)
  /\ \A c \in Cell : g.own[c] \in Live(g) /\ g.ref[c] \in Live(g) =>
       g.own[c] = h.own[c] /\ g.ref[c] = h.ref[c]

LEMMA FewerAcyclic ==
  ASSUME NEW h, AcyclicIn(h), NEW g, Fewer(h, g)
  PROVE  AcyclicIn(g)
  <1>1. \A o \in Live(g) : o # Blank
    BY WordAssumption DEF Live
  <1>2. OnTop(h, g, Blank)
    BY <1>1 DEF Fewer, OnTop
  <1> QED BY <1>2, OnTopAcyclic

LEMMA MakeAcyclic ==
  ASSUME NEW h, Good(h), AcyclicIn(h), NEW c \in Cell, NEW w \in Word
  PROVE  AcyclicIn(hvalue_make(h, c, w))
  <1> DEFINE g == hvalue_make(h, c, w)
  <1>1. /\ g.kind = h.kind
        /\ \A k \in Cell : g.own[k] = IF k = c THEN "client" ELSE h.own[k]
        /\ \A k \in Cell : g.ref[k] = IF k = c THEN w ELSE h.ref[k]
    BY DEF Good, Heap, hvalue_make
  <1> HIDE DEF g
  <1>2. Fewer(h, g)
    BY <1>1, HolderAssumption DEF Fewer, Live, Holder
  <1>3. AcyclicIn(g)
    BY <1>2, FewerAcyclic
  <1> QED BY <1>3 DEF g

LEMMA RefAcyclic ==
  ASSUME NEW h, Good(h), AcyclicIn(h), NEW c \in Cell, NEW d \in Cell
  PROVE  AcyclicIn(hvalue_ref(h, c, d))
  <1> DEFINE g == hvalue_ref(h, c, d)
  <1>1. /\ g.kind = h.kind
        /\ \A k \in Cell : g.own[k] = IF k = d THEN "client" ELSE h.own[k]
        /\ \A k \in Cell : g.ref[k] = IF k = d THEN h.ref[c] ELSE h.ref[k]
    BY DEF Good, Heap, hvalue_ref
  <1> HIDE DEF g
  <1>2. Fewer(h, g)
    BY <1>1, HolderAssumption DEF Fewer, Live, Holder
  <1>3. AcyclicIn(g)
    BY <1>2, FewerAcyclic
  <1> QED BY <1>3 DEF g

LEMMA DropAcyclic ==
  ASSUME NEW h, Good(h), AcyclicIn(h), NEW c \in Cell
  PROVE  AcyclicIn(hvalue_drop(h, c))
  <1> DEFINE g == hvalue_drop(h, c)
  <1>1. /\ \A p \in Obj : g.kind[p] # "free" => h.kind[p] # "free"
        /\ \A k \in Cell : g.own[k] = h.own[k] \/ g.own[k] \in Holder
        /\ \A k \in Cell : k # c => g.ref[k] = h.ref[k]
        /\ g.own[c] = "unused"
    BY DEF Good, Heap, hvalue_drop, Holder
  <1> HIDE DEF g
  <1>2. Fewer(h, g)
    BY <1>1, HolderAssumption DEF Fewer, Live, Holder
  <1>3. AcyclicIn(g)
    BY <1>2, FewerAcyclic
  <1> QED BY <1>3 DEF g

(* Cells that leave the objects, or move from one place to another that is *)
(* no object.                                                              *)
LEMMA MoveAcyclic ==
  ASSUME NEW h, AcyclicIn(h), NEW g,
         g.ref = h.ref, g.kind = h.kind,
         \A k \in Cell : g.own[k] = h.own[k] \/ g.own[k] \notin Obj
  PROVE  AcyclicIn(g)
  <1>1. Fewer(h, g)
    BY DEF Fewer, Live
  <1> QED BY <1>1, FewerAcyclic

(* Cells are moved into an object that no field refers to. *)
LEMMA StoreAcyclic ==
  ASSUME NEW h, Good(h), AcyclicIn(h), NEW o \in Obj, NEW at,
         \A k \in Cell : h.ref[k] = o => h.own[k] \notin Obj /\ k \notin DOMAIN at
  PROVE  AcyclicIn(Store(h, o, at))
  <1> DEFINE g == Store(h, o, at)
  <1>1. /\ g.ref = h.ref /\ g.kind = h.kind
        /\ \A k \in Cell : g.own[k] = IF k \in DOMAIN at THEN o ELSE h.own[k]
    BY DEF Good, Heap, Store
  <1> HIDE DEF g
  <1>2. OnTop(h, g, o)
    BY <1>1 DEF OnTop, Live
  <1>3. AcyclicIn(g)
    BY <1>2, OnTopAcyclic
  <1> QED BY <1>3 DEF g

LEMMA AllocAcyclic ==
  ASSUME NEW h, Good(h), AcyclicIn(h), NEW o \in Obj, h.kind[o] = "free",
         NEW c \in Cell, h.own[c] = "unused", NEW kind, NEW at, c \notin DOMAIN at
  PROVE  AcyclicIn(Alloc(h, o, c, kind, at))
  <1> DEFINE g == Alloc(h, o, c, kind, at)
  <1>1. \A k \in Cell : h.ref[k] # o /\ h.own[k] # o
    BY FreeUnreferenced DEF Good, OwnersLive
  <1>2. /\ \A k \in Cell : g.ref[k] = IF k = c THEN o ELSE h.ref[k]
        /\ \A k \in Cell : g.own[k] = IF k \in DOMAIN at THEN o
                                      ELSE IF k = c THEN "client" ELSE h.own[k]
        /\ \A p \in Obj : g.kind[p] = IF p = o THEN kind ELSE h.kind[p]
    BY DEF Good, Heap, Alloc, Store
  <1> HIDE DEF g
  <1>3. OnTop(h, g, o)
    BY <1>1, <1>2, HolderAssumption DEF OnTop, Live, Holder
  <1>4. AcyclicIn(g)
    BY <1>3, OnTopAcyclic
  <1> QED BY <1>4 DEF g

LEMMA CloneAcyclic ==
  ASSUME NEW h, Good(h), AcyclicIn(h),
         NEW o \in Obj, NEW n \in Obj, h.kind[o] # "free", h.kind[n] = "free",
         NEW T, T \subseteq Held(h, "unused"), NEW d \in T,
         NEW f \in Bijections(Held(h, o), T \ {d})
  PROVE  AcyclicIn(hvalue_clone(h, o, n, d, f))
  <1> DEFINE g == hvalue_clone(h, o, n, d, f)
             S == Held(h, o)
             isCopy(c) == \E k \in S : f[k] = c
  <1>0. /\ f \in [S -> T \ {d}] /\ DOMAIN f = S /\ d \in Cell
        /\ \A k \in S : k \in Cell
    BY DEF Bijections, Held
  <1>1. \A c \in Cell : h.ref[c] # n
    BY FreeUnreferenced
  <1>2. /\ \A c \in Cell : g.ref[c] =
             IF c = d THEN n
             ELSE IF isCopy(c) THEN h.ref[CHOOSE k \in S : f[k] = c] ELSE h.ref[c]
        /\ \A c \in Cell : \/ g.own[c] \in {"client", "lost"}
                           \/ g.own[c] = n /\ c # d /\ isCopy(c)
                           \/ (g.own[c] = h.own[c] /\ c # d /\ ~isCopy(c))
        /\ \A p \in Obj : g.kind[p] = IF p = n THEN h.kind[o] ELSE h.kind[p]
    BY <1>0 DEF Good, Heap, hvalue_clone
  <1>3. \A c \in Cell : isCopy(c) => (CHOOSE k \in S : f[k] = c) \in Cell
    BY <1>0
  <1> HIDE DEF g
  <1>4. OnTop(h, g, n)
    BY <1>1, <1>2, <1>3, HolderAssumption DEF OnTop, Live, Holder
  <1>5. AcyclicIn(g)
    BY <1>4, OnTopAcyclic
  <1> QED BY <1>5 DEF g

-----------------------------------------------------------------------------
(* The fields. *)

(* The args of o are its fields 1 to n, and it has one data field at most. *)
Numbered(h, o, n) ==
  /\ n \in Nat
  /\ \A k \in Args(h, o) : h.slot[k] \in 1..n
  /\ \A i \in 1..n : \E k \in Args(h, o) : h.slot[k] = i
  /\ \A j, k \in Held(h, o) : h.slot[j] = h.slot[k] => j = k

Pairs == {"cons", "binding"}

NumberedIn(h) ==
  \A o \in Live(h) : \E n \in Nat : Numbered(h, o, n) /\ (h.kind[o] \in Pairs => n = 2)

LEMMA HeldFacts ==
  ASSUME NEW h, Good(h), NEW o
  PROVE  /\ Held(h, o) \subseteq Cell /\ Args(h, o) \subseteq Held(h, o)
         /\ IsFiniteSet(Held(h, o)) /\ IsFiniteSet(Args(h, o))
         /\ \A k \in Held(h, o) : h.slot[k] \in Nat /\ h.own[k] = o
         /\ \A k \in Held(h, o) : k \in Args(h, o) <=> h.slot[k] > 0
  BY CellAssumption, FS_Subset DEF Held, Args, Good, Heap

LEMMA CountOfInterval ==
  ASSUME NEW S, NEW n \in Nat, NEW f, \A k \in S : f[k] \in 1..n,
         \A i \in 1..n : \E k \in S : f[k] = i,
         \A j, k \in S : f[j] = f[k] => j = k
  PROVE  Cardinality(S) = n /\ IsFiniteSet(S)
  <1> DEFINE at == [i \in 1..n |-> CHOOSE k \in S : f[k] = i]
  <1>1. \A i \in 1..n : at[i] \in S /\ f[at[i]] = i
    OBVIOUS
  <1>2. \A k \in S : f[k] \in 1..n /\ at[f[k]] = k
    BY <1>1
  <1> HIDE DEF at
  <1>3. at \in [1..n -> S]
    BY <1>1 DEF at
  <1>4. at \in Bijection(1..n, S)
    BY <1>1, <1>2, <1>3 DEF Bijection, Injection, Surjection, IsInjective
  <1>5. ExistsBijection(1..n, S)
    BY <1>4 DEF ExistsBijection
  <1> QED BY <1>5, FS_NatBijection, FS_CountingElements

LEMMA NumberedCount ==
  ASSUME NEW h, Good(h), NEW o, NEW n, Numbered(h, o, n)
  PROVE  Cardinality(Args(h, o)) = n
  <1>1. \A j, k \in Args(h, o) : h.slot[j] = h.slot[k] => j = k
    BY HeldFacts DEF Numbered
  <1> HIDE DEF Args
  <1> QED BY <1>1, CountOfInterval DEF Numbered

(* The fields that are numbered have numbers without a gap        . *)
LEMMA NumberedInOrder ==
  ASSUME NEW h, Good(h), NumberedIn(h), NEW o \in Live(h)
  PROVE  LET n == Cardinality(Args(h, o))
         IN /\ {h.slot[k] : k \in Args(h, o)} = 1..n
            /\ Cardinality(Held(h, o) \ Args(h, o)) <= 1
            /\ h.kind[o] \in {"cons", "binding"} => n = 2
  <1>1. PICK n \in Nat : Numbered(h, o, n) /\ (h.kind[o] \in Pairs => n = 2)
    BY DEF NumberedIn
  <1>2. Cardinality(Args(h, o)) = n
    BY <1>1, NumberedCount
  <1>3. {h.slot[k] : k \in Args(h, o)} = 1..n
    BY <1>1 DEF Numbered
  <1>4. Cardinality(Held(h, o) \ Args(h, o)) <= 1
    <2> DEFINE D == Held(h, o) \ Args(h, o)
    <2>1. \A j, k \in D : j = k
      <3>1. \A k \in D : h.slot[k] = 0 /\ k \in Held(h, o)
        BY HeldFacts
      <3> QED BY <1>1, <3>1 DEF Numbered
    <2> HIDE DEF D
    <2>2. ASSUME D = {} PROVE Cardinality(D) <= 1
      <3>1. Cardinality(D) = 0
        BY <2>2, FS_EmptySet
      <3> QED BY <3>1
    <2>3. ASSUME D # {} PROVE Cardinality(D) <= 1
      <3>1. PICK k \in D : TRUE
        BY <2>3
      <3>2. D = {k}
        BY <2>1, <3>1
      <3>3. Cardinality(D) = 1
        BY <3>2, FS_Singleton
      <3> QED BY <3>3
    <2>4. Cardinality(D) <= 1
      BY <2>2, <2>3
    <2> QED BY <2>4 DEF D
  <1> QED BY <1>1, <1>2, <1>3, <1>4 DEF Pairs

(* What object o holds, and where, is the same. *)
SameFields(h, g, o) ==
  /\ Held(g, o) = Held(h, o)
  /\ \A k \in Held(h, o) : g.slot[k] = h.slot[k]

LEMMA SameNumbered ==
  ASSUME NEW h, NEW g, NEW o, SameFields(h, g, o), NEW n, Numbered(h, o, n)
  PROVE  Numbered(g, o, n)
  <1>1. Args(g, o) = Args(h, o) /\ \A k \in Args(h, o) : g.slot[k] = h.slot[k]
    BY DEF SameFields, Args
  <1> QED BY <1>1 DEF SameFields, Numbered

LEMMA SameNumberedIn ==
  ASSUME NEW h, NumberedIn(h), NEW g,
         \A o \in Live(g) : o \in Live(h) /\ g.kind[o] = h.kind[o] /\ SameFields(h, g, o)
  PROVE  NumberedIn(g)
  <1> SUFFICES ASSUME NEW o \in Live(g)
               PROVE  \E n \in Nat : Numbered(g, o, n) /\ (g.kind[o] \in Pairs => n = 2)
    BY DEF NumberedIn
  <1>1. PICK n \in Nat : Numbered(h, o, n) /\ (h.kind[o] \in Pairs => n = 2)
    BY DEF NumberedIn
  <1> QED BY <1>1, SameNumbered

LEMMA MakeNumbered ==
  ASSUME NEW h, Good(h), NumberedIn(h), NEW c \in Cell, h.own[c] \notin Obj, NEW w \in Word
  PROVE  NumberedIn(hvalue_make(h, c, w))
  <1> DEFINE g == hvalue_make(h, c, w)
  <1>1. /\ g.kind = h.kind /\ g.slot = h.slot
        /\ \A k \in Cell : g.own[k] = IF k = c THEN "client" ELSE h.own[k]
    BY DEF Good, Heap, hvalue_make
  <1> HIDE DEF g
  <1>2. \A o \in Obj : SameFields(h, g, o)
    BY <1>1, HolderAssumption DEF SameFields, Held, Holder
  <1>3. NumberedIn(g)
    BY <1>1, <1>2, SameNumberedIn DEF Live
  <1> QED BY <1>3 DEF g

LEMMA RefNumbered ==
  ASSUME NEW h, Good(h), NumberedIn(h), NEW c \in Cell, NEW d \in Cell, h.own[d] \notin Obj
  PROVE  NumberedIn(hvalue_ref(h, c, d))
  <1> DEFINE g == hvalue_ref(h, c, d)
  <1>1. /\ g.kind = h.kind /\ g.slot = h.slot
        /\ \A k \in Cell : g.own[k] = IF k = d THEN "client" ELSE h.own[k]
    BY DEF Good, Heap, hvalue_ref
  <1> HIDE DEF g
  <1>2. \A o \in Obj : SameFields(h, g, o)
    BY <1>1, HolderAssumption DEF SameFields, Held, Holder
  <1>3. NumberedIn(g)
    BY <1>1, <1>2, SameNumberedIn DEF Live
  <1> QED BY <1>3 DEF g

LEMMA DropNumbered ==
  ASSUME NEW h, Good(h), NumberedIn(h), NEW c \in Cell, h.own[c] \notin Obj
  PROVE  NumberedIn(hvalue_drop(h, c))
  <1> DEFINE g == hvalue_drop(h, c)
             frees == IsLast(h, h.ref[c])
  <1>1. /\ \A p \in Obj : g.kind[p] = IF p = h.ref[c] /\ frees THEN "free" ELSE h.kind[p]
        /\ \A k \in Cell : \/ g.own[k] = h.own[k] /\ g.slot[k] = h.slot[k]
                              /\ ~(frees /\ h.own[k] = h.ref[c])
                           \/ g.own[k] \in Holder /\ k = c
                           \/ g.own[k] \in Holder /\ frees /\ h.own[k] = h.ref[c]
    BY DEF Good, Heap, hvalue_drop, Holder
  <1> HIDE DEF g, frees
  <1>2. ASSUME NEW o \in Live(g)
        PROVE  o \in Live(h) /\ g.kind[o] = h.kind[o] /\ SameFields(h, g, o)
    <2>1. o \in Obj /\ g.kind[o] # "free" /\ ~(o = h.ref[c] /\ frees)
      BY <1>1 DEF Live
    <2>2. \A k \in Cell : /\ g.own[k] = o <=> h.own[k] = o
                          /\ h.own[k] = o => g.slot[k] = h.slot[k]
      BY <1>1, <2>1, HolderAssumption
    <2> QED BY <1>1, <2>1, <2>2 DEF Live, SameFields, Held
  <1>3. NumberedIn(g)
    BY <1>2, SameNumberedIn
  <1> QED BY <1>3 DEF g

(* Cells the client holds move to another place that is no object. *)
LEMMA MoveNumbered ==
  ASSUME NEW h, NumberedIn(h), NEW g, g.kind = h.kind, g.slot = h.slot,
         \A k \in Cell : g.own[k] = h.own[k] \/ (h.own[k] \notin Obj /\ g.own[k] \notin Obj)
  PROVE  NumberedIn(g)
  <1>1. \A o \in Obj : SameFields(h, g, o)
    BY DEF SameFields, Held
  <1> QED BY <1>1, SameNumberedIn DEF Live

LEMMA TakeArgsNumbered ==
  ASSUME NEW h, Good(h), NumberedIn(h), NEW o \in Obj, h.kind[o] \notin Pairs
  PROVE  NumberedIn(TakeArgs(h, o))
  <1> DEFINE g == TakeArgs(h, o)
  <1>1. /\ g.kind = h.kind
        /\ \A k \in Cell : k \in Args(h, o) => g.own[k] = "client" /\ h.own[k] = o
        /\ \A k \in Cell : k \notin Args(h, o) => g.own[k] = h.own[k] /\ g.slot[k] = h.slot[k]
    BY DEF Good, Heap, TakeArgs, Args, Held
  <1> HIDE DEF g
  <1> SUFFICES ASSUME NEW p \in Live(g)
               PROVE  \E n \in Nat : Numbered(g, p, n) /\ (g.kind[p] \in Pairs => n = 2)
    BY DEF NumberedIn, g
  <1>2. p \in Obj /\ p \in Live(h)
    BY <1>1 DEF Live
  <1>3. PICK n \in Nat : Numbered(h, p, n) /\ (h.kind[p] \in Pairs => n = 2)
    BY <1>2 DEF NumberedIn
  <1>4. CASE p # o
    <2>1. SameFields(h, g, p)
      BY <1>1, <1>2, <1>4, HolderAssumption DEF SameFields, Held, Holder
    <2> QED BY <1>1, <1>3, <2>1, SameNumbered
  <1>5. CASE p = o
    <2>1. \A k \in Held(g, o) : k \in Held(h, o) /\ k \notin Args(h, o) /\ g.slot[k] = h.slot[k]
      BY <1>1, <1>2, HolderAssumption DEF Held, Holder
    <2>2. Args(g, o) = {}
      BY <2>1 DEF Args
    <2>3. \A j, k \in Held(g, o) : g.slot[j] = g.slot[k] => j = k
      BY <1>3, <1>5, <2>1 DEF Numbered
    <2>4. Numbered(g, o, 0)
      BY <2>2, <2>3 DEF Numbered
    <2> QED BY <1>1, <1>5, <2>4
  <1> QED BY <1>4, <1>5

(* Client cells become the next fields of an object. *)
NextFields(at, n, m) ==
  /\ \A k \in DOMAIN at : at[k] \in n + 1..n + m
  /\ \A i \in n + 1..n + m : \E k \in DOMAIN at : at[k] = i
  /\ \A j, k \in DOMAIN at : at[j] = at[k] => j = k

LEMMA StoreFacts ==
  ASSUME NEW h, Good(h), NEW o \in Obj, NEW at, DOMAIN at \subseteq Cell,
         \A k \in DOMAIN at : h.own[k] \notin Obj
  PROVE  /\ Store(h, o, at).kind = h.kind
         /\ Held(Store(h, o, at), o) = Held(h, o) \cup DOMAIN at
         /\ Held(h, o) \cap DOMAIN at = {}
         /\ \A k \in DOMAIN at : Store(h, o, at).slot[k] = at[k]
         /\ \A k \in Held(h, o) : Store(h, o, at).slot[k] = h.slot[k]
         /\ \A p \in Obj : p # o => SameFields(h, Store(h, o, at), p)
  <1> DEFINE g == Store(h, o, at)
  <1>1. /\ g.kind = h.kind
        /\ \A k \in Cell : g.own[k] = IF k \in DOMAIN at THEN o ELSE h.own[k]
        /\ \A k \in Cell : g.slot[k] = IF k \in DOMAIN at THEN at[k] ELSE h.slot[k]
    BY DEF Good, Heap, Store
  <1> HIDE DEF g
  <1>2. Held(h, o) \cap DOMAIN at = {}
    BY DEF Held
  <1>3. Held(g, o) = Held(h, o) \cup DOMAIN at
    BY <1>1 DEF Held
  <1>4. \A p \in Obj : p # o => SameFields(h, g, p)
    BY <1>1 DEF SameFields, Held
  <1>5. /\ \A k \in DOMAIN at : g.slot[k] = at[k]
        /\ \A k \in Held(h, o) : g.slot[k] = h.slot[k]
    BY <1>1, <1>2 DEF Held
  <1> QED BY <1>1, <1>2, <1>3, <1>4, <1>5 DEF g

LEMMA StoreNumbered ==
  ASSUME NEW h, Good(h), NEW o \in Obj, NEW at, DOMAIN at \subseteq Cell,
         \A k \in DOMAIN at : h.own[k] \notin Obj,
         NEW n \in Nat, NEW m \in Nat, Numbered(h, o, n), NextFields(at, n, m)
  PROVE  Numbered(Store(h, o, at), o, n + m)
  <1> DEFINE g == Store(h, o, at)
  <1>1. /\ Held(g, o) = Held(h, o) \cup DOMAIN at
        /\ \A k \in DOMAIN at : g.slot[k] = at[k]
        /\ \A k \in Held(h, o) : g.slot[k] = h.slot[k]
    BY StoreFacts
  <1> HIDE DEF g
  <1>2. \A k \in DOMAIN at : at[k] \in n + 1..n + m
    BY DEF NextFields
  <1>3. Args(g, o) = Args(h, o) \cup DOMAIN at
    BY <1>1, <1>2 DEF Args
  <1>4. \A k \in Held(h, o) : h.slot[k] \in 0..n
    <2>1. \A k \in Args(h, o) : h.slot[k] \in 1..n
      BY DEF Numbered
    <2> QED BY <2>1, HeldFacts
  <1>5. \A k \in Args(g, o) : g.slot[k] \in 1..n + m
    <2>1. \A k \in Args(h, o) : g.slot[k] \in 1..n
      BY <1>1 DEF Numbered, Args
    <2> QED BY <1>1, <1>2, <1>3, <2>1
  <1>6. ASSUME NEW i \in 1..n + m PROVE \E k \in Args(g, o) : g.slot[k] = i
    <2>1. CASE i \in 1..n
      <3>1. PICK k \in Args(h, o) : h.slot[k] = i
        BY <2>1 DEF Numbered
      <3>2. k \in Held(h, o)
        BY DEF Args
      <3> QED BY <1>1, <1>3, <3>1, <3>2
    <2>2. CASE i \in n + 1..n + m
      <3>1. PICK k \in DOMAIN at : at[k] = i
        BY <2>2 DEF NextFields
      <3> QED BY <1>1, <1>3, <3>1
    <2> QED BY <2>1, <2>2
  <1>7. ASSUME NEW j \in Held(g, o), NEW k \in Held(g, o), g.slot[j] = g.slot[k]
        PROVE  j = k
    <2>1. CASE j \in Held(h, o) /\ k \in Held(h, o)
      BY <1>1, <1>7, <2>1 DEF Numbered
    <2>2. CASE j \in DOMAIN at /\ k \in DOMAIN at
      BY <1>1, <1>7, <2>2 DEF NextFields
    <2>3. CASE j \in Held(h, o) /\ k \in DOMAIN at
      BY <1>1, <1>2, <1>4, <1>7, <2>3
    <2>4. CASE j \in DOMAIN at /\ k \in Held(h, o)
      BY <1>1, <1>2, <1>4, <1>7, <2>4
    <2> QED BY <1>1, <2>1, <2>2, <2>3, <2>4
  <1>8. Numbered(g, o, n + m)
    BY <1>5, <1>6, <1>7 DEF Numbered
  <1> QED BY <1>8 DEF g

(* The fields of a sequence of distinct cells. *)
LEMMA FieldsNext ==
  ASSUME NEW m \in Nat, NEW S, NEW as \in [1..m -> S],
         \A i, j \in 1..m : as[i] = as[j] => i = j, NEW n \in Nat
  PROVE  DOMAIN Fields(as, n + 1) = Range(as) /\ NextFields(Fields(as, n + 1), n, m)
  <1> DEFINE F == Fields(as, n + 1)
  <1>1. DOMAIN as = 1..m /\ \A k \in Range(as) : \E i \in 1..m : as[i] = k
    BY DEF Range
  <1>2. \A i \in 1..m : as[i] \in Range(as)
    BY DEF Range
  <1>3. DOMAIN F = Range(as)
    BY DEF Fields
  <1>4. ASSUME NEW i \in 1..m PROVE F[as[i]] = n + i
    <2>1. (CHOOSE j \in DOMAIN as : as[j] = as[i]) = i
      BY <1>1
    <2>2. F[as[i]] = n + 1 + i - 1
      BY <1>2, <2>1 DEF Fields
    <2>3. i \in Nat /\ n + 1 + i - 1 = n + i
      OBVIOUS
    <2> QED BY <2>2, <2>3, Zenon
  <1> HIDE DEF F
  <1>5. \A k \in DOMAIN F : \E i \in 1..m : as[i] = k /\ F[k] = n + i
    BY <1>1, <1>3, <1>4
  <1>6. ASSUME NEW k \in DOMAIN F PROVE F[k] \in n + 1..n + m
    <2>1. PICK i \in 1..m : as[i] = k /\ F[k] = n + i
      BY <1>5
    <2>2. n + i \in n + 1..n + m
      OBVIOUS
    <2> QED BY <2>1, <2>2
  <1>7. ASSUME NEW i \in n + 1..n + m PROVE \E k \in DOMAIN F : F[k] = i
    <2>1. i - n \in 1..m /\ n + (i - n) = i
      OBVIOUS
    <2>2. F[as[i - n]] = i
      BY <1>4, <2>1
    <2> QED BY <1>2, <1>3, <2>1, <2>2
  <1>8. \A j, k \in DOMAIN F : F[j] = F[k] => j = k
    <2> SUFFICES ASSUME NEW j \in DOMAIN F, NEW k \in DOMAIN F, F[j] = F[k] PROVE j = k
      OBVIOUS
    <2>1. PICK x \in 1..m : as[x] = j /\ F[j] = n + x
      BY <1>5
    <2>2. PICK y \in 1..m : as[y] = k /\ F[k] = n + y
      BY <1>5
    <2>3. n + x = n + y
      BY <2>1, <2>2
    <2>4. x = y
      BY <2>3
    <2> QED BY <2>1, <2>2, <2>4
  <1> QED BY <1>3, <1>6, <1>7, <1>8 DEF NextFields, F

LEMMA BareFacts ==
  ASSUME NEW h, Good(h), NEW o \in Obj, h.kind[o] = "free",
         NEW c \in Cell, h.own[c] = "unused", NEW kind \in Kind \ {"free"}
  PROVE  /\ Held(Bare(h, o, c, kind), o) = {}
         /\ \A p \in Obj : p # o => /\ SameFields(h, Bare(h, o, c, kind), p)
                                     /\ Bare(h, o, c, kind).kind[p] = h.kind[p]
         /\ Bare(h, o, c, kind).kind[o] = kind
         /\ \A k \in Cell : h.own[k] \notin Obj => Bare(h, o, c, kind).own[k] \notin Obj
  <1> DEFINE g == Bare(h, o, c, kind)
  <1>1. /\ \A k \in Cell : g.own[k] = IF k = c THEN "client" ELSE h.own[k]
        /\ g.slot = h.slot
        /\ \A p \in Obj : g.kind[p] = IF p = o THEN kind ELSE h.kind[p]
    BY DEF Good, Heap, Bare
  <1> HIDE DEF g
  <1>2. \A k \in Cell : h.own[k] # o
    BY DEF Good, OwnersLive
  <1>3. Held(g, o) = {}
    BY <1>1, <1>2, HolderAssumption DEF Held, Holder
  <1>4. \A p \in Obj : p # o => SameFields(h, g, p)
    BY <1>1, HolderAssumption DEF SameFields, Held, Holder
  <1>5. \A k \in Cell : h.own[k] \notin Obj => g.own[k] \notin Obj
    BY <1>1, HolderAssumption DEF Holder
  <1> QED BY <1>1, <1>3, <1>4, <1>5 DEF g

(* The fields of every object but the new one are what they were. *)
LEMMA AddNumbered ==
  ASSUME NEW h, NumberedIn(h), NEW g, NEW o, NEW n \in Nat, Numbered(g, o, n),
         g.kind[o] \in Pairs => n = 2,
         \A p \in Live(g) : p # o => p \in Live(h) /\ g.kind[p] = h.kind[p] /\ SameFields(h, g, p)
  PROVE  NumberedIn(g)
  <1> SUFFICES ASSUME NEW p \in Live(g)
               PROVE  \E l \in Nat : Numbered(g, p, l) /\ (g.kind[p] \in Pairs => l = 2)
    BY DEF NumberedIn
  <1>1. CASE p = o
    BY <1>1
  <1>2. CASE p # o
    <2>1. PICK l \in Nat : Numbered(h, p, l) /\ (h.kind[p] \in Pairs => l = 2)
      BY <1>2 DEF NumberedIn
    <2> QED BY <1>2, <2>1, SameNumbered
  <1> QED BY <1>1, <1>2

LEMMA AllocFields ==
  ASSUME NEW h, Good(h), NumberedIn(h), NEW o \in Obj, h.kind[o] = "free",
         NEW c \in Cell, h.own[c] = "unused", NEW kind \in Kind \ {"free"},
         NEW at, DOMAIN at \subseteq Cell, \A k \in DOMAIN at : h.own[k] \notin Obj,
         NEW m \in Nat, Numbered(Alloc(h, o, c, kind, at), o, m), kind \in Pairs => m = 2
  PROVE  NumberedIn(Alloc(h, o, c, kind, at))
  <1> DEFINE b == Bare(h, o, c, kind)
             g == Store(b, o, at)
  <1>1. /\ Good(b)
        /\ \A p \in Obj : p # o => SameFields(h, b, p) /\ b.kind[p] = h.kind[p]
        /\ b.kind[o] = kind
        /\ \A k \in DOMAIN at : b.own[k] \notin Obj
    BY BareGood, BareFacts
  <1> HIDE DEF b
  <1>2. /\ g.kind = b.kind
        /\ \A p \in Obj : p # o => SameFields(b, g, p)
    BY <1>1, StoreFacts
  <1> HIDE DEF g
  <1>3. Alloc(h, o, c, kind, at) = g
    BY DEF Alloc, Bare, g, b
  <1>4. \A p \in Live(g) : p # o => /\ p \in Live(h) /\ g.kind[p] = h.kind[p]
                                     /\ SameFields(h, g, p)
    BY <1>1, <1>2 DEF Live, SameFields
  <1>5. g.kind[o] \in Pairs => m = 2
    BY <1>1, <1>2
  <1>6. NumberedIn(g)
    BY <1>3, <1>4, <1>5, AddNumbered
  <1> QED BY <1>3, <1>6

LEMMA AllocNumbered ==
  ASSUME NEW h, Good(h), NumberedIn(h), NEW o \in Obj, h.kind[o] = "free",
         NEW c \in Cell, h.own[c] = "unused", NEW kind \in Kind \ {"free"},
         NEW at, DOMAIN at \subseteq Cell, \A k \in DOMAIN at : h.own[k] \notin Obj,
         NEW m \in Nat, NextFields(at, 0, m), kind \in Pairs => m = 2
  PROVE  NumberedIn(Alloc(h, o, c, kind, at))
  <1> DEFINE b == Bare(h, o, c, kind)
  <1>1. /\ Good(b) /\ Held(b, o) = {}
        /\ \A k \in DOMAIN at : b.own[k] \notin Obj
    BY BareGood, BareFacts
  <1> HIDE DEF b
  <1>2. Numbered(b, o, 0)
    BY <1>1 DEF Numbered, Args
  <1>3. Numbered(Store(b, o, at), o, 0 + m)
    BY <1>1, <1>2, StoreNumbered
  <1>4. Alloc(h, o, c, kind, at) = Store(b, o, at) /\ 0 + m = m
    BY DEF Alloc, Bare, b
  <1>5. Numbered(Alloc(h, o, c, kind, at), o, m)
    BY <1>3, <1>4
  <1> QED BY <1>5, AllocFields

(* An effect with its data. *)
LEMMA AllocDataNumbered ==
  ASSUME NEW h, Good(h), NumberedIn(h), NEW o \in Obj, h.kind[o] = "free",
         NEW c \in Cell, h.own[c] = "unused", NEW kind \in Kind \ {"free"}, kind \notin Pairs,
         NEW x \in Cell, h.own[x] \notin Obj
  PROVE  NumberedIn(Alloc(h, o, c, kind, [k \in {x} |-> 0]))
  <1> DEFINE b == Bare(h, o, c, kind)
             at == [k \in {x} |-> 0]
             g == Store(b, o, at)
  <1>1. /\ Good(b) /\ Held(b, o) = {} /\ b.own[x] \notin Obj
    BY BareGood, BareFacts
  <1>2. DOMAIN at = {x} /\ at[x] = 0
    OBVIOUS
  <1> HIDE DEF b, at
  <1>3. Held(g, o) = {x} /\ g.slot[x] = 0
    BY <1>1, <1>2, StoreFacts
  <1> HIDE DEF g
  <1>4. Args(g, o) = {}
    BY <1>3 DEF Args
  <1>5. Numbered(g, o, 0)
    BY <1>3, <1>4 DEF Numbered
  <1>6. Alloc(h, o, c, kind, at) = g
    BY DEF Alloc, Bare, g, b
  <1>7. NumberedIn(Alloc(h, o, c, kind, at))
    BY <1>2, <1>5, <1>6, AllocFields
  <1> QED BY <1>7 DEF at

LEMMA CloneNumbered ==
  ASSUME NEW h, Good(h), NumberedIn(h),
         NEW o \in Obj, NEW n \in Obj, h.kind[o] # "free", h.kind[n] = "free",
         NEW T, T \subseteq Held(h, "unused"), NEW d \in T,
         NEW f \in Bijections(Held(h, o), T \ {d})
  PROVE  NumberedIn(hvalue_clone(h, o, n, d, f))
  <1> DEFINE g == hvalue_clone(h, o, n, d, f)
             S == Held(h, o)
             isCopy(c) == \E k \in S : f[k] = c
             kept(k) == CloneKeeps(h, o, k)
  <1>0. /\ f \in [S -> T \ {d}] /\ \A x, y \in S : f[x] = f[y] => x = y
        /\ DOMAIN f = S /\ d \in Cell /\ h.own[d] = "unused"
        /\ \A k \in S : f[k] \in Cell /\ h.own[f[k]] = "unused" /\ f[k] # d
        /\ S \subseteq Cell
    BY DEF Bijections, Held
  <1>1. \A k \in S : (CHOOSE x \in S : f[x] = f[k]) = k
    BY <1>0
  <1>2. /\ \A c \in Cell : ~isCopy(c) => /\ g.own[c] = IF c = d THEN "client" ELSE h.own[c]
                                         /\ g.slot[c] = h.slot[c]
        /\ \A k \in S : /\ g.own[f[k]] = IF kept(k) THEN n ELSE "lost"
                        /\ kept(k) => g.slot[f[k]] = h.slot[k]
        /\ \A p \in Obj : g.kind[p] = IF p = n THEN h.kind[o] ELSE h.kind[p]
    <2>1. \A c \in Cell : ~isCopy(c) => /\ g.own[c] = IF c = d THEN "client" ELSE h.own[c]
                                        /\ g.slot[c] = h.slot[c]
      BY <1>0 DEF hvalue_clone
    <2>2. \A k \in S : /\ g.own[f[k]] = IF kept(k) THEN n ELSE "lost"
                       /\ kept(k) => g.slot[f[k]] = h.slot[k]
      BY <1>0, <1>1 DEF hvalue_clone
    <2>3. \A p \in Obj : g.kind[p] = IF p = n THEN h.kind[o] ELSE h.kind[p]
      BY DEF Good, Heap, hvalue_clone
    <2> QED BY <2>1, <2>2, <2>3
  <1> HIDE DEF g
  <1>3. \A c \in Cell : h.own[c] # n
    BY DEF Good, OwnersLive
  <1>4. /\ \A c \in Cell : isCopy(c) => h.own[c] = "unused"
        /\ \A c \in Cell : isCopy(c) => g.own[c] = n \/ g.own[c] = "lost"
    BY <1>0, <1>2
  <1>5. ASSUME NEW p \in Live(g), p # n
        PROVE  p \in Live(h) /\ g.kind[p] = h.kind[p] /\ SameFields(h, g, p)
    <2>1. p \in Obj /\ p # "client" /\ p # "lost" /\ p # "unused"
      BY HolderAssumption DEF Live, Holder
    <2>2. \A c \in Cell : /\ g.own[c] = p <=> h.own[c] = p
                          /\ h.own[c] = p => g.slot[c] = h.slot[c]
      BY <1>0, <1>2, <1>4, <1>5, <2>1
    <2>3. g.kind[p] = h.kind[p] /\ p \in Live(h)
      BY <1>2, <1>5, <2>1 DEF Live
    <2> QED BY <2>2, <2>3 DEF SameFields, Held
  <1>6. /\ \A c \in Held(g, n) : \E k \in S : c = f[k] /\ kept(k)
        /\ \A k \in S : kept(k) => f[k] \in Held(g, n) /\ g.slot[f[k]] = h.slot[k]
    <2>1. n # "client" /\ n # "lost"
      BY HolderAssumption DEF Holder
    <2>2. ASSUME NEW c \in Held(g, n) PROVE \E k \in S : c = f[k] /\ kept(k)
      <3>1. c \in Cell /\ g.own[c] = n
        BY DEF Held
      <3>2. isCopy(c)
        BY <1>2, <1>3, <2>1, <3>1
      <3> QED BY <1>2, <2>1, <3>1, <3>2
    <2>3. \A k \in S : kept(k) => f[k] \in Held(g, n) /\ g.slot[f[k]] = h.slot[k]
      BY <1>0, <1>2 DEF Held
    <2> QED BY <2>2, <2>3
  <1>7. PICK l \in Nat : Numbered(h, o, l) /\ (h.kind[o] \in Pairs => l = 2)
    BY DEF NumberedIn, Live
  <1>8. \A j, k \in Held(g, n) : g.slot[j] = g.slot[k] => j = k
    BY <1>6, <1>7 DEF Numbered
  <1>9. CASE h.kind[o] \in Native
    <2>1. \A k \in S : kept(k) => h.slot[k] = 0
      BY <1>9 DEF CloneKeeps
    <2>2. \A c \in Held(g, n) : g.slot[c] = 0
      BY <1>6, <2>1
    <2>3. Args(g, n) = {}
      BY <2>2 DEF Args
    <2>4. Numbered(g, n, 0)
      BY <1>8, <2>3 DEF Numbered
    <2>5. g.kind[n] \notin Pairs
      BY <1>2, <1>9, KindAssumption DEF Pairs
    <2>6. NumberedIn(g)
      BY <1>5, <2>4, <2>5, AddNumbered
    <2> QED BY <2>6 DEF g
  <1>10. CASE h.kind[o] \notin Native
    <2>1. \A k \in S : kept(k)
      BY <1>10 DEF CloneKeeps
    <2>2. \A c \in Args(g, n) : \E k \in Args(h, o) : c = f[k] /\ g.slot[c] = h.slot[k]
      BY <1>6 DEF Args
    <2>3. \A k \in Args(h, o) : f[k] \in Args(g, n) /\ g.slot[f[k]] = h.slot[k]
      BY <1>6, <2>1 DEF Args
    <2>4. Numbered(g, n, l)
      BY <1>7, <1>8, <2>2, <2>3 DEF Numbered
    <2>5. g.kind[n] \in Pairs => l = 2
      BY <1>2, <1>7
    <2>6. NumberedIn(g)
      BY <1>5, <2>4, <2>5, AddNumbered
    <2> QED BY <2>6 DEF g
  <1> QED BY <1>9, <1>10

(* The operands of a call are the next fields of what is called. *)
LEMMA OperandsNext ==
  ASSUME NEW S, NEW as \in DistinctSeqs(S), NEW n \in Nat
  PROVE  \E m \in Nat : /\ DOMAIN Fields(as, n + 1) \subseteq S
                        /\ NextFields(Fields(as, n + 1), n, m)
  <1>1. PICK m \in Nat : as \in [1..m -> S]
    BY DEF DistinctSeqs
  <1>3. DOMAIN as = 1..m /\ \A i, j \in 1..m : as[i] = as[j] => i = j
    BY <1>1 DEF DistinctSeqs
  <1>4. DOMAIN Fields(as, n + 1) = Range(as) /\ NextFields(Fields(as, n + 1), n, m)
    BY <1>1, <1>3, FieldsNext
  <1>5. Range(as) \subseteq S
    BY <1>1 DEF Range
  <1> QED BY <1>1, <1>4, <1>5

LEMMA PutArgsNumbered ==
  ASSUME NEW h, Good(h), NumberedIn(h), NEW o \in Obj, h.kind[o] # "free",
         h.kind[o] \notin Pairs, NEW S, S \subseteq Cell,
         \A k \in S : h.own[k] \notin Obj, NEW as \in DistinctSeqs(S)
  PROVE  NumberedIn(PutArgs(h, o, as))
  <1>1. PICK n \in Nat : Numbered(h, o, n)
    BY DEF NumberedIn, Live
  <1>2. Cardinality(Args(h, o)) = n
    BY <1>1, NumberedCount
  <1> DEFINE at == Fields(as, n + 1)
             g == Store(h, o, at)
  <1>3. PutArgs(h, o, as) = g
    BY <1>2 DEF PutArgs
  <1>4. PICK m \in Nat : DOMAIN at \subseteq S /\ NextFields(at, n, m)
    BY OperandsNext
  <1> HIDE DEF at
  <1>5. DOMAIN at \subseteq Cell /\ \A k \in DOMAIN at : h.own[k] \notin Obj
    BY <1>4
  <1>6. Numbered(g, o, n + m) /\ n + m \in Nat
    BY <1>1, <1>4, <1>5, StoreNumbered
  <1>7. g.kind = h.kind /\ \A p \in Obj : p # o => SameFields(h, g, p)
    BY <1>5, StoreFacts
  <1> HIDE DEF g
  <1>8. NumberedIn(g)
    <2>1. \A p \in Live(g) : p # o => /\ p \in Live(h) /\ g.kind[p] = h.kind[p]
                                       /\ SameFields(h, g, p)
      BY <1>7 DEF Live
    <2>2. g.kind[o] \notin Pairs
      BY <1>7
    <2> DEFINE l == n + m
    <2>3. l \in Nat /\ Numbered(g, o, l)
      BY <1>6
    <2> HIDE DEF l
    <2> QED BY <2>1, <2>2, <2>3, AddNumbered
  <1> QED BY <1>3, <1>8

-----------------------------------------------------------------------------
(* The inductive invariant, and what an operation leaves alone. *)

Shape(h) == Good(h) /\ AcyclicIn(h) /\ NumberedIn(h)

(* Object o and its fields are what they were. *)
Untouched(h, g, o) ==
  /\ g.kind[o] = h.kind[o]
  /\ SameFields(h, g, o)
  /\ \A k \in Held(h, o) : g.ref[k] = h.ref[k]

LEMMA UntouchedTwice ==
  ASSUME NEW f, NEW g, NEW h, NEW o, Untouched(f, g, o), Untouched(g, h, o)
  PROVE  Untouched(f, h, o)
  BY DEF Untouched, SameFields

LEMMA EmptyShape == Shape(EmptyHeap)
  <1>1. Live(EmptyHeap) = {}
    BY DEF Live, EmptyHeap
  <1> QED BY <1>1, EmptyGood DEF Shape, AcyclicIn, NumberedIn

LEMMA MakeShape ==
  ASSUME NEW h, Shape(h), NEW c \in Cell, h.own[c] = "unused", NEW w \in Word
  PROVE  /\ Shape(hvalue_make(h, c, w))
         /\ \A k \in Cell : k # c => /\ hvalue_make(h, c, w).own[k] = h.own[k]
                                      /\ hvalue_make(h, c, w).ref[k] = h.ref[k]
         /\ \A o \in Obj : Untouched(h, hvalue_make(h, c, w), o)
  <1> DEFINE g == hvalue_make(h, c, w)
  <1>1. h.own[c] \notin Obj
    BY HolderAssumption DEF Holder
  <1>2. Good(g) /\ AcyclicIn(g) /\ NumberedIn(g)
    BY <1>1, MakeGood, MakeAcyclic, MakeNumbered DEF Shape
  <1>3. /\ \A k \in Cell : k # c => g.own[k] = h.own[k] /\ g.ref[k] = h.ref[k]
        /\ g.own[c] = "client" /\ g.kind = h.kind /\ g.slot = h.slot
    BY DEF Shape, Good, Heap, hvalue_make
  <1> HIDE DEF g
  <1>4. \A o \in Obj : Untouched(h, g, o)
    BY <1>3, HolderAssumption DEF Untouched, SameFields, Held, Holder
  <1> QED BY <1>2, <1>3, <1>4 DEF Shape, g

LEMMA RefShape ==
  ASSUME NEW h, Shape(h), NEW c \in Cell, NEW d \in Cell, h.own[d] = "unused"
  PROVE  /\ Shape(hvalue_ref(h, c, d))
         /\ \A k \in Cell : k # d => /\ hvalue_ref(h, c, d).own[k] = h.own[k]
                                      /\ hvalue_ref(h, c, d).ref[k] = h.ref[k]
         /\ hvalue_ref(h, c, d).own[d] = "client"
         /\ hvalue_ref(h, c, d).kind = h.kind
         /\ \A o \in Obj : /\ Untouched(h, hvalue_ref(h, c, d), o)
                           /\ h.rc[o] > 1 => hvalue_ref(h, c, d).rc[o] > 1
  <1> DEFINE g == hvalue_ref(h, c, d)
  <1>1. h.own[d] \notin Obj
    BY HolderAssumption DEF Holder
  <1>2. Good(g) /\ AcyclicIn(g) /\ NumberedIn(g)
    BY <1>1, RefGood, RefAcyclic, RefNumbered DEF Shape
  <1>3. /\ \A k \in Cell : k # d => g.own[k] = h.own[k] /\ g.ref[k] = h.ref[k]
        /\ g.own[d] = "client" /\ g.kind = h.kind /\ g.slot = h.slot
        /\ \A o \in Obj : h.rc[o] \in Nat /\ (g.rc[o] = h.rc[o] \/ g.rc[o] = h.rc[o] + 1)
    BY DEF Shape, Good, Heap, hvalue_ref
  <1> HIDE DEF g
  <1>4. \A o \in Obj : Untouched(h, g, o)
    BY <1>3, HolderAssumption DEF Untouched, SameFields, Held, Holder
  <1>5. \A o \in Obj : h.rc[o] > 1 => g.rc[o] > 1
    BY <1>3
  <1> QED BY <1>2, <1>3, <1>4, <1>5 DEF Shape, g

(* Dropping a reference touches no object of which it is not the last one. *)
LEMMA DropShape ==
  ASSUME NEW h, Shape(h), NEW c \in Cell, h.own[c] \notin Obj
  PROVE  /\ Shape(hvalue_drop(h, c))
         /\ \A k \in Cell : k # c /\ h.own[k] \notin Obj =>
              /\ hvalue_drop(h, c).own[k] = h.own[k]
              /\ hvalue_drop(h, c).ref[k] = h.ref[k]
         /\ \A k \in Cell : hvalue_drop(h, c).ref[k] \in {h.ref[k], Blank}
         /\ hvalue_drop(h, c).ref[c] = Blank
         /\ \A o \in Obj : h.rc[o] > 1 \/ h.ref[c] # o =>
              Untouched(h, hvalue_drop(h, c), o)
  <1> DEFINE g == hvalue_drop(h, c)
             frees == IsLast(h, h.ref[c])
  <1>1. Good(g) /\ AcyclicIn(g) /\ NumberedIn(g)
    BY DropGood, DropAcyclic, DropNumbered DEF Shape
  <1>2. /\ \A p \in Obj : g.kind[p] = IF p = h.ref[c] /\ frees THEN "free" ELSE h.kind[p]
        /\ \A k \in Cell : \/ g.own[k] = h.own[k] /\ g.slot[k] = h.slot[k]
                              /\ ~(frees /\ h.own[k] = h.ref[c])
                           \/ g.own[k] \in Holder /\ k = c
                           \/ g.own[k] \in Holder /\ frees /\ h.own[k] = h.ref[c]
        /\ \A k \in Cell : g.ref[k] = IF k = c THEN Blank ELSE h.ref[k]
    BY DEF Shape, Good, Heap, hvalue_drop, Holder
  <1>3. /\ frees => h.ref[c] \in Obj /\ h.rc[h.ref[c]] = 1
    BY DEF IsLast
  <1> HIDE DEF g, frees
  <1>4. \A k \in Cell : k # c /\ h.own[k] \notin Obj =>
          g.own[k] = h.own[k] /\ g.ref[k] = h.ref[k]
    BY <1>2, <1>3
  <1>5. ASSUME NEW o \in Obj, h.rc[o] > 1 \/ h.ref[c] # o PROVE Untouched(h, g, o)
    <2>1. ~(frees /\ h.ref[c] = o)
      BY <1>3, <1>5
    <2>2. \A k \in Cell : /\ g.own[k] = o <=> h.own[k] = o
                          /\ h.own[k] = o => g.slot[k] = h.slot[k] /\ k # c
      BY <1>2, <2>1, HolderAssumption
    <2> QED BY <1>2, <2>1, <2>2 DEF Untouched, SameFields, Held
  <1>6. (\A k \in Cell : g.ref[k] \in {h.ref[k], Blank}) /\ g.ref[c] = Blank
    BY <1>2
  <1> QED BY <1>1, <1>4, <1>5, <1>6 DEF Shape, g

(* No field that a free drops or loses is the client's. *)
LEMMA DropClients ==
  ASSUME NEW h, Shape(h), NEW c \in Cell
  PROVE  Held(hvalue_drop(h, c), "client") = Held(h, "client") \ {c}
  <1> DEFINE g == hvalue_drop(h, c)
             o == h.ref[c]
             frees == IsLast(h, o)
  <1>1. \A k \in Cell : g.own[k] = IF k = c THEN "unused"
                                  ELSE IF frees /\ h.own[k] = o
                                    THEN IF Dropped(h, o, k) THEN "dropping" ELSE "lost"
                                    ELSE h.own[k]
    BY DEF hvalue_drop
  <1>2. frees => o # "client"
    BY HolderAssumption DEF IsLast, Holder
  <1> HIDE DEF g, frees, o
  <1>3. \A k \in Cell : g.own[k] = "client" <=> k # c /\ h.own[k] = "client"
    BY <1>1, <1>2
  <1> QED BY <1>3 DEF Held, g

LEMMA MoveShape ==
  ASSUME NEW h, Shape(h), NEW c \in Cell, h.own[c] = "client"
  PROVE  /\ Shape([h EXCEPT !.own[c] = "lost"])
         /\ \A o \in Obj : Untouched(h, [h EXCEPT !.own[c] = "lost"], o)
  <1> DEFINE g == [h EXCEPT !.own[c] = "lost"]
  <1>1. /\ g \in Heap /\ g.ref = h.ref /\ g.rc = h.rc /\ g.kind = h.kind /\ g.slot = h.slot
        /\ \A k \in Cell : g.own[k] = IF k = c THEN "lost" ELSE h.own[k]
    BY DEF Shape, Good, Heap, Holder
  <1> HIDE DEF g
  <1>2. Good(g)
    BY <1>1, MoveGood DEF Shape
  <1>3. AcyclicIn(g) /\ NumberedIn(g)
    BY <1>1, HolderAssumption, MoveAcyclic, MoveNumbered DEF Shape, Holder
  <1>4. \A o \in Obj : Untouched(h, g, o)
    BY <1>1, HolderAssumption DEF Untouched, SameFields, Held, Holder
  <1> QED BY <1>2, <1>3, <1>4 DEF Shape, g

LEMMA TakeArgsShape ==
  ASSUME NEW h, Shape(h), NEW o \in Obj, h.kind[o] \notin Pairs
  PROVE  /\ Shape(TakeArgs(h, o)) /\ TakeArgs(h, o).ref = h.ref
         /\ \A k \in Cell : h.own[k] = "client" => TakeArgs(h, o).own[k] = "client"
         /\ \A p \in Obj : p # o => Untouched(h, TakeArgs(h, o), p)
  <1> DEFINE g == TakeArgs(h, o)
  <1>1. /\ g.ref = h.ref /\ g.kind = h.kind
        /\ \A k \in Cell : k \in Args(h, o) => g.own[k] = "client" /\ h.own[k] = o
        /\ \A k \in Cell : k \notin Args(h, o) => g.own[k] = h.own[k] /\ g.slot[k] = h.slot[k]
    BY DEF Shape, Good, Heap, TakeArgs, Args, Held
  <1>2. Good(g) /\ NumberedIn(g)
    BY TakeArgsGood, TakeArgsNumbered DEF Shape
  <1> HIDE DEF g
  <1>3. AcyclicIn(g)
    <2>1. \A k \in Cell : g.own[k] = h.own[k] \/ g.own[k] \notin Obj
      BY <1>1, HolderAssumption DEF Holder
    <2> QED BY <1>1, <2>1, MoveAcyclic DEF Shape
  <1>4. \A p \in Obj : p # o => Untouched(h, g, p)
    BY <1>1, HolderAssumption DEF Untouched, SameFields, Held, Holder
  <1>5. \A k \in Cell : h.own[k] = "client" => g.own[k] = "client"
    BY <1>1
  <1> QED BY <1>1, <1>2, <1>3, <1>4, <1>5 DEF Shape, g

(* Operands go into an object to which d is the one reference. *)
Filled(h, g, o, d) ==
  /\ Shape(g) /\ g.ref = h.ref /\ g.kind = h.kind /\ g.own[d] = "client"
  /\ \A p \in Obj : p # o => Untouched(h, g, p)

LEMMA PutArgsShape ==
  ASSUME NEW h, Shape(h), NEW o \in Obj, h.kind[o] # "free", h.kind[o] \notin Pairs,
         NEW d \in Cell, h.own[d] = "client", h.ref[d] = o,
         \A k \in Cell : h.ref[k] = o => k = d,
         NEW S, S \subseteq Cell, d \notin S, \A k \in S : h.own[k] = "client",
         NEW as \in DistinctSeqs(S)
  PROVE  Filled(h, PutArgs(h, o, as), o, d)
  <1> DEFINE n == Cardinality(Args(h, o))
             at == Fields(as, n + 1)
             g == Store(h, o, at)
  <1>1. PutArgs(h, o, as) = g
    BY DEF PutArgs
  <1>2. \A k \in S : h.own[k] \notin Obj
    BY HolderAssumption DEF Holder
  <1>3. Good(g) /\ NumberedIn(g)
    BY <1>1, <1>2, PutArgsGood, PutArgsNumbered DEF Shape
  <1>4. n \in Nat
    BY HeldFacts, FS_CardinalityType DEF Shape
  <1>5. DOMAIN at \subseteq S
    BY <1>4, OperandsNext
  <1> HIDE DEF at
  <1>6. \A k \in Cell : h.ref[k] = o => h.own[k] \notin Obj /\ k \notin DOMAIN at
    BY <1>5, HolderAssumption DEF Holder
  <1>7. AcyclicIn(g)
    BY <1>6, StoreAcyclic DEF Shape
  <1>8. /\ g.ref = h.ref /\ g.kind = h.kind
        /\ g.own[d] = "client"
    BY <1>5 DEF Store, Shape, Good, Heap
  <1>9. \A p \in Obj : p # o => SameFields(h, g, p)
    BY <1>2, <1>5, StoreFacts DEF Shape
  <1> HIDE DEF g
  <1>10. \A p \in Obj : p # o => Untouched(h, g, p)
    BY <1>8, <1>9 DEF Untouched
  <1> QED BY <1>1, <1>3, <1>7, <1>8, <1>10 DEF Shape, Filled

(* What a new object leaves alone. *)
LEMMA AllocLeaves ==
  ASSUME NEW h, Shape(h), NEW o \in Obj, h.kind[o] = "free",
         NEW c \in Cell, h.own[c] = "unused", NEW kind,
         NEW at, DOMAIN at \subseteq Cell, \A k \in DOMAIN at : h.own[k] \notin Obj
  PROVE  /\ \A k \in Cell : k # c /\ k \notin DOMAIN at =>
              /\ Alloc(h, o, c, kind, at).own[k] = h.own[k]
              /\ Alloc(h, o, c, kind, at).ref[k] = h.ref[k]
         /\ \A p \in Obj : p # o => Untouched(h, Alloc(h, o, c, kind, at), p)
  <1> DEFINE g == Alloc(h, o, c, kind, at)
  <1>1. /\ \A k \in Cell : g.own[k] = IF k \in DOMAIN at THEN o
                                      ELSE IF k = c THEN "client" ELSE h.own[k]
        /\ \A k \in Cell : g.slot[k] = IF k \in DOMAIN at THEN at[k] ELSE h.slot[k]
        /\ \A k \in Cell : g.ref[k] = IF k = c THEN o ELSE h.ref[k]
        /\ \A p \in Obj : g.kind[p] = IF p = o THEN kind ELSE h.kind[p]
    BY DEF Shape, Good, Heap, Alloc, Store
  <1> HIDE DEF g
  <1>2. ASSUME NEW p \in Obj, p # o PROVE Untouched(h, g, p)
    <2>1. p # "client" /\ p # "unused"
      BY HolderAssumption DEF Holder
    <2>2. \A k \in Cell : /\ g.own[k] = p <=> h.own[k] = p
                          /\ h.own[k] = p => g.slot[k] = h.slot[k] /\ g.ref[k] = h.ref[k]
      BY <1>1, <1>2, <2>1
    <2> QED BY <1>1, <1>2, <2>2 DEF Untouched, SameFields, Held
  <1> QED BY <1>1, <1>2 DEF g

LEMMA AllocShape ==
  ASSUME NEW h, Shape(h), NEW o \in Obj, h.kind[o] = "free",
         NEW c \in Cell, h.own[c] = "unused", NEW kind \in Kind \ {"free"},
         NEW at, DOMAIN at \subseteq Cell, \A k \in DOMAIN at : h.own[k] = "client",
         NEW m \in Nat, NextFields(at, 0, m), kind \in Pairs => m = 2
  PROVE  /\ Shape(Alloc(h, o, c, kind, at))
         /\ \A p \in Obj : p # o => Untouched(h, Alloc(h, o, c, kind, at), p)
  <1>1. /\ \A k \in DOMAIN at : h.own[k] \notin Obj
        /\ c \notin DOMAIN at
    BY HolderAssumption DEF Holder
  <1>2. \A k \in DOMAIN at : at[k] \in Nat
    <2>1. \A k \in DOMAIN at : at[k] \in 0 + 1..0 + m
      BY DEF NextFields
    <2> QED BY <2>1
  <1>3. Good(Alloc(h, o, c, kind, at))
    BY <1>2, AllocGood DEF Shape
  <1>4. AcyclicIn(Alloc(h, o, c, kind, at))
    BY <1>1, AllocAcyclic DEF Shape
  <1>5. NumberedIn(Alloc(h, o, c, kind, at))
    BY <1>1, AllocNumbered DEF Shape
  <1>6. \A p \in Obj : p # o => Untouched(h, Alloc(h, o, c, kind, at), p)
    BY <1>1, AllocLeaves
  <1> QED BY <1>3, <1>4, <1>5, <1>6 DEF Shape

LEMMA AllocDataShape ==
  ASSUME NEW h, Shape(h), NEW o \in Obj, h.kind[o] = "free",
         NEW c \in Cell, h.own[c] = "unused", NEW kind \in Kind \ {"free"}, kind \notin Pairs,
         NEW x \in Cell, h.own[x] = "client"
  PROVE  LET g == Alloc(h, o, c, kind, [k \in {x} |-> 0])
         IN /\ Shape(g)
            /\ \A k \in Cell : k # c /\ k # x => g.own[k] = h.own[k] /\ g.ref[k] = h.ref[k]
            /\ \A p \in Obj : p # o => Untouched(h, g, p)
  <1> DEFINE at == [k \in {x} |-> 0]
             g == Alloc(h, o, c, kind, at)
  <1>1. h.own[x] \notin Obj
    BY HolderAssumption DEF Holder
  <1>2. NumberedIn(g)
    BY <1>1, AllocDataNumbered DEF Shape
  <1>3. DOMAIN at = {x} /\ at[x] = 0 /\ c # x
    OBVIOUS
  <1> HIDE DEF at
  <1>4. DOMAIN at \subseteq Cell /\ \A k \in DOMAIN at : at[k] \in Nat /\ h.own[k] \notin Obj
    BY <1>1, <1>3
  <1>5. Good(g)
    BY <1>4, AllocGood DEF Shape
  <1>6. AcyclicIn(g)
    BY <1>3, AllocAcyclic DEF Shape
  <1>7. /\ \A k \in Cell : k # c /\ k # x => g.own[k] = h.own[k] /\ g.ref[k] = h.ref[k]
        /\ \A p \in Obj : p # o => Untouched(h, g, p)
    BY <1>3, <1>4, AllocLeaves
  <1>8. Shape(g)
    BY <1>2, <1>5, <1>6 DEF Shape
  <1> QED BY <1>7, <1>8 DEF g, at

(* g is h with a copy n of object o, to which d is the one reference. *)
Copied(h, g, o, n, d) ==
  /\ Shape(g) /\ g.own[d] = "client" /\ g.ref[d] = n /\ g.kind[n] = h.kind[o]
  /\ \A k \in Cell : g.ref[k] = n => k = d
  /\ \A k \in Cell : h.own[k] # "unused" =>
       g.own[k] = h.own[k] /\ g.ref[k] = h.ref[k]
  /\ \A k \in Cell : g.own[k] = "client" => k = d \/ h.own[k] = "client"
  /\ \A p \in Obj : p # n =>
       Untouched(h, g, p) /\ (h.rc[p] > 1 => g.rc[p] > 1)

LEMMA CloneShape ==
  ASSUME NEW h, Shape(h), CloneContract,
         NEW o \in Obj, NEW n \in Obj, h.kind[o] # "free", h.kind[n] = "free",
         NEW T, T \subseteq Held(h, "unused"), NEW d \in T,
         NEW f \in Bijections(Held(h, o), T \ {d})
  PROVE  Copied(h, hvalue_clone(h, o, n, d, f), o, n, d)
  <1> DEFINE g == hvalue_clone(h, o, n, d, f)
             S == Held(h, o)
             isCopy(c) == \E k \in S : f[k] = c
  <1>0. /\ f \in [S -> T \ {d}] /\ DOMAIN f = S /\ d \in Cell /\ h.own[d] = "unused"
        /\ \A k \in S : f[k] \in Cell /\ h.own[f[k]] = "unused" /\ f[k] # d
        /\ \A k \in S : k \in Cell
    BY DEF Bijections, Held
  <1>1. Good(g) /\ AcyclicIn(g) /\ NumberedIn(g)
    BY CloneGood, CloneAcyclic, CloneNumbered DEF Shape
  <1>2. /\ \A k \in Cell : k # d /\ ~isCopy(k) =>
             g.own[k] = h.own[k] /\ g.ref[k] = h.ref[k] /\ g.slot[k] = h.slot[k]
        /\ \A k \in Cell : isCopy(k) => g.own[k] \in {n, "lost"}
        /\ \A k \in Cell : isCopy(k) /\ k # d =>
             g.ref[k] = h.ref[CHOOSE x \in S : f[x] = k]
        /\ \A p \in Obj : g.kind[p] = IF p = n THEN h.kind[o] ELSE h.kind[p]
        /\ g.rc[n] = 1 /\ g.own[d] = "client" /\ g.ref[d] = n
    BY <1>0 DEF Shape, Good, Heap, hvalue_clone
  <1>3. ASSUME NEW p \in Obj, p # n PROVE g.rc[p] \in Nat /\ g.rc[p] >= h.rc[p]
    <2> DEFINE E == {k \in DOMAIN f : CloneRefs(h, o, k) /\ h.ref[k] = p}
    <2>1. IsFiniteSet(E) /\ Cardinality(E) \in Nat
      BY <1>0, CellAssumption, FS_Subset, FS_CardinalityType
    <2>2. g.rc[p] = h.rc[p] + Cardinality(E)
      BY <1>3 DEF hvalue_clone
    <2>3. h.rc[p] \in Nat
      BY DEF Shape, Good, Heap
    <2> HIDE DEF E, g
    <2> QED BY <2>1, <2>2, <2>3
  <1> HIDE DEF g
  <1>4. \A k \in Cell : isCopy(k) => (CHOOSE x \in S : f[x] = k) \in Cell
    BY <1>0
  <1>5. \A k \in Cell : h.ref[k] # n /\ h.own[k] # n
    BY FreeUnreferenced DEF Shape, Good, OwnersLive
  <1>6. \A k \in Cell : g.ref[k] = n => k = d
    BY <1>2, <1>4, <1>5
  <1>7. \A k \in Cell : h.own[k] # "unused" => k # d /\ ~isCopy(k)
    BY <1>0
  <1>8. ASSUME NEW p \in Obj, p # n
        PROVE  Untouched(h, g, p) /\ (h.rc[p] > 1 => g.rc[p] > 1)
    <2>1. p # "client" /\ p # "lost" /\ p # "unused"
      BY HolderAssumption DEF Holder
    <2>2. \A k \in Cell : h.own[k] = p => k # d /\ ~isCopy(k)
      BY <1>7, <2>1
    <2>3. \A k \in Cell : g.own[k] = p => h.own[k] = p
      BY <1>2, <1>8, <2>1
    <2>4. \A k \in Cell : h.own[k] = p =>
            g.own[k] = p /\ g.slot[k] = h.slot[k] /\ g.ref[k] = h.ref[k]
      BY <1>2, <2>2
    <2>5. Untouched(h, g, p)
      BY <1>2, <1>8, <2>3, <2>4 DEF Untouched, SameFields, Held
    <2>6. h.rc[p] > 1 => g.rc[p] > 1
      <3>1. h.rc[p] \in Nat
        BY DEF Shape, Good, Heap
      <3> QED BY <1>3, <1>8, <3>1
    <2> QED BY <2>5, <2>6
  <1>9. \A k \in Cell : g.own[k] = "client" => k = d \/ h.own[k] = "client"
    BY <1>2, HolderAssumption DEF Holder
  <1>10. Copied(h, g, o, n, d)
    BY <1>1, <1>2, <1>6, <1>7, <1>8, <1>9 DEF Shape, Copied
  <1> QED BY <1>10 DEF g

LEMMA OneReference ==
  ASSUME NEW h, Good(h), NEW c \in Cell, NEW o \in Obj, h.ref[c] = o, h.rc[o] <= 1
  PROVE  \A k \in Cell : h.ref[k] = o => k = c
  <1> SUFFICES ASSUME NEW k \in Cell, h.ref[k] = o, k # c PROVE FALSE
    OBVIOUS
  <1>1. {c, k} \subseteq Refs(h, o)
    BY DEF Refs
  <1>2. Cardinality({c, k}) = 2
    <2>1. Cardinality({c}) = 1 /\ IsFiniteSet({c}) /\ k \notin {c} /\ {c} \cup {k} = {c, k}
      BY FS_Singleton
    <2>2. Cardinality({c} \cup {k}) = 1 + 1
      BY <2>1, FS_AddElement
    <2> QED BY <2>1, <2>2
  <1>3. Cardinality({c, k}) <= Cardinality(Refs(h, o))
    BY <1>1, RefsFinite, FS_Subset
  <1>4. h.rc[o] = Cardinality(Refs(h, o)) /\ Cardinality(Refs(h, o)) \in Nat
    BY RefsFinite DEF Good, Counted
  <1> QED BY <1>2, <1>3, <1>4

(* A clone is a new object with one reference; all else is left alone. *)
LEMMA ClonesShape ==
  ASSUME NEW h, Shape(h), CloneContract, NEW o \in Obj, h.kind[o] # "free",
         NEW u \in Clones(h, o)
  PROVE  LET n == u[1].ref[u[2]]
         IN /\ u[2] \in Cell /\ h.own[u[2]] = "unused" /\ n \in Obj /\ h.rc[n] = 0
            /\ Copied(h, u[1], o, n, u[2])
  <1>1. PICK n \in FreshObj(h), T \in FreshCells(h, Cardinality(Held(h, o)) + 1) :
          \E d \in T : \E f \in Bijections(Held(h, o), T \ {d}) :
            u = <<hvalue_clone(h, o, n, d, f), d>>
    BY DEF Clones
  <1>2. PICK d \in T : \E f \in Bijections(Held(h, o), T \ {d}) :
            u = <<hvalue_clone(h, o, n, d, f), d>>
    BY <1>1
  <1>3. PICK f \in Bijections(Held(h, o), T \ {d}) :
            u = <<hvalue_clone(h, o, n, d, f), d>>
    BY <1>2
  <1>4. n \in Obj /\ h.kind[n] = "free" /\ T \subseteq Held(h, "unused")
    BY FreshFacts
  <1>5. d \in Cell /\ h.own[d] = "unused"
    BY <1>4 DEF Held
  <1>6. h.rc[n] = 0
    BY <1>4 DEF Shape, Good, FreedAtZero
  <1>7. Copied(h, hvalue_clone(h, o, n, d, f), o, n, d)
    BY <1>4, CloneShape
  <1>8. Copied(h, u[1], o, n, u[2]) /\ u[2] = d
    BY <1>3, <1>7
  <1>9. u[1].ref[u[2]] = n
    BY <1>8 DEF Copied
  <1> QED BY <1>4, <1>5, <1>6, <1>8, <1>9

(* What hvalue_uniq returns is the one reference to its object, which is   *)
(* none that was shared before.                                            *)
LEMMA UniqShape ==
  ASSUME NEW h, Shape(h), CloneContract, NEW c \in Cell, h.own[c] = "client",
         h.ref[c] \in Obj, NEW u \in hvalue_uniq(h, c)
  PROVE  LET g == u[1]
             d == u[2]
             o == g.ref[d]
         IN /\ Shape(g) /\ d \in Cell /\ g.own[d] = "client"
            /\ o \in Obj /\ g.kind[o] # "free" /\ g.kind[o] = h.kind[h.ref[c]]
            /\ \A k \in Cell : g.ref[k] = o => k = d
            /\ \A k \in Cell : h.own[k] = "client" /\ k # c => k # d /\ g.own[k] = "client"
            /\ \A k \in Cell : g.own[k] = "client" => k = d \/ (k # c /\ h.own[k] = "client")
            /\ \A p \in Obj : h.rc[p] > 1 => p # o /\ Untouched(h, g, p)
  <1> DEFINE s == h.ref[c]
  <1>0. h.kind[s] # "free" /\ s \in Obj /\ \A p \in Obj : h.rc[p] \in Nat
    BY FreeUnreferenced DEF Shape, Good, Heap
  <1>1. CASE h.rc[s] <= 1
    <2>1. u = <<h, c>>
      BY <1>1 DEF hvalue_uniq, hvalue_is_uniq
    <2>2. \A k \in Cell : h.ref[k] = s => k = c
      BY <1>1, <1>0, OneReference DEF Shape
    <2>3. \A p \in Obj : h.rc[p] > 1 => p # s /\ Untouched(h, h, p)
      BY <1>1, <1>0 DEF Untouched, SameFields
    <2> HIDE DEF s
    <2>4. u[1] = h /\ u[2] = c /\ h.ref[c] = s
      BY <2>1 DEF s
    <2> QED BY <1>0, <2>2, <2>3, <2>4
  <1>2. CASE ~(h.rc[s] <= 1)
    <2>1. PICK v \in Clones(h, s) : u = <<hvalue_drop(v[1], c), v[2]>>
      BY <1>2 DEF hvalue_uniq, hvalue_is_uniq
    <2> DEFINE f == v[1]
               d == v[2]
               n == f.ref[d]
               g == hvalue_drop(f, c)
    <2>2. /\ Shape(f) /\ d \in Cell /\ h.own[d] = "unused" /\ f.own[d] = "client"
          /\ n \in Obj /\ h.rc[n] = 0 /\ f.kind[n] = h.kind[s]
          /\ \A k \in Cell : f.ref[k] = n => k = d
          /\ \A k \in Cell : h.own[k] # "unused" => f.own[k] = h.own[k] /\ f.ref[k] = h.ref[k]
          /\ \A k \in Cell : f.own[k] = "client" => k = d \/ h.own[k] = "client"
          /\ \A p \in Obj : p # n => Untouched(h, f, p) /\ (h.rc[p] > 1 => f.rc[p] > 1)
      BY <1>0, ClonesShape DEF Copied
    <2>3. u[1] = g /\ u[2] = d
      BY <2>1
    <2> HIDE DEF f, d
    <2>4. c # d /\ f.own[c] = "client" /\ f.ref[c] = s /\ "client" \notin Obj
      BY <2>2, HolderAssumption DEF Holder
    <2>5. s # n
      BY <1>2, <2>2
    <2>6. /\ Shape(g)
          /\ \A k \in Cell : k # c /\ f.own[k] \notin Obj =>
               g.own[k] = f.own[k] /\ g.ref[k] = f.ref[k]
          /\ \A k \in Cell : g.ref[k] \in {f.ref[k], Blank}
          /\ \A p \in Obj : f.rc[p] > 1 \/ f.ref[c] # p => Untouched(f, g, p)
      BY <2>2, <2>4, DropShape
    <2> HIDE DEF g, n, s
    <2>7. g.own[d] = "client" /\ g.ref[d] = n
      BY <2>2, <2>4, <2>6 DEF n
    <2>8. g.kind[n] = h.kind[s]
      BY <2>2, <2>4, <2>5, <2>6 DEF Untouched
    <2>9. \A k \in Cell : g.ref[k] = n => k = d
      BY <2>2, <2>6, WordAssumption
    <2>10. \A k \in Cell : h.own[k] = "client" /\ k # c => k # d /\ g.own[k] = "client"
      BY <2>2, <2>4, <2>6
    <2>11. ASSUME NEW p \in Obj, h.rc[p] > 1 PROVE p # n /\ Untouched(h, g, p)
      <3>1. p # n
        BY <2>2, <2>11
      <3>2. Untouched(h, f, p) /\ Untouched(f, g, p)
        BY <2>2, <2>6, <2>11, <3>1
      <3> QED BY <3>1, <3>2, UntouchedTwice
    <2>12. h.ref[c] = s
      BY DEF s
    <2>13. \A k \in Cell : g.own[k] = "client" => k = d \/ (k # c /\ h.own[k] = "client")
      <3>1. Held(g, "client") = Held(f, "client") \ {c}
        BY <2>2, DropClients DEF g
      <3> QED BY <2>2, <3>1 DEF Held
    <2> QED BY <1>0, <2>2, <2>3, <2>6, <2>7, <2>8, <2>9, <2>10, <2>11, <2>12, <2>13
  <1> QED BY <1>1, <1>2

(* Live objects are finitely many, since each is referred to. *)
LEMMA LiveFinite ==
  ASSUME NEW h, Good(h)
  PROVE  IsFiniteSet(Live(h))
  <1> DEFINE f == [c \in Cell |-> h.ref[c]]
             R == {h.ref[c] : c \in Cell}
  <1>1. IsFiniteSet(R)
    <2>1. f \in Surjection(Cell, R)
      BY DEF Surjection
    <2> HIDE DEF f, R
    <2> QED BY <2>1, CellAssumption, FS_Surjection
  <1>2. ASSUME NEW o \in Live(h) PROVE \E c \in Cell : h.ref[c] = o
    <2>1. o \in Obj /\ Cardinality(Refs(h, o)) # 0
      BY DEF Live, Good, Counted, FreedAtZero
    <2>2. Refs(h, o) # {}
      BY <2>1, FS_EmptySet
    <2> QED BY <2>2 DEF Refs
  <1>3. Live(h) \subseteq R
    BY <1>2
  <1> QED BY <1>1, <1>3, FS_Subset

(* Without cycles, some object of each set has no field in the set. *)
LEMMA Bottom ==
  ASSUME NEW h, Shape(h), NEW S \in SUBSET Live(h), S # {}
  PROVE  \E o \in S : \A c \in Cell : h.own[c] = o => h.ref[c] \notin S
  <1> DEFINE into(T) == \A o \in T : \E c \in Cell : h.own[c] = o /\ h.ref[c] \in T
             D == {T \in SUBSET S : T # {} /\ into(T)}
  <1> SUFFICES ASSUME into(S) PROVE FALSE
    OBVIOUS
  <1>1. S \in D
    OBVIOUS
  <1>2. IsFiniteSet(S)
    BY LiveFinite, FS_Subset DEF Shape
  <1>3. D \subseteq FiniteSubsetsOf(S)
    BY <1>2, FS_Subset DEF FiniteSubsetsOf
  <1>4. PICK T \in D : \A U \in D : ~(<<U, T>> \in StrictSubsetOrdering(S))
    <2> HIDE DEF D
    <2> QED BY <1>1, <1>3, FS_StrictSubsetOrderingWellFounded, WFMin
  <1>5. PICK o \in T : \A c \in Cell : h.own[c] \in T => h.ref[c] # o
    BY <1>4 DEF Shape, AcyclicIn
  <1> DEFINE U == T \ {o}
  <1>6. into(U)
    <2> SUFFICES ASSUME NEW p \in U
                 PROVE  \E c \in Cell : h.own[c] = p /\ h.ref[c] \in U
      OBVIOUS
    <2>1. PICK c \in Cell : h.own[c] = p /\ h.ref[c] \in T
      BY <1>4
    <2> QED BY <1>5, <2>1
  <1>7. U # {}
    <2>1. PICK c \in Cell : h.own[c] = o /\ h.ref[c] \in T
      BY <1>4
    <2> QED BY <1>5, <2>1
  <1>8. U \in D /\ <<U, T>> \in StrictSubsetOrdering(S)
    BY <1>4, <1>6, <1>7 DEF StrictSubsetOrdering
  <1> QED BY <1>4, <1>8
=============================================================================
