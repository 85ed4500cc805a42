--------------------------- MODULE ValueTermsProofs ---------------------------
(***************************************************************************)
(* Values implements Terms: what an HValue stands for never changes.       *)
(***************************************************************************)
EXTENDS ValueTerms, ValuesProofs, SequenceTheorems

-----------------------------------------------------------------------------
(* A heap without cycles determines the terms of all its cells. *)

IsTerms(h, t) == t = [c \in Cell |-> TermFrom(h, t, c)]
TermsOf(h) == CHOOSE t : IsTerms(h, t)

LEMMA FieldFacts ==
  ASSUME NEW h, NEW o, NEW i \in {h.slot[k] : k \in Held(h, o)}
  PROVE  ArgAt(h, o, i) \in Held(h, o) /\ h.slot[ArgAt(h, o, i)] = i
  BY DEF ArgAt

(* A term is made of the terms of the fields, and of nothing else. *)
LEMMA FromFields ==
  ASSUME NEW h, NEW c, NEW s, NEW t,
         h.ref[c] \in Obj => \A k \in Held(h, h.ref[c]) : s[k] = t[k]
  PROVE  TermFrom(h, s, c) = TermFrom(h, t, c)
  <1> DEFINE o == h.ref[c]
             I == {h.slot[k] : k \in Held(h, o)}
  <1>1. CASE o \notin Obj
    BY <1>1 DEF TermFrom
  <1>2. CASE o \in Obj
    <2>1. \A i \in I : s[ArgAt(h, o, i)] = t[ArgAt(h, o, i)]
      BY <1>2, FieldFacts
    <2>2. [i \in I |-> s[ArgAt(h, o, i)]] = [i \in I |-> t[ArgAt(h, o, i)]]
      BY <2>1
    <2> QED BY <1>2, <2>2 DEF TermFrom
  <1> QED BY <1>1, <1>2

LEMMA TermsExist ==
  ASSUME NEW h, Shape(h)
  PROVE  \E t : IsTerms(h, t)
  <1> DEFINE done(D, t) ==
               \A c \in D :
                 /\ t[c] = TermFrom(h, t, c)
                 /\ h.ref[c] \in Obj => Held(h, h.ref[c]) \subseteq D
             Open == {U \in SUBSET Cell : \E t : done(Cell \ U, t)}
  <1>1. Cell \in Open
    OBVIOUS
  <1>2. Open \subseteq FiniteSubsetsOf(Cell)
    BY CellAssumption, FS_Subset DEF FiniteSubsetsOf
  <1>3. PICK U \in Open : \A V \in Open : ~(<<V, U>> \in StrictSubsetOrdering(Cell))
    <2> HIDE DEF Open
    <2> QED BY <1>1, <1>2, FS_StrictSubsetOrderingWellFounded, WFMin
  <1>4. PICK t : done(Cell \ U, t)
    BY <1>3
  <1>5. ASSUME NEW c \in U, h.ref[c] \in Obj => Held(h, h.ref[c]) \cap U = {}
        PROVE  FALSE
    <2> DEFINE s == [k \in Cell |-> IF k = c THEN TermFrom(h, t, c) ELSE t[k]]
               V == U \ {c}
    <2>1. h.ref[c] \in Obj => \A k \in Held(h, h.ref[c]) : k \in Cell \ U
      BY <1>5 DEF Held
    <2>2. c \in Cell /\ s[c] = TermFrom(h, t, c) /\ \A k \in Cell \ U : s[k] = t[k]
      BY <1>3, <1>5
    <2> HIDE DEF s
    <2>3. ASSUME NEW k \in Cell \ V PROVE s[k] = TermFrom(h, s, k)
      <3>1. h.ref[k] \in Obj => \A j \in Held(h, h.ref[k]) : j \in Cell \ U
        BY <1>4, <2>1, <2>3
      <3>2. TermFrom(h, s, k) = TermFrom(h, t, k)
        <4>1. h.ref[k] \in Obj => \A j \in Held(h, h.ref[k]) : s[j] = t[j]
          BY <2>2, <3>1
        <4> QED BY <4>1, FromFields
      <3> QED BY <1>4, <2>2, <2>3, <3>2
    <2>4. \A k \in Cell \ V : h.ref[k] \in Obj => Held(h, h.ref[k]) \subseteq Cell \ V
      BY <1>4, <2>1
    <2>5. done(Cell \ V, s)
      BY <2>3, <2>4
    <2>6. V \in Open /\ <<V, U>> \in StrictSubsetOrdering(Cell)
      BY <1>3, <1>5, <2>5 DEF StrictSubsetOrdering
    <2> QED BY <1>3, <2>6
  <1>6. \A c \in U : h.ref[c] \in Obj
    BY <1>5
  <1>7. U = {}
    <2> SUFFICES ASSUME U # {} PROVE FALSE
      OBVIOUS
    <2> DEFINE S == {h.ref[c] : c \in U}
    <2>1. S \in SUBSET Live(h) /\ S # {}
      BY <1>3, <1>6, FreeUnreferenced DEF Shape, Live
    <2>2. PICK o \in S : \A k \in Cell : h.own[k] = o => h.ref[k] \notin S
      BY <2>1, Bottom
    <2>3. PICK c \in U : h.ref[c] = o
      BY <2>2
    <2>4. Held(h, h.ref[c]) \cap U = {}
      BY <2>2, <2>3 DEF Held
    <2> QED BY <1>5, <2>4
  <1> DEFINE s == [c \in Cell |-> t[c]]
  <1>8. \A c \in Cell : s[c] = TermFrom(h, s, c)
    <2> SUFFICES ASSUME NEW c \in Cell PROVE s[c] = TermFrom(h, s, c)
      OBVIOUS
    <2>1. TermFrom(h, s, c) = TermFrom(h, t, c)
      <3>1. \A k \in Held(h, h.ref[c]) : s[k] = t[k]
        BY DEF Held
      <3> QED BY <3>1, FromFields
    <2> QED BY <1>4, <1>7, <2>1
  <1>9. IsTerms(h, s)
    <2>1. s = [c \in Cell |-> s[c]]
      OBVIOUS
    <2> HIDE DEF s
    <2> QED BY <1>8, <2>1 DEF IsTerms
  <1> QED BY <1>9

LEMMA TermsAre ==
  ASSUME NEW h, Shape(h)
  PROVE  \A c \in Cell : TermsOf(h)[c] = TermFrom(h, TermsOf(h), c)
  <1>1. IsTerms(h, TermsOf(h))
    BY TermsExist DEF TermsOf
  <1> HIDE DEF TermsOf
  <1>2. ASSUME NEW t, IsTerms(h, t), NEW c \in Cell PROVE t[c] = TermFrom(h, t, c)
    BY <1>2 DEF IsTerms
  <1> QED BY <1>1, <1>2

(* The same objects stand for the same terms: O is closed under fields, and *)
(* none of its objects differs from h to g.                                *)
LEMMA SameTerms ==
  ASSUME NEW h, NEW g, Shape(h), Shape(g), NEW O \in SUBSET Obj,
         \A o \in O : /\ Untouched(h, g, o)
                      /\ \A k \in Held(h, o) : h.ref[k] \in Obj => h.ref[k] \in O
  PROVE  \A j, k \in Cell :
           g.ref[j] = h.ref[k] /\ (h.ref[k] \in Obj => h.ref[k] \in O) =>
             TermsOf(g)[j] = TermsOf(h)[k]
  <1> DEFINE differ(j, k) == g.ref[j] = h.ref[k] /\ TermsOf(g)[j] # TermsOf(h)[k]
             S == {o \in O : \E j, k \in Cell : h.ref[k] = o /\ differ(j, k)}
  <1>1. ASSUME NEW j \in Cell, NEW k \in Cell, differ(j, k), h.ref[k] \in Obj => h.ref[k] \in O
        PROVE  /\ h.ref[k] \in O
               /\ \E x \in Held(h, h.ref[k]) : h.ref[x] \in S
    <2> DEFINE o == h.ref[k]
               I == {h.slot[x] : x \in Held(h, o)}
               t == TermsOf(h)
               s == TermsOf(g)
    <2>1. t[k] = TermFrom(h, t, k) /\ s[j] = TermFrom(g, s, j)
      BY TermsAre
    <2> HIDE DEF t, s
    <2>2. o \in O
      <3> SUFFICES ASSUME o \notin Obj PROVE FALSE
        BY <1>1
      <3> QED BY <1>1, <2>1 DEF TermFrom, t, s
    <2> SUFFICES ASSUME \A x \in Held(h, o) : h.ref[x] \notin S PROVE FALSE
      BY <2>2
    <2>3. /\ Held(g, o) = Held(h, o) /\ g.kind[o] = h.kind[o]
          /\ \A x \in Held(h, o) : g.slot[x] = h.slot[x] /\ g.ref[x] = h.ref[x]
      BY <2>2 DEF Untouched, SameFields
    <2>4. \A i : ArgAt(g, o, i) = ArgAt(h, o, i)
      <3>1. \A i : {x \in Held(g, o) : g.slot[x] = i} = {x \in Held(h, o) : h.slot[x] = i}
        BY <2>3
      <3>2. ASSUME NEW i PROVE ArgAt(g, o, i) = ArgAt(h, o, i)
        BY <2>3, <3>1 DEF ArgAt
      <3> QED BY <3>2
    <2>5. \A x \in Held(h, o) : s[x] = t[x]
      <3> SUFFICES ASSUME NEW x \in Held(h, o), s[x] # t[x] PROVE FALSE
        OBVIOUS
      <3>1. x \in Cell /\ differ(x, x)
        BY <2>3 DEF Held, t, s
      <3>2. h.ref[x] \in Obj => h.ref[x] \in O
        BY <2>2
      <3>3. h.ref[x] \notin Obj
        BY <3>1, <3>2
      <3>4. t[x] = TermFrom(h, t, x) /\ s[x] = TermFrom(g, s, x)
        BY <3>1, TermsAre DEF t, s
      <3>5. t[x] = s[x]
        BY <2>3, <3>3, <3>4 DEF TermFrom
      <3> QED BY <3>5
    <2>6. {g.slot[x] : x \in Held(g, o)} = I
      BY <2>3
    <2>7. [i \in I |-> s[ArgAt(g, o, i)]] = [i \in I |-> t[ArgAt(h, o, i)]]
      <3>1. \A i \in I : s[ArgAt(g, o, i)] = t[ArgAt(h, o, i)]
        BY <2>4, <2>5, FieldFacts
      <3> QED BY <3>1
    <2>8. o \in Obj /\ g.ref[j] = o
      BY <1>1, <2>2
    <2>9. t[k] = s[j]
      <3>1. t[k] = Node(h.kind[o], [i \in I |-> t[ArgAt(h, o, i)]])
        BY <2>1, <2>8 DEF TermFrom
      <3>2. s[j] = Node(g.kind[o], [i \in I |-> s[ArgAt(g, o, i)]])
        <4>1. s[j] = Node(g.kind[o], [i \in {g.slot[x] : x \in Held(g, o)} |-> s[ArgAt(g, o, i)]])
          BY <2>1, <2>8, Zenon DEF TermFrom
        <4> HIDE DEF I
        <4> QED BY <4>1, <2>6
      <3> QED BY <3>1, <3>2, <2>3, <2>7, Zenon
    <2> QED BY <1>1, <2>9 DEF t, s
  <1>2. S = {}
    <2> SUFFICES ASSUME S # {} PROVE FALSE
      OBVIOUS
    <2>1. S \in SUBSET Live(h)
      BY FreeUnreferenced DEF Shape, Live
    <2>2. PICK o \in S : \A c \in Cell : h.own[c] = o => h.ref[c] \notin S
      BY <2>1, Bottom
    <2> HIDE DEF differ
    <2>3. PICK j \in Cell, k \in Cell : h.ref[k] = o /\ differ(j, k)
      BY <2>2
    <2>4. o \in O
      BY <2>2
    <2> HIDE DEF S
    <2>5. \E x \in Held(h, o) : h.ref[x] \in S
      BY <1>1, <2>3, <2>4
    <2> QED BY <2>2, <2>5 DEF Held
  <1> QED BY <1>1, <1>2

-----------------------------------------------------------------------------
(* What each operation does to the terms of the cells. *)

Clients(h) == Held(h, "client")
Unused(h) == Held(h, "unused")

(* No cell but those of X stands for another term than before. *)
Keeps(h, g, X) == \A k \in Cell \ X : TermsOf(g)[k] = TermsOf(h)[k]

LEMMA KeepsTwice ==
  ASSUME NEW f, NEW g, NEW h, NEW X, NEW Y, Keeps(f, g, X), Keeps(g, h, Y)
  PROVE  Keeps(f, h, X \cup Y)
  BY DEF Keeps

(* F has the terms t of the cells K, each at the number that at gives it. *)
IsMap(F) == F = [i \in DOMAIN F |-> F[i]]
TermFields(F, K, at, t) ==
  /\ IsMap(F)
  /\ \A k \in K : at[k] \in DOMAIN F /\ F[at[k]] = t[k]
  /\ \A i \in DOMAIN F : \E k \in K : at[k] = i

LEMMA SameFieldTerms ==
  ASSUME NEW F, NEW K, NEW a, NEW b, NEW s, NEW t, TermFields(F, K, a, s),
         \A k \in K : a[k] = b[k] /\ s[k] = t[k]
  PROVE  TermFields(F, K, b, t)
  BY DEF TermFields

LEMMA FieldTerm ==
  ASSUME NEW h, Shape(h), NEW c \in Cell, h.ref[c] \in Obj
  PROVE  LET o == h.ref[c]
             t == TermsOf(h)[c]
         IN /\ t = Node(h.kind[o], t.fields) /\ t.kind = h.kind[o]
            /\ TermFields(t.fields, Held(h, o), h.slot, TermsOf(h))
  <1> DEFINE o == h.ref[c]
             T == TermsOf(h)
             I == {h.slot[k] : k \in Held(h, o)}
             F == [i \in I |-> T[ArgAt(h, o, i)]]
  <1>1. T[c] = Node(h.kind[o], F)
    <2>1. T[c] = TermFrom(h, T, c)
      BY TermsAre
    <2> HIDE DEF T
    <2> QED BY <2>1 DEF TermFrom
  <1>2. o \in Live(h)
    BY FreeUnreferenced DEF Shape, Live
  <1>3. PICK n : Numbered(h, o, n)
    BY <1>2 DEF Shape, NumberedIn
  <1>4. ASSUME NEW k \in Held(h, o) PROVE F[h.slot[k]] = T[k]
    <2>1. ArgAt(h, o, h.slot[k]) \in Held(h, o) /\ h.slot[ArgAt(h, o, h.slot[k])] = h.slot[k]
      BY FieldFacts
    <2>2. ArgAt(h, o, h.slot[k]) = k
      BY <1>3, <2>1 DEF Numbered
    <2> HIDE DEF T
    <2> QED BY <2>2
  <1>5. DOMAIN F = I /\ IsMap(F)
    BY DEF IsMap
  <1>6. T[c].kind = h.kind[o] /\ T[c].fields = F
    BY <1>1 DEF Node
  <1> HIDE DEF F
  <1>7. TermFields(F, Held(h, o), h.slot, T)
    BY <1>4, <1>5 DEF TermFields
  <1> QED BY <1>1, <1>6, <1>7

(* A term is known by its fields. *)
LEMMA NodeOf ==
  ASSUME NEW h, Shape(h), NEW c \in Cell, h.ref[c] \in Obj, NEW F,
         TermFields(F, Held(h, h.ref[c]), h.slot, TermsOf(h))
  PROVE  TermsOf(h)[c] = Node(h.kind[h.ref[c]], F)
  <1> DEFINE t == TermsOf(h)[c]
             E == t.fields
  <1>1. t = Node(h.kind[h.ref[c]], E) /\ TermFields(E, Held(h, h.ref[c]), h.slot, TermsOf(h))
    BY FieldTerm
  <1> HIDE DEF E
  <1>2. DOMAIN E = DOMAIN F /\ \A i \in DOMAIN F : E[i] = F[i]
    BY <1>1 DEF TermFields
  <1>3. E = F
    BY <1>1, <1>2 DEF TermFields, IsMap
  <1> QED BY <1>1, <1>3

LEMMA WordTerm ==
  ASSUME NEW h, Shape(h), NEW c \in Cell, h.ref[c] \notin Obj
  PROVE  TermsOf(h)[c] = Node(h.ref[c], <<>>)
  <1>1. TermsOf(h)[c] = TermFrom(h, TermsOf(h), c)
    BY TermsAre
  <1> HIDE DEF TermsOf
  <1> QED BY <1>1 DEF TermFrom

(* Objects are as they were, but for those that no cell refers to any more *)
(* than the cells of X.                                                    *)
LEMMA KeepsOthers ==
  ASSUME NEW h, NEW g, Shape(h), Shape(g), NEW o,
         \A p \in Obj : p # o => Untouched(h, g, p),
         \A k \in Cell : h.own[k] \in Obj /\ h.own[k] # o => h.ref[k] # o
  PROVE  \A j, k \in Cell : g.ref[j] = h.ref[k] /\ h.ref[k] # o => TermsOf(g)[j] = TermsOf(h)[k]
  <1> DEFINE O == Obj \ {o}
  <1>1. ASSUME NEW p \in O PROVE \A k \in Held(h, p) : h.ref[k] \in Obj => h.ref[k] \in O
    BY DEF Held
  <1>2. \A j, k \in Cell :
           g.ref[j] = h.ref[k] /\ (h.ref[k] \in Obj => h.ref[k] \in O) =>
             TermsOf(g)[j] = TermsOf(h)[k]
    <2> HIDE DEF O
    <2>1. O \in SUBSET Obj /\ \A p \in O : Untouched(h, g, p)
      BY DEF O
    <2> QED BY <1>1, <2>1, SameTerms
  <1> QED BY <1>2

LEMMA MakeTerms ==
  ASSUME NEW h, Shape(h), NEW c \in Cell, h.own[c] = "unused", NEW w \in Word
  PROVE  LET g == hvalue_make(h, c, w)
         IN /\ Clients(g) = Clients(h) \cup {c} /\ Keeps(h, g, {c})
            /\ TermsOf(g)[c] = Node(w, <<>>)
  <1> DEFINE g == hvalue_make(h, c, w)
  <1>1. /\ \A k \in Cell : k # c => g.own[k] = h.own[k] /\ g.ref[k] = h.ref[k]
        /\ g.own[c] = "client" /\ g.ref[c] = w
    BY DEF Shape, Good, Heap, hvalue_make
  <1>2. Shape(g) /\ \A o \in Obj : Untouched(h, g, o)
    BY MakeShape
  <1> HIDE DEF g
  <1>3. Keeps(h, g, {c})
    BY <1>1, <1>2, SameTerms DEF Keeps
  <1>4. TermsOf(g)[c] = Node(w, <<>>)
    BY <1>1, <1>2, WordTerm, WordAssumption
  <1>5. Clients(g) = Clients(h) \cup {c}
    BY <1>1 DEF Clients, Held
  <1> QED BY <1>3, <1>4, <1>5 DEF g

LEMMA RefTerms ==
  ASSUME NEW h, Shape(h), NEW c \in Cell, NEW d \in Cell, h.own[d] = "unused"
  PROVE  LET g == hvalue_ref(h, c, d)
         IN /\ Clients(g) = Clients(h) \cup {d} /\ Keeps(h, g, {d})
            /\ TermsOf(g)[d] = TermsOf(h)[c]
  <1> DEFINE g == hvalue_ref(h, c, d)
  <1>1. /\ \A k \in Cell : k # d => g.own[k] = h.own[k] /\ g.ref[k] = h.ref[k]
        /\ g.own[d] = "client" /\ g.ref[d] = h.ref[c]
    BY DEF Shape, Good, Heap, hvalue_ref
  <1>2. Shape(g) /\ \A o \in Obj : Untouched(h, g, o)
    BY RefShape
  <1> HIDE DEF g
  <1>3. Keeps(h, g, {d}) /\ TermsOf(g)[d] = TermsOf(h)[c]
    BY <1>1, <1>2, SameTerms DEF Keeps
  <1>4. Clients(g) = Clients(h) \cup {d}
    BY <1>1 DEF Clients, Held
  <1> QED BY <1>3, <1>4 DEF g

(* A freed object is in the term of no other cell. *)
LEMMA DropTerms ==
  ASSUME NEW h, Shape(h), NEW c \in Cell, h.own[c] \notin Obj
  PROVE  LET g == hvalue_drop(h, c)
         IN Clients(g) = Clients(h) \ {c} /\ Keeps(h, g, {c})
  <1> DEFINE g == hvalue_drop(h, c)
             o == h.ref[c]
  <1>1. /\ \A k \in Cell : k # c => g.ref[k] = h.ref[k]
        /\ \A k \in Cell : \/ g.own[k] = h.own[k] /\ k # c
                           \/ k = c /\ g.own[k] = "unused"
                           \/ h.own[k] \in Obj /\ g.own[k] \in {"dropping", "lost"}
    BY DEF Shape, Good, Heap, hvalue_drop, IsLast
  <1>2. /\ Shape(g)
        /\ \A p \in Obj : h.rc[p] > 1 \/ o # p => Untouched(h, g, p)
    BY DropShape
  <1> HIDE DEF g
  <1>3. Clients(g) = Clients(h) \ {c}
    BY <1>1, HolderAssumption DEF Clients, Held, Holder
  <1>4. CASE o \in Obj /\ ~(h.rc[o] > 1)
    <2>1. h.rc[o] <= 1
      BY <1>4 DEF Shape, Good, Heap
    <2>2. \A k \in Cell : h.ref[k] = o => k = c
      BY <1>4, <2>1, OneReference DEF Shape
    <2>3. \A j, k \in Cell : g.ref[j] = h.ref[k] /\ h.ref[k] # o => TermsOf(g)[j] = TermsOf(h)[k]
      <3>1. \A k \in Cell : h.own[k] \in Obj /\ h.own[k] # o => h.ref[k] # o
        BY <2>2
      <3>2. \A p \in Obj : p # o => Untouched(h, g, p)
        BY <1>2
      <3> HIDE DEF o
      <3> QED BY <1>2, <3>1, <3>2, KeepsOthers
    <2> QED BY <1>1, <1>3, <2>2, <2>3 DEF Keeps, g
  <1>5. CASE ~(o \in Obj /\ ~(h.rc[o] > 1))
    <2>1. \A p \in Obj : Untouched(h, g, p)
      BY <1>2, <1>5
    <2>2. Keeps(h, g, {c})
      BY <1>1, <1>2, <2>1, SameTerms DEF Keeps
    <2> QED BY <1>3, <2>2 DEF g
  <1> QED BY <1>4, <1>5

LEMMA MoveTerms ==
  ASSUME NEW h, Shape(h), NEW c \in Cell, h.own[c] = "client"
  PROVE  LET g == [h EXCEPT !.own[c] = "lost"]
         IN Clients(g) = Clients(h) \ {c} /\ Keeps(h, g, {})
  <1> DEFINE g == [h EXCEPT !.own[c] = "lost"]
  <1>1. g.ref = h.ref /\ \A k \in Cell : g.own[k] = IF k = c THEN "lost" ELSE h.own[k]
    BY DEF Shape, Good, Heap
  <1>2. Shape(g) /\ \A p \in Obj : Untouched(h, g, p)
    BY MoveShape
  <1> HIDE DEF g
  <1>3. Keeps(h, g, {})
    BY <1>1, <1>2, SameTerms DEF Keeps
  <1>4. Clients(g) = Clients(h) \ {c}
    BY <1>1 DEF Clients, Held
  <1> QED BY <1>3, <1>4 DEF g

LEMMA AllocFacts ==
  ASSUME NEW h, Shape(h), NEW o \in Obj, NEW c \in Cell, NEW kind, NEW at
  PROVE  LET g == Alloc(h, o, c, kind, at)
         IN /\ \A k \in Cell : g.own[k] = IF k \in DOMAIN at THEN o
                                           ELSE IF k = c THEN "client" ELSE h.own[k]
            /\ \A k \in Cell : g.slot[k] = IF k \in DOMAIN at THEN at[k] ELSE h.slot[k]
            /\ \A k \in Cell : g.ref[k] = IF k = c THEN o ELSE h.ref[k]
            /\ \A p \in Obj : g.kind[p] = IF p = o THEN kind ELSE h.kind[p]
  BY DEF Shape, Good, Heap, Alloc, Store

(* In g, cell c refers to a new object o whose fields are the cells of at. *)
Built(h, g, o, c, kind, at) ==
  /\ Clients(g) = (Clients(h) \cup {c}) \ DOMAIN at /\ Keeps(h, g, {c})
  /\ Held(g, o) = DOMAIN at /\ \A k \in DOMAIN at : g.slot[k] = at[k]
  /\ g.kind[o] = kind /\ g.ref[c] = o
  /\ \A p \in Obj : p # o => Untouched(h, g, p)

(* at has the cells of the new object's fields, F their terms. *)
LEMMA AllocTerms ==
  ASSUME NEW h, Shape(h), NEW o \in Obj \ Live(h), NEW c \in Unused(h), NEW kind, NEW at,
         DOMAIN at \subseteq Clients(h), Shape(Alloc(h, o, c, kind, at)),
         NEW F, TermFields(F, DOMAIN at, at, TermsOf(h))
  PROVE  /\ Built(h, Alloc(h, o, c, kind, at), o, c, kind, at)
         /\ TermsOf(Alloc(h, o, c, kind, at))[c] = Node(kind, F)
  <1> DEFINE g == Alloc(h, o, c, kind, at)
  <1>0. c \in Cell /\ h.own[c] = "unused" /\ h.kind[o] = "free"
    BY DEF Unused, Held, Live
  <1>1. /\ \A k \in Cell : g.own[k] = IF k \in DOMAIN at THEN o
                                      ELSE IF k = c THEN "client" ELSE h.own[k]
        /\ \A k \in Cell : g.slot[k] = IF k \in DOMAIN at THEN at[k] ELSE h.slot[k]
        /\ \A k \in Cell : g.ref[k] = IF k = c THEN o ELSE h.ref[k]
        /\ \A p \in Obj : g.kind[p] = IF p = o THEN kind ELSE h.kind[p]
    BY <1>0, AllocFacts
  <1>2. /\ o # "client" /\ c \notin DOMAIN at /\ DOMAIN at \subseteq Cell
        /\ \A k \in DOMAIN at : h.own[k] = "client" /\ h.own[k] \notin Obj
    BY <1>0, HolderAssumption DEF Clients, Held, Holder
  <1>3. \A p \in Obj : p # o => Untouched(h, g, p)
    BY <1>0, <1>2, AllocLeaves
  <1> HIDE DEF g
  <1>4. \A k \in Cell : h.ref[k] # o /\ h.own[k] # o
    BY <1>0, FreeUnreferenced DEF Shape, Good, OwnersLive
  <1>s. Shape(g)
    BY DEF g
  <1>5. \A j, k \in Cell : g.ref[j] = h.ref[k] /\ h.ref[k] # o => TermsOf(g)[j] = TermsOf(h)[k]
    BY <1>3, <1>4, <1>s, KeepsOthers
  <1>6. Keeps(h, g, {c})
    BY <1>1, <1>4, <1>5 DEF Keeps
  <1>7. Held(g, o) = DOMAIN at
    <2>1. \A k \in Cell : g.own[k] = o <=> k \in DOMAIN at
      BY <1>0, <1>1, <1>2, <1>4
    <2> QED BY <1>2, <2>1 DEF Held
  <1>8. TermsOf(g)[c] = Node(kind, F)
    <2>1. \A k \in DOMAIN at : at[k] = g.slot[k] /\ TermsOf(h)[k] = TermsOf(g)[k]
      BY <1>1, <1>2, <1>6 DEF Keeps
    <2>2. TermFields(F, DOMAIN at, g.slot, TermsOf(g))
      BY <2>1, SameFieldTerms
    <2>3. g.ref[c] = o /\ g.kind[o] = kind
      BY <1>0, <1>1
    <2> QED BY <1>0, <1>7, <1>s, <2>2, <2>3, NodeOf
  <1>9. Clients(g) = (Clients(h) \cup {c}) \ DOMAIN at
    BY <1>0, <1>1, <1>2 DEF Clients, Held
  <1>10. Built(h, g, o, c, kind, at)
    BY <1>0, <1>1, <1>2, <1>3, <1>6, <1>7, <1>9 DEF Built
  <1> QED BY <1>8, <1>10 DEF g

(* The field numbers of a sequence of distinct cells. *)
Distinct(as) == \A i, j \in DOMAIN as : as[i] = as[j] => i = j

(* at numbers the m cells of as from n + 1 on. *)
Numbers(at, as, n, m) ==
  /\ DOMAIN at = Range(as)
  /\ \A i \in 1..m : as[i] \in Range(as) /\ at[as[i]] = n + i
  /\ \A k \in Range(as) : \E i \in 1..m : k = as[i]

LEMMA FieldsAt ==
  ASSUME NEW S, NEW m \in Nat, NEW as \in [1..m -> S], Distinct(as), NEW n \in Nat
  PROVE  /\ Numbers(Fields(as, n + 1), as, n, m) /\ Range(as) \subseteq S
         /\ NextFields(Fields(as, n + 1), n, m)
  <1> DEFINE at == Fields(as, n + 1)
  <1>1. DOMAIN as = 1..m
    OBVIOUS
  <1>2. \A i, j \in 1..m : as[i] = as[j] => i = j
    BY <1>1 DEF Distinct
  <1>3. DOMAIN at = Range(as) /\ NextFields(at, n, m)
    BY <1>2, FieldsNext
  <1>4. ASSUME NEW i \in 1..m PROVE as[i] \in Range(as) /\ at[as[i]] = n + i
    <2>1. as[i] \in Range(as)
      BY <1>1 DEF Range
    <2>2. (CHOOSE j \in DOMAIN as : as[j] = as[i]) = i
      BY <1>1, <1>2
    <2>3. at[as[i]] = n + 1 + i - 1
      BY <2>1, <2>2 DEF Fields
    <2>4. n + 1 + i - 1 = n + i
      OBVIOUS
    <2> QED BY <2>1, <2>3, <2>4, Zenon
  <1>5. \A k \in Range(as) : \E i \in 1..m : k = as[i]
    BY <1>1 DEF Range
  <1>6. Range(as) \subseteq S
    BY <1>5
  <1> QED BY <1>3, <1>4, <1>5, <1>6 DEF Numbers

LEMMA FirstFields ==
  ASSUME NEW S, NEW m \in Nat, NEW as \in [1..m -> S], Distinct(as)
  PROVE  /\ Numbers(Fields(as, 1), as, 0, m) /\ Range(as) \subseteq S
         /\ NextFields(Fields(as, 1), 0, m)
  <1>1. PICK z \in Nat : z = 0
    OBVIOUS
  <1>2. Fields(as, 1) = Fields(as, z + 1)
    BY <1>1
  <1>3. /\ Numbers(Fields(as, z + 1), as, z, m) /\ Range(as) \subseteq S
        /\ NextFields(Fields(as, z + 1), z, m)
    BY FieldsAt
  <1> QED BY <1>1, <1>2, <1>3, Zenon

(* The terms of a new object's fields are those of the cells put into it. *)
LEMMA NumbersTerms ==
  ASSUME NEW m \in Nat, NEW as, NEW at, Numbers(at, as, 0, m), NEW t
  PROVE  /\ TermFields([i \in 1..m |-> t[as[i]]], DOMAIN at, at, t)
         /\ \A k \in DOMAIN at : at[k] > 0
  <1> DEFINE F == [i \in 1..m |-> t[as[i]]]
  <1>0. \A i \in 1..m : 0 + i = i
    OBVIOUS
  <1>1. \A i \in 1..m : as[i] \in DOMAIN at /\ at[as[i]] = i
    BY <1>0, Zenon DEF Numbers
  <1>2. \A k \in DOMAIN at : \E i \in 1..m : k = as[i] /\ at[k] = i
    <2> SUFFICES ASSUME NEW k \in DOMAIN at PROVE \E i \in 1..m : k = as[i] /\ at[k] = i
      OBVIOUS
    <2>1. PICK i \in 1..m : k = as[i]
      BY DEF Numbers
    <2>2. at[as[i]] = i
      BY <1>1
    <2> QED BY <2>1, <2>2
  <1>3. \A k \in DOMAIN at : at[k] \in 1..m /\ F[at[k]] = t[k]
    BY <1>2
  <1>4. DOMAIN F = 1..m /\ IsMap(F)
    BY DEF IsMap
  <1> HIDE DEF F
  <1>5. TermFields(F, DOMAIN at, at, t)
    BY <1>1, <1>3, <1>4 DEF TermFields
  <1>6. \A k \in DOMAIN at : at[k] > 0
    BY <1>3
  <1> QED BY <1>5, <1>6, Zenon DEF F

StandsFor(g, c, t) == TermsOf(g)[c] = t
SeqTerms(h, as, m) == [i \in 1..m |-> TermsOf(h)[as[i]]]

LEMMA BuildTerms ==
  ASSUME NEW h, Shape(h), NEW o \in Obj \ Live(h), NEW c \in Unused(h), NEW kind \in Kind \ {"free"},
         NEW S, S \subseteq Clients(h), NEW m \in Nat, NEW as \in [1..m -> S], Distinct(as),
         kind \in Pairs => m = 2
  PROVE  LET g == Alloc(h, o, c, kind, Fields(as, 1))
         IN /\ Shape(g) /\ Built(h, g, o, c, kind, Fields(as, 1))
            /\ Numbers(Fields(as, 1), as, 0, m) /\ Range(as) \subseteq S
            /\ StandsFor(g, c, Node(kind, SeqTerms(h, as, m)))
  <1> DEFINE at == Fields(as, 1)
             g == Alloc(h, o, c, kind, at)
             F == SeqTerms(h, as, m)
  <1>1. Numbers(at, as, 0, m) /\ NextFields(at, 0, m) /\ Range(as) \subseteq S
    BY FirstFields
  <1>2. DOMAIN at \subseteq Clients(h)
    BY <1>1 DEF Numbers
  <1>3. TermFields(F, DOMAIN at, at, TermsOf(h))
    BY <1>1, NumbersTerms DEF SeqTerms
  <1> HIDE DEF F, at
  <1>4. DOMAIN at \subseteq Cell /\ \A k \in DOMAIN at : h.own[k] = "client"
    BY <1>2 DEF Clients, Held
  <1>5. h.kind[o] = "free" /\ c \in Cell /\ h.own[c] = "unused"
    BY DEF Live, Unused, Held
  <1>6. Shape(g)
    BY <1>1, <1>4, <1>5, AllocShape
  <1>7. Built(h, g, o, c, kind, at) /\ TermsOf(g)[c] = Node(kind, F)
    BY <1>2, <1>3, <1>6, AllocTerms
  <1> QED BY <1>1, <1>6, <1>7, Zenon DEF F, at, StandsFor

(* Fields are added to an object o to which d is the one reference. *)
Stored(h, g, o, d, at) ==
  /\ Clients(g) = Clients(h) \ DOMAIN at /\ Keeps(h, g, {d})
  /\ g.ref = h.ref /\ g.kind = h.kind
  /\ Held(g, o) = Held(h, o) \cup DOMAIN at
  /\ \A k \in DOMAIN at : g.slot[k] = at[k]
  /\ \A k \in Held(h, o) : g.slot[k] = h.slot[k]
  /\ \A k \in Held(g, o) : TermsOf(g)[k] = TermsOf(h)[k]
  /\ \A p \in Obj : p # o => Untouched(h, g, p)

OneRef(h, d) == \A k \in Cell : h.ref[k] = h.ref[d] => k = d

LEMMA StoreKeeps ==
  ASSUME NEW h, Shape(h), NEW d \in Cell, h.own[d] \notin Obj, NEW o \in Obj, h.ref[d] = o,
         OneRef(h, d), NEW at, DOMAIN at \subseteq Clients(h), Shape(Store(h, o, at))
  PROVE  Stored(h, Store(h, o, at), o, d, at)
  <1> DEFINE g == Store(h, o, at)
  <1>0. \A k \in Cell : h.ref[k] = o => k = d
    BY DEF OneRef
  <1>1. /\ g.ref = h.ref /\ g.kind = h.kind
        /\ \A k \in Cell : g.own[k] = IF k \in DOMAIN at THEN o ELSE h.own[k]
        /\ \A k \in Cell : g.slot[k] = IF k \in DOMAIN at THEN at[k] ELSE h.slot[k]
    BY DEF Shape, Good, Heap, Store
  <1>2. /\ \A k \in DOMAIN at : h.own[k] \notin Obj
        /\ DOMAIN at \subseteq Cell /\ o # "client"
    BY HolderAssumption DEF Clients, Held, Holder
  <1>3. /\ Held(g, o) = Held(h, o) \cup DOMAIN at
        /\ \A k \in DOMAIN at : g.slot[k] = at[k]
        /\ \A k \in Held(h, o) : g.slot[k] = h.slot[k]
        /\ \A p \in Obj : p # o => SameFields(h, g, p)
    BY <1>2, StoreFacts DEF Shape
  <1>4. Shape(g) /\ g.ref[d] = o
    BY <1>1
  <1> HIDE DEF g
  <1>5. \A p \in Obj : p # o => Untouched(h, g, p)
    BY <1>1, <1>3 DEF Untouched
  <1>6. \A k \in Cell : h.own[k] \in Obj /\ h.own[k] # o => h.ref[k] # o
    BY <1>0
  <1>7. \A j, k \in Cell : g.ref[j] = h.ref[k] /\ h.ref[k] # o => TermsOf(g)[j] = TermsOf(h)[k]
    BY <1>4, <1>5, <1>6, KeepsOthers
  <1>8. Keeps(h, g, {d})
    BY <1>0, <1>1, <1>7 DEF Keeps
  <1>9. \A k \in Held(g, o) : k \in Cell /\ k # d /\ TermsOf(g)[k] = TermsOf(h)[k]
    <2>1. d \notin DOMAIN at
      <3>1. \A k \in Cell : h.own[k] \in Obj => h.kind[h.own[k]] # "free"
        BY DEF Shape, Good, OwnersLive
      <3>2. d \in DOMAIN at => g.own[d] = o /\ g.ref[d] = o
        BY <1>1, <1>4
      <3>3. AcyclicIn(g) /\ o \in Live(g)
        BY <1>4, FreeUnreferenced DEF Shape, Live
      <3>4. \E p \in {o} : \A c \in Cell : g.own[c] \in {o} => g.ref[c] # p
        <4>1. {o} \in SUBSET Live(g) /\ {o} # {}
          BY <3>3
        <4> QED BY <3>3, <4>1 DEF AcyclicIn
      <3> QED BY <3>2, <3>4
    <2>2. \A k \in Held(g, o) : k \in Cell /\ k # d
      BY <1>2, <1>3, <2>1 DEF Held
    <2> QED BY <1>8, <2>2 DEF Keeps
  <1>10. Clients(g) = Clients(h) \ DOMAIN at
    BY <1>1, <1>2 DEF Clients, Held
  <1>11. Stored(h, g, o, d, at)
    BY <1>1, <1>3, <1>5, <1>8, <1>9, <1>10 DEF Stored
  <1> QED BY <1>11 DEF g

(* E has the terms of the old fields of o, F those and the new ones. *)
Appended(h, o, at, E, F) ==
  /\ IsMap(F) /\ \A i \in DOMAIN E : i \in DOMAIN F /\ F[i] = E[i]
  /\ \A k \in DOMAIN at : at[k] \in DOMAIN F /\ F[at[k]] = TermsOf(h)[k]
  /\ \A i \in DOMAIN F : i \in DOMAIN E \/ \E k \in DOMAIN at : at[k] = i

LEMMA StoreTerms ==
  ASSUME NEW h, Shape(h), NEW g, Shape(g), NEW d \in Cell, NEW o \in Obj, h.ref[d] = o, NEW at,
         Stored(h, g, o, d, at), NEW E, TermFields(E, Held(h, o), h.slot, TermsOf(h)),
         NEW F, Appended(h, o, at, E, F)
  PROVE  TermsOf(g)[d] = Node(h.kind[o], F)
  <1>1. /\ g.ref[d] = o /\ g.kind[o] = h.kind[o]
        /\ Held(g, o) = Held(h, o) \cup DOMAIN at
        /\ \A k \in DOMAIN at : g.slot[k] = at[k]
        /\ \A k \in Held(h, o) : g.slot[k] = h.slot[k]
        /\ \A k \in Held(g, o) : TermsOf(g)[k] = TermsOf(h)[k]
    BY DEF Stored
  <1>2. \A k \in Held(g, o) : g.slot[k] \in DOMAIN F /\ F[g.slot[k]] = TermsOf(g)[k]
    BY <1>1 DEF TermFields, Appended
  <1>3. \A i \in DOMAIN F : \E k \in Held(g, o) : g.slot[k] = i
    BY <1>1 DEF TermFields, Appended
  <1>4. TermFields(F, Held(g, o), g.slot, TermsOf(g))
    BY <1>2, <1>3 DEF TermFields, Appended
  <1> QED BY <1>1, <1>4, NodeOf

-----------------------------------------------------------------------------
(* The fields of an object: an effect holds its data, numbered 0, all other *)
(* objects what they are given, numbered from 1 on.                         *)

IsEffectKind(kind) == kind \in Native /\ NativeMeta[kind].effect

PlainAt(h, o) ==
  \A k \in Held(h, o) : IF IsEffectKind(h.kind[o]) THEN h.slot[k] = 0 ELSE h.slot[k] > 0

Plain(h) == \A o \in Obj : PlainAt(h, o)

LEMMA PlainSame ==
  ASSUME NEW h, NEW g, NEW o, Untouched(h, g, o), PlainAt(h, o)
  PROVE  PlainAt(g, o)
  BY DEF Untouched, SameFields, PlainAt

LEMMA PlainFrom ==
  ASSUME NEW h, Plain(h), NEW g, \A o \in Obj : Untouched(h, g, o) \/ PlainAt(g, o)
  PROVE  Plain(g)
  BY PlainSame DEF Plain

LEMMA EmptyPlain == Plain(EmptyHeap)
  BY HolderAssumption DEF Plain, PlainAt, Held, EmptyHeap, Holder

LEMMA MakePlain ==
  ASSUME NEW h, Shape(h), Plain(h), NEW c \in Cell, h.own[c] = "unused", NEW w \in Word
  PROVE  Plain(hvalue_make(h, c, w))
  <1>1. \A o \in Obj : Untouched(h, hvalue_make(h, c, w), o)
    BY MakeShape
  <1> QED BY <1>1, PlainFrom

LEMMA RefPlain ==
  ASSUME NEW h, Shape(h), Plain(h), NEW c \in Cell, NEW d \in Cell, h.own[d] = "unused"
  PROVE  Plain(hvalue_ref(h, c, d))
  <1>1. \A o \in Obj : Untouched(h, hvalue_ref(h, c, d), o)
    BY RefShape
  <1> QED BY <1>1, PlainFrom

LEMMA DropPlain ==
  ASSUME NEW h, Shape(h), Plain(h), NEW c \in Cell, h.own[c] \notin Obj
  PROVE  Plain(hvalue_drop(h, c))
  <1> DEFINE g == hvalue_drop(h, c)
  <1>1. Shape(g) /\ \A o \in Obj : h.rc[o] > 1 \/ h.ref[c] # o => Untouched(h, g, o)
    BY DropShape
  <1>2. ASSUME NEW o \in Obj, ~(h.rc[o] > 1 \/ h.ref[c] # o) PROVE PlainAt(g, o)
    <2>1. h.rc[o] \in Nat /\ h.rc[o] = Cardinality(Refs(h, o)) /\ c \in Refs(h, o)
      BY <1>2 DEF Shape, Good, Heap, Counted, Refs
    <2>2. h.rc[o] # 0
      BY <2>1, RefsFinite, FS_EmptySet
    <2>3. h.rc[o] = 1
      BY <1>2, <2>1, <2>2
    <2>4. g.kind[o] = "free"
      BY <1>2, <2>3 DEF hvalue_drop, IsLast
    <2>5. Held(g, o) = {}
      BY <1>1, <2>4 DEF Shape, Good, OwnersLive, Held
    <2> QED BY <2>5 DEF PlainAt
  <1> HIDE DEF g
  <1>3. Plain(g)
    BY <1>1, <1>2, PlainFrom
  <1> QED BY <1>3 DEF g

LEMMA MovePlain ==
  ASSUME NEW h, Shape(h), Plain(h), NEW c \in Cell, h.own[c] = "client"
  PROVE  Plain([h EXCEPT !.own[c] = "lost"])
  <1>1. \A o \in Obj : Untouched(h, [h EXCEPT !.own[c] = "lost"], o)
    BY MoveShape
  <1> QED BY <1>1, PlainFrom

LEMMA AllocPlain ==
  ASSUME NEW h, Plain(h), NEW g, NEW o, NEW c, NEW kind, NEW at,
         Built(h, g, o, c, kind, at), PlainAt(g, o)
  PROVE  Plain(g)
  <1>1. \A p \in Obj : Untouched(h, g, p) \/ PlainAt(g, p)
    BY DEF Built
  <1> QED BY <1>1, PlainFrom

(* Operands are stored as fields of an object that is no effect. *)
LEMMA StorePlain ==
  ASSUME NEW h, Plain(h), NEW g, NEW d, NEW o \in Obj, ~IsEffectKind(h.kind[o]),
         NEW at, Stored(h, g, o, d, at), NEW n \in Nat, NEW m \in Nat, NEW as, Numbers(at, as, n, m)
  PROVE  Plain(g)
  <1>1. /\ g.kind[o] = h.kind[o] /\ Held(g, o) = Held(h, o) \cup DOMAIN at
        /\ \A k \in DOMAIN at : g.slot[k] = at[k]
        /\ \A k \in Held(h, o) : g.slot[k] = h.slot[k]
    BY DEF Stored
  <1>2. \A k \in Held(h, o) : h.slot[k] > 0
    BY DEF Plain, PlainAt
  <1>3. ASSUME NEW k \in DOMAIN at PROVE at[k] > 0
    <2>1. PICK i \in 1..m : k = as[i]
      BY DEF Numbers
    <2>2. at[k] = n + i
      BY <2>1 DEF Numbers
    <2> QED BY <2>2
  <1>4. PlainAt(g, o)
    BY <1>1, <1>2, <1>3 DEF PlainAt
  <1>5. \A p \in Obj : Untouched(h, g, p) \/ PlainAt(g, p)
    BY <1>4 DEF Stored
  <1> QED BY <1>5, PlainFrom

-----------------------------------------------------------------------------
(* Clones and exclusive references. *)

(* f takes the fields of o that are kept to those of its copy n. *)
FieldsCopied(h, g, o, n, f) ==
  /\ \A x \in Held(g, n) : \E k \in Held(h, o) : f[k] = x /\ CloneKeeps(h, o, k)
  /\ \A k \in Held(h, o) : CloneKeeps(h, o, k) =>
       /\ f[k] \in Held(g, n) /\ f[k] \in Unused(h)
       /\ g.ref[f[k]] = h.ref[k] /\ g.slot[f[k]] = h.slot[k]

LEMMA CloneFields ==
  ASSUME NEW h, Shape(h), NEW o \in Obj, NEW n \in Obj, h.kind[n] = "free",
         NEW T, T \subseteq Held(h, "unused"), NEW d \in T,
         NEW f \in Bijections(Held(h, o), T \ {d})
  PROVE  /\ FieldsCopied(h, hvalue_clone(h, o, n, d, f), o, n, f)
         /\ Clients(hvalue_clone(h, o, n, d, f)) = Clients(h) \cup {d}
  <1> DEFINE g == hvalue_clone(h, o, n, d, f)
             S == Held(h, o)
             isCopy(c) == \E k \in S : f[k] = c
  <1>0. /\ f \in [S -> T \ {d}] /\ DOMAIN f = S /\ d \in Cell /\ h.own[d] = "unused"
        /\ \A k \in S : f[k] \in Cell /\ h.own[f[k]] = "unused" /\ f[k] # d
        /\ \A k \in S : k \in Cell
        /\ \A x, y \in S : f[x] = f[y] => x = y
    BY DEF Bijections, Held
  <1>2. /\ \A k \in Cell : k # d /\ ~isCopy(k) =>
             g.own[k] = h.own[k] /\ g.ref[k] = h.ref[k] /\ g.slot[k] = h.slot[k]
        /\ g.own[d] = "client" /\ g.ref[d] = n
    BY <1>0 DEF Shape, Good, Heap, hvalue_clone
  <1>3. ASSUME NEW k \in S
        PROVE  /\ g.own[f[k]] = IF CloneKeeps(h, o, k) THEN n ELSE "lost"
               /\ g.ref[f[k]] = h.ref[k]
               /\ CloneKeeps(h, o, k) => g.slot[f[k]] = h.slot[k]
    <2>1. (CHOOSE x \in DOMAIN f : f[x] = f[k]) = k
      BY <1>0
    <2>2. f[k] \in Cell /\ f[k] # d /\ \E x \in DOMAIN f : f[x] = f[k]
      BY <1>0
    <2> HIDE DEF S
    <2> QED BY <2>1, <2>2 DEF hvalue_clone
  <1> HIDE DEF g
  <1>4. n # "client" /\ n # "unused" /\ n # "lost" /\ \A k \in Cell : h.own[k] # n
    BY HolderAssumption DEF Holder, Shape, Good, OwnersLive
  <1>5. FieldsCopied(h, g, o, n, f)
    <2>1. \A x \in Held(g, n) : \E k \in S : f[k] = x /\ CloneKeeps(h, o, k)
      BY <1>2, <1>3, <1>4 DEF Held
    <2>2. \A k \in S : CloneKeeps(h, o, k) => f[k] \in Held(g, n) /\ f[k] \in Unused(h)
      BY <1>0, <1>3 DEF Held, Unused
    <2> QED BY <1>3, <2>1, <2>2 DEF FieldsCopied
  <1>6. Clients(g) = Clients(h) \cup {d}
    <2>1. \A k \in Cell : g.own[k] = "client" <=> k = d \/ h.own[k] = "client"
      BY <1>0, <1>2, <1>3, <1>4
    <2> QED BY <1>0, <2>1 DEF Clients, Held
  <1> QED BY <1>5, <1>6, Zenon DEF g

(* Cell d of g is a copy of the client's cell c of h. *)
CopyOf(h, g, c, d) ==
  /\ d \in Unused(h) /\ Clients(g) = Clients(h) \cup {d}
  /\ \A k \in Cell : h.own[k] # "unused" => TermsOf(g)[k] = TermsOf(h)[k]
  /\ TermsOf(g)[d] \in Immutable!Copies(TermsOf(h)[c], TRUE)
  /\ g.ref[d] \in Obj /\ Held(g, g.ref[d]) \subseteq Unused(h)
  /\ g.kind[g.ref[d]] = h.kind[h.ref[c]]
  /\ Plain(g)

TermsCopied(h, o, f, t) ==
  \A k \in Held(h, o) : CloneKeeps(h, o, k) => t[f[k]] = TermsOf(h)[k]

(* The fields of the copy: all, or none for a native that is called. *)
LEMMA CopiedFields ==
  ASSUME NEW h, NEW g, NEW o \in Obj, NEW n \in Obj, NEW f, Plain(h), FieldsCopied(h, g, o, n, f),
         NEW E, NEW t, TermFields(E, Held(h, o), h.slot, TermsOf(h)),
         TermsCopied(h, o, f, t)
  PROVE  /\ h.kind[o] \in Immutable!Callable => Held(g, n) = {}
         /\ h.kind[o] \notin Immutable!Callable => TermFields(E, Held(g, n), g.slot, t)
  <1>0. h.kind[o] \in Immutable!Callable <=> h.kind[o] \in Native /\ ~IsEffectKind(h.kind[o])
    BY DEF Immutable!Callable, IsEffectKind
  <1>1. CASE h.kind[o] \in Immutable!Callable
    <2>1. \A k \in Held(h, o) : ~CloneKeeps(h, o, k)
      BY <1>0, <1>1 DEF Plain, PlainAt, CloneKeeps
    <2> QED BY <1>1, <2>1 DEF FieldsCopied
  <1>2. CASE h.kind[o] \notin Immutable!Callable
    <2>1. \A k \in Held(h, o) : CloneKeeps(h, o, k)
      BY <1>0, <1>2 DEF Plain, PlainAt, CloneKeeps
    <2>2. \A x \in Held(g, n) : \E k \in Held(h, o) :
            f[k] = x /\ g.slot[x] = h.slot[k] /\ t[x] = TermsOf(h)[k]
      BY <2>1 DEF FieldsCopied, TermsCopied
    <2>3. \A k \in Held(h, o) : f[k] \in Held(g, n) /\ g.slot[f[k]] = h.slot[k]
      BY <2>1 DEF FieldsCopied
    <2>4. \A x \in Held(g, n) : g.slot[x] \in DOMAIN E /\ E[g.slot[x]] = t[x]
      BY <2>2 DEF TermFields
    <2>5. \A i \in DOMAIN E : \E x \in Held(g, n) : g.slot[x] = i
      BY <2>3 DEF TermFields
    <2> QED BY <1>2, <2>4, <2>5 DEF TermFields
  <1> QED BY <1>1, <1>2

LEMMA NoTermFields ==
  ASSUME NEW at, NEW t
  PROVE  TermFields(<<>>, {}, at, t)
  <1>1. PICK e : e = <<>>
    OBVIOUS
  <1>2. DOMAIN e = {} /\ IsMap(e)
    BY <1>1 DEF IsMap
  <1>3. TermFields(e, {}, at, t)
    BY <1>2 DEF TermFields
  <1> QED BY <1>1, <1>3

LEMMA CloneTerms ==
  ASSUME NEW h, Shape(h), Plain(h), CloneContract, NEW c \in Clients(h), NEW o \in Obj, o = h.ref[c],
         NEW u \in Clones(h, o)
  PROVE  Copied(h, u[1], o, u[1].ref[u[2]], u[2]) /\ CopyOf(h, u[1], c, u[2])
  <1>0. c \in Cell /\ h.kind[o] # "free" /\ PlainAt(h, o)
    BY FreeUnreferenced DEF Clients, Held, Plain, Shape
  <1>1. PICK n \in FreshObj(h), T \in FreshCells(h, Cardinality(Held(h, o)) + 1) :
          \E d \in T : \E f \in Bijections(Held(h, o), T \ {d}) :
            u = <<hvalue_clone(h, o, n, d, f), d>>
    BY DEF Clones
  <1>2. PICK d \in T : \E f \in Bijections(Held(h, o), T \ {d}) :
            u = <<hvalue_clone(h, o, n, d, f), d>>
    BY <1>1
  <1>3. PICK f \in Bijections(Held(h, o), T \ {d}) :
            u = <<hvalue_clone(h, o, n, d, f), d>>
    BY <1>2
  <1>4. n \in Obj /\ h.kind[n] = "free" /\ T \subseteq Held(h, "unused")
    BY FreshFacts
  <1> DEFINE g == hvalue_clone(h, o, n, d, f)
  <1>5. Copied(h, g, o, n, d)
    BY <1>0, <1>4, CloneShape
  <1>6. FieldsCopied(h, g, o, n, f) /\ Clients(g) = Clients(h) \cup {d}
    <2>1. h.kind[n] = "free" /\ T \subseteq Held(h, "unused") /\ n \in Obj /\ o \in Obj
      BY <1>4
    <2>2. FieldsCopied(h, g, o, n, f)
      BY <2>1, CloneFields
    <2>3. Clients(g) = Clients(h) \cup {d}
      BY <2>1, CloneFields
    <2> QED BY <2>2, <2>3
  <1>7. u[1] = g /\ u[2] = d
    BY <1>3
  <1> HIDE DEF g
  <1>8. /\ Shape(g) /\ g.ref[d] = n /\ g.kind[n] = h.kind[o] /\ d \in Unused(h) /\ d \in Cell
        /\ \A k \in Cell : h.own[k] # "unused" => g.ref[k] = h.ref[k]
        /\ \A p \in Obj : p # n => Untouched(h, g, p)
    BY <1>4, <1>5 DEF Copied, Unused, Held
  <1>9. \A k \in Cell : h.ref[k] # n
    BY <1>4, FreeUnreferenced DEF Shape
  <1>10. \A j, k \in Cell : g.ref[j] = h.ref[k] /\ h.ref[k] # n => TermsOf(g)[j] = TermsOf(h)[k]
    BY <1>4, <1>8, <1>9, KeepsOthers
  <1>11. \A k \in Cell : h.own[k] # "unused" => TermsOf(g)[k] = TermsOf(h)[k]
    BY <1>8, <1>9, <1>10
  <1>12. TermsOf(g)[d] \in Immutable!Copies(TermsOf(h)[c], TRUE)
    <2> DEFINE E == TermsOf(h)[c].fields
               kind == h.kind[o]
    <2>1. TermsOf(h)[c] = Node(kind, E) /\ TermFields(E, Held(h, o), h.slot, TermsOf(h))
      BY <1>0, FieldTerm
    <2> HIDE DEF E, kind
    <2>2. TermsCopied(h, o, f, TermsOf(g))
      BY <1>6, <1>9, <1>10 DEF TermsCopied, FieldsCopied, Held
    <2>3. /\ kind \in Immutable!Callable => Held(g, n) = {}
          /\ kind \notin Immutable!Callable => TermFields(E, Held(g, n), g.slot, TermsOf(g))
      <3>1. TermFields(E, Held(h, o), h.slot, TermsOf(h)) /\ FieldsCopied(h, g, o, n, f) /\ n \in Obj
        BY <1>4, <1>6, <2>1
      <3>2. h.kind[o] \in Immutable!Callable => Held(g, n) = {}
        BY <2>2, <3>1, CopiedFields, Zenon
      <3>3. h.kind[o] \notin Immutable!Callable => TermFields(E, Held(g, n), g.slot, TermsOf(g))
        BY <2>2, <3>1, CopiedFields, Zenon
      <3> QED BY <3>2, <3>3 DEF kind
    <2>4. g.ref[d] \in Obj /\ g.ref[d] = n /\ g.kind[n] = kind
      BY <1>4, <1>8 DEF kind
    <2>5. CASE kind \in Immutable!Callable
      <3>1. TermFields(<<>>, Held(g, n), g.slot, TermsOf(g))
        BY <2>3, <2>5, NoTermFields, Zenon
      <3>2. TermsOf(g)[d] = Node(kind, <<>>)
        BY <1>8, <2>4, <3>1, NodeOf
      <3>3. TermsOf(h)[c].kind = kind
        BY <2>1 DEF Node
      <3>4. Immutable!Bare(TermsOf(h)[c]) = Node(kind, <<>>)
        BY <2>5, <3>3 DEF Immutable!Bare, Immutable!Node, Node
      <3> QED BY <3>2, <3>4 DEF Immutable!Copies
    <2>6. CASE kind \notin Immutable!Callable
      <3>1. TermsOf(g)[d] = Node(kind, E)
        BY <1>8, <2>3, <2>4, <2>6, NodeOf
      <3> QED BY <2>1, <3>1 DEF Immutable!Copies
    <2> QED BY <2>5, <2>6
  <1>13. PlainAt(g, n)
    <2>1. \A x \in Held(g, n) : \E k \in Held(h, o) : g.slot[x] = h.slot[k]
      BY <1>6 DEF FieldsCopied
    <2> QED BY <1>0, <1>8, <2>1 DEF PlainAt
  <1>14. Plain(g)
    BY <1>8, <1>13, PlainFrom
  <1>15. Held(g, n) \subseteq Unused(h)
    BY <1>6 DEF FieldsCopied
  <1>16. CopyOf(h, g, c, d)
    BY <1>0, <1>4, <1>6, <1>8, <1>11, <1>12, <1>14, <1>15 DEF CopyOf
  <1> QED BY <1>5, <1>7, <1>8, <1>16

(* The client has the one reference d in exchange for c. *)
Exchanged(h, g, c, d) ==
  /\ Shape(g) /\ d \in Clients(g) /\ g.ref[d] \in Obj
  /\ d = c \/ d \in Unused(h)
  /\ Clients(g) = (Clients(h) \ {c}) \cup {d}
  /\ \A k \in Clients(h) \ {c} : TermsOf(g)[k] = TermsOf(h)[k]
  /\ TermsOf(g)[d] \in Immutable!Copies(TermsOf(h)[c], TRUE)
  /\ g.kind[g.ref[d]] = h.kind[h.ref[c]] /\ g.kind[g.ref[d]] # "free"
  /\ Held(g, g.ref[d]) \cap Clients(h) = {}
  /\ OneRef(g, d) /\ Plain(g)

LEMMA UniqTerms ==
  ASSUME NEW h, Shape(h), Plain(h), CloneContract, NEW c \in Clients(h), h.ref[c] \in Obj,
         NEW u \in hvalue_uniq(h, c)
  PROVE  Exchanged(h, u[1], c, u[2])
  <1> DEFINE s == h.ref[c]
  <1>0. c \in Cell /\ h.own[c] = "client" /\ h.kind[s] # "free"
    BY FreeUnreferenced DEF Shape, Clients, Held
  <1>1. CASE hvalue_is_uniq(h, c)
    <2>1. u[1] = h /\ u[2] = c
      BY <1>1 DEF hvalue_uniq
    <2>2. OneRef(h, c)
      BY <1>0, <1>1, OneReference DEF Shape, hvalue_is_uniq, OneRef
    <2>3. Held(h, s) \cap Clients(h) = {}
      BY HolderAssumption DEF Held, Clients, Holder
    <2>4. Exchanged(h, h, c, c)
      BY <1>0, <2>2, <2>3 DEF Exchanged, Immutable!Copies
    <2> QED BY <2>1, <2>4
  <1>2. CASE ~hvalue_is_uniq(h, c)
    <2>1. PICK v \in Clones(h, s) : u = <<hvalue_drop(v[1], c), v[2]>>
      BY <1>2 DEF hvalue_uniq
    <2> DEFINE f == v[1]
               d == v[2]
               n == f.ref[d]
               g == hvalue_drop(f, c)
    <2>2. Copied(h, f, s, n, d) /\ CopyOf(h, f, c, d)
      BY <1>0, CloneTerms
    <2>3. u[1] = g /\ u[2] = d
      BY <2>1
    <2> HIDE DEF f, d
    <2>4. Exchanged(h, u[1], c, u[2]) <=> Exchanged(h, g, c, d)
      BY <2>3
    <2>5. /\ Shape(f) /\ \A k \in Cell : f.ref[k] = n => k = d
          /\ d \in Cell /\ h.own[d] = "unused" /\ f.own[c] = "client" /\ f.ref[c] = s
          /\ f.own[d] = "client"
      BY <1>0, <2>2 DEF Copied, CopyOf, Unused, Held
    <2>6. c # d /\ n # s /\ "client" \notin Obj /\ n \in Obj
      BY <1>0, <2>2, <2>5, HolderAssumption DEF Holder, CopyOf
    <2>7. /\ Clients(g) = Clients(f) \ {c} /\ Keeps(f, g, {c})
      BY <1>0, <2>5, <2>6, DropTerms
    <2>8. /\ Shape(g)
          /\ \A k \in Cell : g.ref[k] \in {f.ref[k], Blank}
          /\ Untouched(f, g, n) /\ g.ref[d] = n
      BY <1>0, <2>5, <2>6, DropShape
    <2>9. Plain(g)
      BY <1>0, <2>2, <2>5, <2>6, DropPlain DEF CopyOf
    <2> HIDE DEF g, n, s
    <2>10. Clients(g) = (Clients(h) \ {c}) \cup {d} /\ d \in Clients(g) /\ d \in Unused(h)
      BY <2>2, <2>6, <2>7 DEF CopyOf
    <2>11. \A k \in Clients(h) \ {c} : TermsOf(g)[k] = TermsOf(h)[k]
      <3>1. \A k \in Clients(h) : k \in Cell /\ h.own[k] # "unused"
        BY DEF Clients, Held
      <3> QED BY <2>2, <2>7, <3>1 DEF CopyOf, Keeps
    <2>12. TermsOf(g)[d] \in Immutable!Copies(TermsOf(h)[c], TRUE)
      BY <2>2, <2>5, <2>6, <2>7 DEF CopyOf, Keeps
    <2>13. g.kind[g.ref[d]] = h.kind[h.ref[c]] /\ g.kind[g.ref[d]] # "free"
      BY <1>0, <2>2, <2>8 DEF CopyOf, Untouched, n, s
    <2>14. Held(g, g.ref[d]) \cap Clients(h) = {}
      <3>1. Held(g, n) \subseteq Unused(h)
        BY <2>2, <2>8 DEF CopyOf, Untouched, SameFields, n
      <3> QED BY <2>8, <3>1 DEF Unused, Clients, Held
    <2>15. OneRef(g, d)
      BY <2>5, <2>6, <2>8, WordAssumption DEF OneRef
    <2>17. Exchanged(h, g, c, d)
      BY <2>6, <2>8, <2>9, <2>10, <2>11, <2>12, <2>13, <2>14, <2>15 DEF Exchanged
    <2> QED BY <2>4, <2>17
  <1> QED BY <1>1, <1>2

-----------------------------------------------------------------------------
(* The steps of the client, on its terms. *)

(* The term None of Terms marks a cell that the client does not hold: no    *)
(* word, kind or uninitialized field is called so.                          *)
NoneIsNoValue == "none" \notin Word \cup {Blank} \cup Kind

NoTerm == Node("none", <<>>)
Abs(h) == [c \in Cell |-> IF c \in Clients(h) THEN TermsOf(h)[c] ELSE NoTerm]

LEMMA AbsIs == ClientTerm = Abs(heap) /\ ClientTerm' = Abs(heap')
  <1>1. ClientTerm = Abs(heap)
    BY DEF ClientTerm, Abs, Client, Clients, NoTerm, Term, TermsOf, IsTerms
  <1>2. ClientTerm' = Abs(heap')
    BY DEF ClientTerm, Abs, Client, Clients, NoTerm, Term, TermsOf, IsTerms, Held
  <1> QED BY <1>1, <1>2

(* From h to g, the cells of gone lose their terms, new[k] is put into k. *)
Becomes(h, g, gone, new) ==
  /\ DOMAIN new \subseteq Cell
  /\ Clients(g) = (Clients(h) \ gone) \cup DOMAIN new
  /\ \A k \in DOMAIN new : TermsOf(g)[k] = new[k]
  /\ \A k \in Clients(h) \ gone : k \notin DOMAIN new => TermsOf(g)[k] = TermsOf(h)[k]

LEMMA UpdateIs ==
  ASSUME NEW gone, NEW new, Becomes(heap, heap', gone, new)
  PROVE  Immutable!Update(gone, new)
  <1>1. \A c \in Cell : Abs(heap')[c] = IF c \in DOMAIN new THEN new[c]
                                        ELSE IF c \in gone THEN NoTerm ELSE Abs(heap)[c]
    BY DEF Becomes, Abs
  <1>2. Abs(heap') = [c \in Cell |-> Abs(heap')[c]]
    BY DEF Abs
  <1>3. Abs(heap') = [c \in Cell |-> IF c \in DOMAIN new THEN new[c]
                                     ELSE IF c \in gone THEN NoTerm ELSE Abs(heap)[c]]
    BY <1>1, <1>2
  <1> QED BY <1>3, AbsIs DEF Immutable!Update, Immutable!None, Immutable!Node, NoTerm, Node

LEMMA SameAbs ==
  ASSUME Becomes(heap, heap', {}, <<>>)
  PROVE  ClientTerm' = ClientTerm
  <1>1. \A c \in Cell : Abs(heap')[c] = Abs(heap)[c]
    BY DEF Becomes, Abs
  <1>2. Abs(heap') = Abs(heap)
    BY <1>1 DEF Abs
  <1> QED BY <1>2, AbsIs

LEMMA FullIs ==
  ASSUME Shape(heap), NoneIsNoValue
  PROVE  /\ Immutable!Full = Clients(heap) /\ Immutable!Empty = Cell \ Clients(heap)
         /\ \A c \in Clients(heap) : ClientTerm[c] = TermsOf(heap)[c]
  <1>1. ASSUME NEW c \in Cell PROVE TermsOf(heap)[c].kind # "none"
    <2>1. heap.ref[c] \in Obj \cup Word \cup {Blank} /\ \A o \in Obj : heap.kind[o] \in Kind
      BY DEF Shape, Good, Heap
    <2>2. CASE heap.ref[c] \in Obj
      <3>1. TermsOf(heap)[c].kind = heap.kind[heap.ref[c]]
        BY <2>2, FieldTerm
      <3> QED BY <2>1, <2>2, <3>1 DEF NoneIsNoValue
    <2>3. CASE heap.ref[c] \notin Obj
      <3>1. TermsOf(heap)[c] = Node(heap.ref[c], <<>>)
        BY <2>3, WordTerm
      <3> QED BY <2>1, <2>3, <3>1 DEF NoneIsNoValue, Node
    <2> QED BY <2>2, <2>3
  <1>2. NoTerm.kind = "none" /\ NoTerm = Immutable!None
    BY DEF NoTerm, Node, Immutable!None, Immutable!Node
  <1>3. \A c \in Cell : ClientTerm[c] = IF c \in Clients(heap) THEN TermsOf(heap)[c] ELSE NoTerm
    BY AbsIs DEF Abs
  <1>4. \A c \in Cell : ClientTerm[c] = Immutable!None <=> c \notin Clients(heap)
    BY <1>1, <1>2, <1>3
  <1>5. Clients(heap) \subseteq Cell
    BY DEF Clients, Held
  <1>6. Immutable!Empty = Cell \ Clients(heap)
    BY <1>4 DEF Immutable!Empty
  <1>7. Immutable!Full = Clients(heap)
    BY <1>5, <1>6 DEF Immutable!Full
  <1> QED BY <1>3, <1>5, <1>6, <1>7

One(c, t) == [k \in {c} |-> t]

LEMMA BecomesOne ==
  ASSUME NEW h, NEW g, NEW gone, NEW c \in Cell, NEW t,
         Clients(g) = (Clients(h) \ gone) \cup {c}, TermsOf(g)[c] = t,
         \A k \in Clients(h) \ gone : k # c => TermsOf(g)[k] = TermsOf(h)[k]
  PROVE  Becomes(h, g, gone, One(c, t))
  BY DEF Becomes, One

LEMMA BecomesLess ==
  ASSUME NEW h, NEW g, NEW gone, Clients(g) = Clients(h) \ gone,
         \A k \in Clients(h) \ gone : TermsOf(g)[k] = TermsOf(h)[k]
  PROVE  Becomes(h, g, gone, <<>>)
  <1>1. DOMAIN <<>> = {}
    OBVIOUS
  <1> QED BY <1>1 DEF Becomes

(* What holds before every step, and what each step is shown to do. *)
Before == Shape(heap) /\ Plain(heap) /\ NoneIsNoValue
After == (Immutable!Next(TRUE) \/ ClientTerm' = ClientTerm) /\ Plain(heap')

LEMMA ClientFacts ==
  ASSUME NEW h
  PROVE  \A c \in Clients(h) : /\ c \in Cell /\ h.own[c] = "client" /\ h.own[c] \notin Obj
                               /\ h.own[c] # "lost" /\ c \notin Unused(h)
  BY HolderAssumption DEF Clients, Unused, Held, Holder

LEMMA DropFieldTerms ==
  ASSUME Before, DropField
  PROVE  After
  <1>1. PICK c \in Cell : heap.own[c] = "dropping" /\ heap' = hvalue_drop(heap, c)
    BY DEF DropField, Held
  <1>2. heap.own[c] \notin Obj /\ c \notin Clients(heap)
    BY <1>1, HolderAssumption DEF Holder, Clients, Held
  <1>3. Clients(heap') = Clients(heap) \ {c} /\ Keeps(heap, heap', {c})
    BY <1>1, <1>2, DropTerms DEF Before
  <1>4. Plain(heap')
    BY <1>1, <1>2, DropPlain DEF Before
  <1>5. Becomes(heap, heap', {}, <<>>)
    <2>1. Clients(heap') = Clients(heap) \ {}
      BY <1>2, <1>3
    <2>2. \A k \in Clients(heap) \ {} : TermsOf(heap')[k] = TermsOf(heap)[k]
      BY <1>2, <1>3, ClientFacts DEF Keeps
    <2> QED BY <2>1, <2>2, BecomesLess
  <1> QED BY <1>4, <1>5, SameAbs DEF After

LEMMA ScalarTerms ==
  ASSUME Before, NEW c \in FreshCell(heap), NEW w \in Word, MakeScalar(c, w)
  PROVE  After
  <1>1. c \in Cell /\ heap.own[c] = "unused" /\ c \notin Clients(heap)
    BY FreshFacts DEF Clients, Held
  <1>2. heap' = hvalue_make(heap, c, w)
    BY DEF MakeScalar
  <1>3. Plain(heap')
    BY <1>1, <1>2, MakePlain DEF Before
  <1>4. /\ Clients(heap') = Clients(heap) \cup {c} /\ Keeps(heap, heap', {c})
        /\ TermsOf(heap')[c] = Node(w, <<>>)
    BY <1>1, <1>2, MakeTerms DEF Before
  <1>5. Becomes(heap, heap', {}, One(c, Node(w, <<>>)))
    <2>1. Clients(heap') = (Clients(heap) \ {}) \cup {c}
      BY <1>4
    <2>2. \A k \in Clients(heap) \ {} : k # c => TermsOf(heap')[k] = TermsOf(heap)[k]
      BY <1>4, ClientFacts DEF Keeps
    <2> QED BY <1>1, <1>4, <2>1, <2>2, BecomesOne
  <1>6. Immutable!Update({}, One(c, Node(w, <<>>)))
    BY <1>5, UpdateIs
  <1>7. Immutable!New(c) /\ c \in Immutable!Empty
    BY <1>1, <1>6, FullIs DEF Immutable!New, Immutable!At, Immutable!Atom, Immutable!Node, Node, One, Before
  <1>8. Immutable!Next(TRUE)
    BY <1>7 DEF Immutable!Next
  <1> QED BY <1>3, <1>8 DEF After

LEMMA ReferenceTerms ==
  ASSUME Before, NEW c \in Client, NEW d \in FreshCell(heap), Reference(c, d)
  PROVE  After
  <1>1. /\ d \in Cell /\ heap.own[d] = "unused" /\ d \notin Clients(heap)
        /\ c \in Cell /\ c \in Clients(heap) /\ heap.own[c] # "lost"
    BY FreshFacts DEF Clients, Client, Held
  <1>2. heap' = hvalue_ref(heap, c, d)
    BY DEF Reference
  <1>3. Plain(heap')
    BY <1>1, <1>2, RefPlain DEF Before
  <1>4. /\ Clients(heap') = Clients(heap) \cup {d} /\ Keeps(heap, heap', {d})
        /\ TermsOf(heap')[d] = TermsOf(heap)[c]
    BY <1>1, <1>2, RefTerms DEF Before
  <1>5. Becomes(heap, heap', {}, One(d, TermsOf(heap)[c]))
    <2>1. Clients(heap') = (Clients(heap) \ {}) \cup {d}
      BY <1>4
    <2>2. \A k \in Clients(heap) \ {} : k # d => TermsOf(heap')[k] = TermsOf(heap)[k]
      BY <1>4, ClientFacts DEF Keeps
    <2> QED BY <1>1, <1>4, <2>1, <2>2, BecomesOne
  <1>6. Immutable!Update({}, One(d, TermsOf(heap)[c]))
    BY <1>5, UpdateIs
  <1>7. /\ Immutable!Copy(ClientTerm[c], d) /\ c \in Immutable!Full /\ d \in Immutable!Empty
        /\ ClientTerm[c] \in Immutable!Copies(ClientTerm[c], TRUE)
    BY <1>1, <1>6, FullIs DEF Immutable!Copy, Immutable!Copies, Immutable!At, One, Before
  <1>8. Immutable!Next(TRUE)
    BY <1>7 DEF Immutable!Next
  <1> QED BY <1>3, <1>8 DEF After

LEMMA CloneStepTerms ==
  ASSUME Before, CloneContract, NEW c \in Client, Clone(c)
  PROVE  After
  <1>1. c \in Clients(heap) /\ heap.ref[c] \in Obj
    BY DEF Clients, Client, Clone
  <1>2. PICK u \in Clones(heap, heap.ref[c]) : heap' = u[1]
    BY DEF Clone
  <1> DEFINE d == u[2]
             t == TermsOf(heap')[d]
  <1>3. CopyOf(heap, heap', c, d)
    BY <1>1, <1>2, CloneTerms DEF Before
  <1> HIDE DEF d
  <1>4. Plain(heap') /\ d \in Cell /\ d \notin Clients(heap)
    BY <1>3 DEF CopyOf, Unused, Clients, Held
  <1>5. Becomes(heap, heap', {}, One(d, t))
    <2>1. Clients(heap') = (Clients(heap) \ {}) \cup {d}
      BY <1>3 DEF CopyOf
    <2>2. \A k \in Clients(heap) \ {} : k # d => TermsOf(heap')[k] = TermsOf(heap)[k]
      BY <1>3 DEF CopyOf, Clients, Held
    <2> QED BY <1>4, <2>1, <2>2, BecomesOne
  <1>6. Immutable!Update({}, One(d, t))
    BY <1>5, UpdateIs
  <1>7. t \in Immutable!Copies(TermsOf(heap)[c], TRUE)
    BY <1>3 DEF CopyOf
  <1> HIDE DEF t
  <1>8. /\ Immutable!Copy(t, d) /\ t \in Immutable!Copies(ClientTerm[c], TRUE)
        /\ c \in Immutable!Full /\ d \in Immutable!Empty
    BY <1>1, <1>4, <1>6, <1>7, FullIs DEF Immutable!Copy, Immutable!At, One, Before
  <1>9. Immutable!Next(TRUE)
    BY <1>8 DEF Immutable!Next
  <1> QED BY <1>4, <1>9 DEF After

LEMMA DropStepTerms ==
  ASSUME Before, NEW c \in Client, Drop(c)
  PROVE  After
  <1>1. c \in Clients(heap) /\ c \in Cell /\ heap.own[c] \notin Obj
    BY HolderAssumption DEF Clients, Client, Held, Holder
  <1>2. heap' = hvalue_drop(heap, c)
    BY DEF Drop
  <1>3. Plain(heap')
    BY <1>1, <1>2, DropPlain DEF Before
  <1>4. Clients(heap') = Clients(heap) \ {c} /\ Keeps(heap, heap', {c})
    BY <1>1, <1>2, DropTerms DEF Before
  <1>5. Becomes(heap, heap', {c}, <<>>)
    <2>1. \A k \in Clients(heap) \ {c} : TermsOf(heap')[k] = TermsOf(heap)[k]
      BY <1>4, ClientFacts DEF Keeps
    <2> QED BY <1>4, <2>1, BecomesLess
  <1>6. Immutable!Forget(c) /\ c \in Immutable!Full
    BY <1>1, <1>5, UpdateIs, FullIs DEF Immutable!Forget, Before
  <1>7. Immutable!Next(TRUE)
    BY <1>6 DEF Immutable!Next
  <1> QED BY <1>3, <1>7 DEF After

LEMMA BindNilTerms ==
  ASSUME Before, NEW nil \in Client, NEW then \in Client, BindNil(nil, then)
  PROVE  After
  <1>1. then \in Clients(heap) /\ then \in Cell /\ heap.own[then] = "client"
    BY DEF Clients, Client, Held
  <1>2. heap' = [heap EXCEPT !.own[then] = "lost"]
    BY DEF BindNil
  <1>3. Plain(heap')
    BY <1>1, <1>2, MovePlain DEF Before
  <1>4. Clients(heap') = Clients(heap) \ {then} /\ Keeps(heap, heap', {})
    BY <1>1, <1>2, MoveTerms DEF Before
  <1>5. Becomes(heap, heap', {then}, <<>>)
    <2>1. \A k \in Clients(heap) \ {then} : TermsOf(heap')[k] = TermsOf(heap)[k]
      BY <1>4, ClientFacts DEF Keeps
    <2> QED BY <1>4, <2>1, BecomesLess
  <1>6. Immutable!Forget(then) /\ then \in Immutable!Full
    BY <1>1, <1>5, UpdateIs, FullIs DEF Immutable!Forget, Before
  <1>7. Immutable!Next(TRUE)
    BY <1>6 DEF Immutable!Next
  <1> QED BY <1>3, <1>7 DEF After

LEMMA FreshAre ==
  ASSUME NEW h, NEW o \in FreshObj(h), NEW c \in FreshCell(h)
  PROVE  /\ o \in Obj \ Live(h) /\ o \in Obj /\ h.kind[o] = "free"
         /\ c \in Unused(h) /\ c \in Cell /\ c \notin Clients(h) /\ h.own[c] = "unused"
  BY FreshFacts DEF Live, Unused, Held, Clients

(* A new object without fields. *)
LEMMA BareTerms ==
  ASSUME Before, NEW o \in FreshObj(heap), NEW c \in FreshCell(heap),
         NEW kind \in {"string"} \cup Fn \cup Immutable!Callable, Shape(heap'),
         heap' = Alloc(heap, o, c, kind, <<>>)
  PROVE  After
  <1>0. PICK at : at = <<>>
    OBVIOUS
  <1> DEFINE g == Alloc(heap, o, c, kind, at)
  <1>1. DOMAIN at = {} /\ IsMap(at)
    BY <1>0 DEF IsMap
  <1>2. TermFields(at, DOMAIN at, at, TermsOf(heap))
    BY <1>1 DEF TermFields
  <1>3. o \in Obj \ Live(heap) /\ c \in Unused(heap) /\ c \in Cell /\ c \notin Clients(heap)
    BY FreshAre
  <1>4. g = heap' /\ DOMAIN at \subseteq Clients(heap) /\ Shape(g)
    BY <1>0, <1>1
  <1>5. Built(heap, g, o, c, kind, at) /\ TermsOf(g)[c] = Node(kind, at)
    BY <1>2, <1>3, <1>4, AllocTerms DEF Before
  <1>6. PlainAt(g, o)
    BY <1>1, <1>5 DEF Built, PlainAt
  <1>7. Plain(g)
    BY <1>5, <1>6, AllocPlain DEF Before
  <1> HIDE DEF g
  <1>8. Becomes(heap, g, {}, One(c, Node(kind, at)))
    <2>1. Clients(g) = (Clients(heap) \ {}) \cup {c}
      BY <1>1, <1>5 DEF Built
    <2>2. \A k \in Clients(heap) \ {} : k # c => TermsOf(g)[k] = TermsOf(heap)[k]
      BY <1>5, ClientFacts DEF Built, Keeps
    <2> QED BY <1>3, <1>5, <2>1, <2>2, BecomesOne
  <1>9. Immutable!Update({}, One(c, Node(kind, <<>>)))
    BY <1>0, <1>4, <1>8, UpdateIs
  <1>10. Immutable!New(c) /\ c \in Immutable!Empty
    BY <1>3, <1>9, FullIs DEF Immutable!New, Immutable!At, Immutable!Node, Node, One, Before
  <1>11. Immutable!Next(TRUE)
    BY <1>10 DEF Immutable!Next
  <1> QED BY <1>4, <1>7, <1>11 DEF After

LEMMA OperandsAre ==
  ASSUME NEW S, NEW n \in 1..MaxFields, NEW as \in [1..n -> S], Distinct(as)
  PROVE  as \in Immutable!Operands(S)
  BY DEF Immutable!Operands, Distinct

LEMMA EffectTerm ==
  ASSUME Before, NEW c, IsEffect(c)
  PROVE  \/ Immutable!KindOf(c) = "binding"
         \/ Immutable!KindOf(c) \in Native /\ NativeMeta[Immutable!KindOf(c)].effect
  <1>1. c \in Clients(heap) /\ c \in Cell /\ heap.ref[c] \in Obj
    BY DEF IsEffect, Is, Client, Clients, Held
  <1>2. TermsOf(heap)[c].kind = heap.kind[heap.ref[c]]
    BY <1>1, FieldTerm DEF Before
  <1>3. Immutable!KindOf(c) = heap.kind[heap.ref[c]]
    BY <1>1, <1>2, FullIs DEF Immutable!KindOf, Before
  <1> QED BY <1>3 DEF IsEffect, Is

(* A new object with fields. *)
LEMMA SequenceTerms ==
  ASSUME Before, NEW o \in FreshObj(heap), NEW c \in FreshCell(heap),
         NEW kind \in {"cons", "tuple", "binding"}, Shape(heap'),
         NEW m \in 1..MaxFields, NEW as \in [1..m -> Client], Distinct(as),
         kind \in Pairs => m = 2, kind = "binding" => IsEffect(as[1]),
         heap' = Alloc(heap, o, c, kind, Fields(as, 1))
  PROVE  After
  <1> DEFINE F == SeqTerms(heap, as, m)
             at == Fields(as, 1)
             g == Alloc(heap, o, c, kind, at)
  <1>1. o \in Obj \ Live(heap) /\ c \in Unused(heap) /\ c \in Cell /\ c \notin Clients(heap)
    BY FreshAre
  <1>2. m \in Nat /\ kind \in Kind \ {"free"} /\ Client \subseteq Clients(heap) /\ kind \notin Native
    BY MaxFieldsAssumption, KindAssumption DEF Kind, Client, Clients
  <1>3. /\ Shape(g) /\ Built(heap, g, o, c, kind, at)
        /\ Numbers(at, as, 0, m) /\ Range(as) \subseteq Client
        /\ TermsOf(g)[c] = Node(kind, F)
    <2>1. Shape(heap)
      BY DEF Before
    <2>2. Shape(g) /\ Built(heap, g, o, c, kind, at)
      BY <1>1, <1>2, <2>1, BuildTerms
    <2>3. Numbers(at, as, 0, m) /\ Range(as) \subseteq Client
      BY <1>2, FirstFields
    <2>4. StandsFor(g, c, Node(kind, F))
      BY <1>1, <1>2, <2>1, BuildTerms
    <2>5. TermsOf(g)[c] = Node(kind, F)
      BY <2>4, Zenon DEF StandsFor
    <2> QED BY <2>2, <2>3, <2>5
  <1>4. \A k \in DOMAIN at : at[k] > 0
    BY <1>2, <1>3, NumbersTerms
  <1>5. DOMAIN at = Range(as) /\ DOMAIN at \subseteq Clients(heap)
    BY <1>2, <1>3 DEF Numbers
  <1> HIDE DEF F, at
  <1>6. PlainAt(g, o)
    BY <1>2, <1>3, <1>4 DEF Built, PlainAt, IsEffectKind
  <1>7. Plain(g)
    BY <1>3, <1>6, AllocPlain DEF Before
  <1>8. g = heap'
    BY DEF at
  <1> HIDE DEF g
  <1>9. Becomes(heap, g, Range(as), One(c, Node(kind, F)))
    <2>1. Clients(g) = (Clients(heap) \ Range(as)) \cup {c}
      BY <1>1, <1>3, <1>5 DEF Built
    <2>2. \A k \in Clients(heap) \ Range(as) : k # c => TermsOf(g)[k] = TermsOf(heap)[k]
      BY <1>3, ClientFacts DEF Built, Keeps
    <2> QED BY <1>1, <1>3, <2>1, <2>2, BecomesOne
  <1>10. Immutable!Update(Range(as), One(c, Node(kind, F)))
    BY <1>8, <1>9, UpdateIs
  <1>11. as \in Immutable!Operands(Immutable!Full) /\ c \in Immutable!Empty
    BY <1>1, FullIs, OperandsAre DEF Before, Client, Clients
  <1>12. F = Immutable!TermsOf(as)
    <2>1. DOMAIN as = 1..m /\ \A i \in 1..m : ClientTerm[as[i]] = TermsOf(heap)[as[i]]
      BY FullIs DEF Before, Client, Clients
    <2> QED BY <2>1 DEF F, SeqTerms, Immutable!TermsOf
  <1>13. Len(as) = m
    BY <1>2
  <1>14. kind = "binding" => \/ Immutable!KindOf(as[1]) = "binding"
                             \/ /\ Immutable!KindOf(as[1]) \in Native
                                /\ NativeMeta[Immutable!KindOf(as[1])].effect
    BY EffectTerm
  <1>15. Immutable!Update(Range(as), Immutable!At(c, Immutable!Node(kind, Immutable!TermsOf(as))))
    BY <1>10, <1>12 DEF Immutable!At, Immutable!Node, Node, One
  <1>16. Immutable!Build(c, as)
    <2>1. kind = "cons" => Len(as) = 2
      BY <1>13 DEF Pairs
    <2>2. kind = "binding" => Len(as) = 2
      BY <1>13 DEF Pairs
    <2>3. Immutable!Range(as) = Range(as)
      BY DEF Immutable!Range, Range
    <2>4. Immutable!Update(Immutable!Range(as),
                           Immutable!At(c, Immutable!Node(kind, Immutable!TermsOf(as))))
      BY <1>15, <2>3
    <2> QED BY <1>14, <2>1, <2>2, <2>4, Zenon DEF Immutable!Build
  <1>17. Immutable!Next(TRUE)
    BY <1>11, <1>16 DEF Immutable!Next
  <1> QED BY <1>7, <1>8, <1>17 DEF After

LEMMA MakeStepTerms ==
  ASSUME Before, MaxFields >= 2, NEW o \in FreshObj(heap), NEW c \in FreshCell(heap), Make(o, c)
  PROVE  After
  <1>0. Shape(heap')
    BY MakeKeepsShape DEF Before
  <1>1. CASE MakeString(o, c)
    <2>1. heap' = Alloc(heap, o, c, "string", <<>>)
      BY <1>1 DEF MakeString
    <2> QED BY <1>0, <2>1, BareTerms
  <1>2. ASSUME NEW fn \in Fn, MakeClosure(o, c, fn) PROVE After
    <2>1. heap' = Alloc(heap, o, c, fn, <<>>)
      BY <1>2 DEF MakeClosure
    <2> QED BY <1>0, <2>1, BareTerms
  <1>3. ASSUME NEW n \in Native, MakeNative(o, c, n) PROVE After
    <2>1. heap' = Alloc(heap, o, c, n, <<>>) /\ n \in Immutable!Callable
      BY <1>3 DEF MakeNative, Immutable!Callable
    <2> QED BY <1>0, <2>1, BareTerms
  <1>4. ASSUME NEW h \in Client, NEW t \in Client, h # t, NEW kind \in Pairs,
               kind = "binding" => IsEffect(h),
               heap' = Alloc(heap, o, c, kind, Fields(<<h, t>>, 1))
        PROVE  After
    <2>1. PICK as : as = <<h, t>>
      OBVIOUS
    <2>2. as \in [1..2 -> Client] /\ as[1] = h
      BY <2>1
    <2>3. Distinct(as)
      <3>1. DOMAIN as = 1..2 /\ as[1] = h /\ as[2] = t
        BY <2>1
      <3>2. \A i \in 1..2 : i = 1 \/ i = 2
        OBVIOUS
      <3> QED BY <1>4, <3>1, <3>2 DEF Distinct
    <2>4. heap' = Alloc(heap, o, c, kind, Fields(as, 1))
      BY <1>4, <2>1
    <2>5. 2 \in 1..MaxFields /\ kind \in {"cons", "tuple", "binding"}
      BY MaxFieldsAssumption DEF Pairs
    <2>6. kind = "binding" => IsEffect(as[1])
      BY <1>4, <2>2
    <2>7. PICK two \in 1..MaxFields : two = 2
      BY <2>5
    <2>8. as \in [1..two -> Client] /\ (kind \in Pairs => two = 2)
      BY <2>2, <2>7
    <2> QED BY <1>0, <2>3, <2>4, <2>5, <2>6, <2>8, SequenceTerms
  <1>5. ASSUME NEW h \in Client, NEW t \in Client, MakeCons(o, c, h, t) PROVE After
    <2>1. h # t /\ heap' = Alloc(heap, o, c, "cons", Fields(<<h, t>>, 1)) /\ "cons" \in Pairs
      BY <1>5 DEF MakeCons, Pairs
    <2> QED BY <1>4, <2>1
  <1>6. ASSUME NEW h \in Client, NEW t \in Client, BindEffect(o, c, h, t) PROVE After
    <2>1. /\ h # t /\ heap' = Alloc(heap, o, c, "binding", Fields(<<h, t>>, 1))
          /\ "binding" \in Pairs /\ IsEffect(h)
      BY <1>6 DEF BindEffect, Pairs
    <2> QED BY <1>4, <2>1
  <1>7. ASSUME NEW as \in Operands(Client), MakeTuple(o, c, as) PROVE After
    <2>1. PICK m \in 1..MaxFields : as \in [1..m -> Client] /\ Distinct(as)
      BY DEF Operands, Distinct
    <2>2. heap' = Alloc(heap, o, c, "tuple", Fields(as, 1)) /\ "tuple" \notin Pairs
      BY <1>7 DEF MakeTuple, Pairs
    <2> QED BY <1>0, <2>1, <2>2, SequenceTerms
  <1> QED BY <1>1, <1>2, <1>3, <1>5, <1>6, <1>7 DEF Make

(* The fields of an object, as the client sees them. *)
LEMMA FieldsSeen ==
  ASSUME Before, NEW c \in Client, heap.ref[c] \in Obj
  PROVE  LET o == heap.ref[c]
             E == ClientTerm[c].fields
         IN /\ c \in Cell /\ c \in Clients(heap) /\ c \in Immutable!Full
            /\ ClientTerm[c] = TermsOf(heap)[c] /\ ClientTerm[c] = Node(heap.kind[o], E)
            /\ Immutable!KindOf(c) = heap.kind[o]
            /\ TermFields(E, Held(heap, o), heap.slot, TermsOf(heap))
            /\ \A k \in Held(heap, o) : k \in Cell /\ heap.own[k] = o /\ k \notin Clients(heap)
  <1> DEFINE o == heap.ref[c]
             E == TermsOf(heap)[c].fields
  <1>1. c \in Cell /\ c \in Clients(heap)
    BY DEF Client, Clients, Held
  <1>2. ClientTerm[c] = TermsOf(heap)[c] /\ c \in Immutable!Full
    BY <1>1, FullIs DEF Before
  <1>3. TermsOf(heap)[c] = Node(heap.kind[o], E) /\ TermsOf(heap)[c].kind = heap.kind[o]
    BY <1>1, FieldTerm DEF Before
  <1>4. TermFields(E, Held(heap, o), heap.slot, TermsOf(heap))
    BY <1>1, FieldTerm DEF Before
  <1>5. \A k \in Held(heap, o) : k \in Cell /\ heap.own[k] = o /\ k \notin Clients(heap)
    BY HolderAssumption DEF Held, Clients, Holder
  <1> QED BY <1>1, <1>2, <1>3, <1>4, <1>5 DEF Immutable!KindOf

LEMMA TupleGetTerms ==
  ASSUME Before, NEW c \in Client, NEW i, NEW d \in FreshCell(heap), TupleGet(c, i, d)
  PROVE  After
  <1> DEFINE E == ClientTerm[c].fields
             o == heap.ref[c]
  <1>1. o \in Obj /\ heap.kind[o] = "tuple"
    BY DEF TupleGet, Is
  <1>2. PICK k \in Held(heap, o) : heap.slot[k] = i /\ heap' = hvalue_ref(heap, k, d)
    BY DEF TupleGet
  <1>3. d \in Cell /\ heap.own[d] = "unused" /\ d \notin Clients(heap)
    BY FreshFacts DEF Clients, Held
  <1>4. /\ c \in Clients(heap) /\ c \in Immutable!Full /\ Immutable!KindOf(c) = "tuple"
        /\ TermFields(E, Held(heap, o), heap.slot, TermsOf(heap))
        /\ k \in Cell /\ heap.own[k] = o
    BY <1>1, <1>2, FieldsSeen
  <1>5. i \in DOMAIN E /\ E[i] = TermsOf(heap)[k]
    BY <1>2, <1>4 DEF TermFields
  <1> HIDE DEF E
  <1>6. heap.own[k] # "lost"
    BY <1>1, <1>4, HolderAssumption DEF Holder
  <1>7. Plain(heap')
    BY <1>2, <1>3, <1>4, <1>6, RefPlain DEF Before
  <1>8. /\ Clients(heap') = Clients(heap) \cup {d} /\ Keeps(heap, heap', {d})
        /\ TermsOf(heap')[d] = TermsOf(heap)[k]
    BY <1>2, <1>3, <1>4, RefTerms DEF Before
  <1>9. Becomes(heap, heap', {}, One(d, E[i]))
    <2>1. Clients(heap') = (Clients(heap) \ {}) \cup {d}
      BY <1>8
    <2>2. \A j \in Clients(heap) \ {} : j # d => TermsOf(heap')[j] = TermsOf(heap)[j]
      BY <1>8, ClientFacts DEF Keeps
    <2> QED BY <1>3, <1>5, <1>8, <2>1, <2>2, BecomesOne
  <1>10. Immutable!Update({}, Immutable!At(d, E[i]))
    BY <1>9, UpdateIs DEF Immutable!At, One
  <1>11. Immutable!TupleGet(c, d) /\ d \in Immutable!Empty
    BY <1>3, <1>4, <1>5, <1>10, FullIs DEF Immutable!TupleGet, E, Before
  <1>12. Immutable!Next(TRUE)
    BY <1>4, <1>11 DEF Immutable!Next
  <1> QED BY <1>7, <1>12 DEF After

Two(h, t, E) == [k \in {h, t} |-> E[IF k = h THEN 1 ELSE 2]]

LEMMA UnconsTerms ==
  ASSUME Before, NEW c \in Client, NEW T \in FreshCells(heap, 2), NEW head \in T, NEW tail \in T,
         Uncons(c, head, tail)
  PROVE  After
  <1> DEFINE E == ClientTerm[c].fields
             o == heap.ref[c]
  <1>1. o \in Obj /\ heap.kind[o] = "cons" /\ head # tail
    BY DEF Uncons, Is
  <1>2. PICK h \in Held(heap, o), t \in Held(heap, o) :
          /\ heap.slot[h] = 1 /\ heap.slot[t] = 2
          /\ heap' = hvalue_drop(hvalue_ref(hvalue_ref(heap, h, head), t, tail), c)
    BY DEF Uncons
  <1>3. /\ head \in Cell /\ heap.own[head] = "unused" /\ head \notin Clients(heap)
        /\ tail \in Cell /\ heap.own[tail] = "unused" /\ tail \notin Clients(heap)
    BY FreshFacts DEF Clients, Held
  <1>4. /\ c \in Clients(heap) /\ c \in Immutable!Full /\ Immutable!KindOf(c) = "cons"
        /\ TermFields(E, Held(heap, o), heap.slot, TermsOf(heap))
        /\ h \in Cell /\ heap.own[h] = o /\ t \in Cell /\ heap.own[t] = o
    BY <1>1, <1>2, FieldsSeen
  <1>5. E[1] = TermsOf(heap)[h] /\ E[2] = TermsOf(heap)[t]
    BY <1>2, <1>4 DEF TermFields
  <1> HIDE DEF E
  <1>6. /\ heap.own[h] # "lost" /\ heap.own[t] # "lost" /\ t # head
        /\ c \in Cell /\ c # head /\ c # tail /\ heap.own[c] = "client" /\ "client" \notin Obj
    BY <1>1, <1>3, <1>4, HolderAssumption DEF Holder, Clients, Held
  <1> DEFINE f == hvalue_ref(heap, h, head)
  <1>7. /\ Shape(f) /\ f.own[t] = heap.own[t] /\ f.own[tail] = "unused" /\ f.own[c] = "client"
    BY <1>1, <1>3, <1>4, <1>6, RefShape DEF Before
  <1>8. Plain(f)
    BY <1>3, <1>4, <1>6, RefPlain DEF Before
  <1>9. /\ Clients(f) = Clients(heap) \cup {head} /\ Keeps(heap, f, {head})
        /\ TermsOf(f)[head] = TermsOf(heap)[h]
    BY <1>3, <1>4, RefTerms DEF Before
  <1> DEFINE g == hvalue_ref(f, t, tail)
  <1>10. heap' = hvalue_drop(g, c)
    BY <1>2
  <1> HIDE DEF f
  <1>11. Shape(g) /\ g.own[c] = "client"
    BY <1>3, <1>4, <1>6, <1>7, RefShape
  <1>12. Plain(g)
    BY <1>3, <1>4, <1>6, <1>7, <1>8, RefPlain
  <1>13. /\ Clients(g) = Clients(f) \cup {tail} /\ Keeps(f, g, {tail})
         /\ TermsOf(g)[tail] = TermsOf(f)[t]
    BY <1>3, <1>4, <1>7, RefTerms
  <1> HIDE DEF g
  <1>14. Plain(heap')
    BY <1>6, <1>10, <1>11, <1>12, DropPlain
  <1>15. Clients(heap') = Clients(g) \ {c} /\ Keeps(g, heap', {c})
    BY <1>6, <1>10, <1>11, DropTerms
  <1>16. TermsOf(heap')[head] = E[1] /\ TermsOf(heap')[tail] = E[2]
    BY <1>1, <1>3, <1>4, <1>5, <1>6, <1>9, <1>13, <1>15 DEF Keeps
  <1>17. Becomes(heap, heap', {c}, Two(head, tail, E))
    <2>1. DOMAIN Two(head, tail, E) = {head, tail}
      BY DEF Two
    <2>2. Two(head, tail, E)[head] = E[1] /\ Two(head, tail, E)[tail] = E[2]
      BY <1>1 DEF Two
    <2>3. Clients(heap') = (Clients(heap) \ {c}) \cup {head, tail}
      BY <1>6, <1>9, <1>13, <1>15
    <2>4. \A k \in Clients(heap) \ {c} : TermsOf(heap')[k] = TermsOf(heap)[k]
      BY <1>3, <1>9, <1>13, <1>15, ClientFacts DEF Keeps
    <2> QED BY <1>3, <1>16, <2>1, <2>2, <2>3, <2>4 DEF Becomes
  <1>18. Immutable!Update({c}, Two(head, tail, E))
    BY <1>17, UpdateIs
  <1>19. Immutable!Uncons(c, head, tail) /\ head \in Immutable!Empty /\ tail \in Immutable!Empty
    BY <1>3, <1>4, <1>18, FullIs DEF Immutable!Uncons, Two, E, Before
  <1>20. Immutable!Next(TRUE)
    BY <1>1, <1>4, <1>19 DEF Immutable!Next
  <1> QED BY <1>14, <1>20 DEF After

-----------------------------------------------------------------------------
(* Calls. *)

(* An instance has room for the fields of every closure it can make, whose  *)
(* captures and arguments together are the ClosureArgc of its function, and *)
(* takes no function for a native.                                          *)
ClosuresFit == \A fn \in Fn : fn \notin Native /\ ClosureArgc[fn] \in 0..MaxFields

(* The fields of an object that is no effect are a sequence of terms. *)
LEMMA SeqFields ==
  ASSUME NEW h, Shape(h), NEW o \in Obj, h.kind[o] # "free", PlainAt(h, o), ~IsEffectKind(h.kind[o]),
         NEW E, NEW t, TermFields(E, Held(h, o), h.slot, t)
  PROVE  \E n \in Nat : /\ DOMAIN E = 1..n /\ Cardinality(Args(h, o)) = n
                        /\ Numbered(h, o, n) /\ Args(h, o) = Held(h, o)
  <1>1. PICK n \in Nat : Numbered(h, o, n)
    BY DEF Shape, NumberedIn, Live
  <1>2. Args(h, o) = Held(h, o)
    BY DEF PlainAt, Args
  <1>3. Cardinality(Args(h, o)) = n
    BY <1>1, NumberedCount DEF Shape
  <1>4. DOMAIN E \subseteq 1..n
    BY <1>1, <1>2 DEF Numbered, TermFields
  <1>5. 1..n \subseteq DOMAIN E
    BY <1>1, <1>2 DEF Numbered, TermFields
  <1> QED BY <1>1, <1>2, <1>3, <1>4, <1>5

LEMMA SameInterval ==
  ASSUME NEW m \in Nat, NEW n \in Nat, 1..m = 1..n
  PROVE  m = n
  <1>1. CASE m < n
    <2>1. n \in 1..n /\ n \notin 1..m
      BY <1>1
    <2> QED BY <2>1
  <1>2. CASE n < m
    <2>1. m \in 1..m /\ m \notin 1..n
      BY <1>2
    <2> QED BY <2>1
  <1> QED BY <1>1, <1>2

(* A sequence of terms, and one to which more are appended. *)
LEMMA IsSequence ==
  ASSUME NEW n \in Nat, NEW E, IsMap(E), DOMAIN E = 1..n
  PROVE  E \in Seq({E[i] : i \in 1..n}) /\ Len(E) = n
  <1> DEFINE R == {E[i] : i \in 1..n}
  <1>1. E \in [1..n -> R]
    BY DEF IsMap
  <1>2. E \in Seq(R) /\ Len(E) = n
    <2> HIDE DEF R
    <2>1. E \in Seq(R)
      BY <1>1, SeqDef
    <2> QED BY <2>1, LenProperties
  <1> QED BY <1>2

LEMMA Concatenated ==
  ASSUME NEW n \in Nat, NEW m \in Nat, NEW E, NEW G, IsMap(E), IsMap(G),
         DOMAIN E = 1..n, DOMAIN G = 1..m
  PROVE  /\ IsMap(E \o G) /\ DOMAIN (E \o G) = 1..n + m
         /\ \A i \in 1..n : (E \o G)[i] = E[i]
         /\ \A i \in 1..m : (E \o G)[n + i] = G[i]
  <1> DEFINE R == {E[i] : i \in 1..n} \cup {G[i] : i \in 1..m}
  <1>1. E \in [1..n -> R] /\ G \in [1..m -> R]
    BY DEF IsMap
  <1>2. E \in Seq(R) /\ G \in Seq(R) /\ Len(E) = n /\ Len(G) = m
    <2> HIDE DEF R
    <2>1. E \in Seq(R) /\ G \in Seq(R)
      BY <1>1, SeqDef
    <2> QED BY <2>1, LenProperties
  <1> HIDE DEF R
  <1>3. /\ E \o G \in Seq(R) /\ Len(E \o G) = n + m
        /\ \A i \in 1..n + m : (E \o G)[i] = IF i <= n THEN E[i] ELSE G[i - n]
    BY <1>2, ConcatProperties
  <1>4. DOMAIN (E \o G) = 1..n + m /\ IsMap(E \o G)
    BY <1>3, LenProperties DEF IsMap
  <1>5. \A i \in 1..n : (E \o G)[i] = E[i]
    BY <1>3
  <1>6. ASSUME NEW i \in 1..m PROVE (E \o G)[n + i] = G[i]
    <2>1. n + i \in 1..n + m /\ ~(n + i <= n) /\ n + i - n = i
      OBVIOUS
    <2> QED BY <1>3, <2>1
  <1> QED BY <1>4, <1>5, <1>6

(* The m operands of a call. *)
OperandList(as, S, m) ==
  /\ m \in 1..MaxFields /\ as \in [1..m -> S] /\ Distinct(as)
  /\ Len(as) = m /\ as \in Immutable!Operands(S)
  /\ Immutable!TermsOf(as) = [i \in 1..m |-> ClientTerm[as[i]]]

LEMMA OperandsHave ==
  ASSUME NEW S, NEW as \in Operands(S)
  PROVE  \E m \in Nat : OperandList(as, S, m)
  <1>1. PICK m \in 1..MaxFields : as \in [1..m -> S] /\ Distinct(as)
    BY DEF Operands, Distinct
  <1>2. m \in Nat
    BY MaxFieldsAssumption
  <1>3. DOMAIN as = 1..m /\ Len(as) = m
    BY <1>1, <1>2
  <1>4. as \in Immutable!Operands(S)
    BY <1>1, OperandsAre
  <1>5. Immutable!TermsOf(as) = [i \in 1..m |-> ClientTerm[as[i]]]
    BY <1>3 DEF Immutable!TermsOf
  <1> QED BY <1>1, <1>2, <1>3, <1>4, <1>5 DEF OperandList

(* Object o of h is a callable with n fields, whose terms are E. *)
Partial(h, o, E, n) ==
  /\ IsMap(E) /\ DOMAIN E = 1..n /\ Len(E) = n
  /\ TermFields(E, Held(h, o), h.slot, TermsOf(h))
  /\ Numbered(h, o, n) /\ Args(h, o) = Held(h, o) /\ Cardinality(Args(h, o)) = n

LEMMA PartialIs ==
  ASSUME NEW h, Shape(h), NEW o \in Obj, h.kind[o] # "free", PlainAt(h, o), ~IsEffectKind(h.kind[o]),
         NEW E, TermFields(E, Held(h, o), h.slot, TermsOf(h))
  PROVE  \E n \in Nat : Partial(h, o, E, n)
  <1>1. PICK n \in Nat : /\ DOMAIN E = 1..n /\ Cardinality(Args(h, o)) = n
                         /\ Numbered(h, o, n) /\ Args(h, o) = Held(h, o)
    BY SeqFields
  <1>2. IsMap(E)
    BY DEF TermFields
  <1>3. Len(E) = n
    BY <1>1, <1>2, IsSequence
  <1> QED BY <1>1, <1>2, <1>3 DEF Partial

(* The reference that hvalue_uniq returns stands for a copy of the term. *)
LEMMA UniqFields ==
  ASSUME Before, CloneContract, NEW c \in Client, heap.ref[c] \in Obj, NEW u \in hvalue_uniq(heap, c)
  PROVE  LET h == u[1]
             d == u[2]
             t == TermsOf(h)[d]
             p == heap.ref[c]
         IN /\ Exchanged(heap, h, c, d)
            /\ t \in Immutable!Copies(ClientTerm[c], TRUE) /\ t.kind = heap.kind[p]
            /\ TermFields(t.fields, Held(h, h.ref[d]), h.slot, TermsOf(h))
            /\ TermFields(ClientTerm[c].fields, Held(heap, p), heap.slot, TermsOf(heap))
            /\ heap.kind[p] # "free" /\ ClientTerm[c] = Node(heap.kind[p], ClientTerm[c].fields)
            /\ c \in Immutable!Full /\ Immutable!KindOf(c) = heap.kind[p]
            /\ c \in Clients(heap)
  <1> DEFINE h == u[1]
             d == u[2]
             E == ClientTerm[c].fields
             p == heap.ref[c]
  <1>1. /\ c \in Cell /\ c \in Clients(heap) /\ c \in Immutable!Full
        /\ ClientTerm[c] = TermsOf(heap)[c] /\ ClientTerm[c] = Node(heap.kind[p], E)
        /\ Immutable!KindOf(c) = heap.kind[p]
        /\ TermFields(E, Held(heap, p), heap.slot, TermsOf(heap))
    BY FieldsSeen
  <1>2. Exchanged(heap, h, c, d)
    BY <1>1, UniqTerms DEF Before
  <1>3. /\ Shape(h) /\ d \in Cell /\ h.ref[d] \in Obj
        /\ TermsOf(h)[d] \in Immutable!Copies(TermsOf(heap)[c], TRUE)
        /\ h.kind[h.ref[d]] # "free" /\ h.kind[h.ref[d]] = heap.kind[p]
    BY <1>2 DEF Exchanged, Clients, Held
  <1>4. /\ TermFields(TermsOf(h)[d].fields, Held(h, h.ref[d]), h.slot, TermsOf(h))
        /\ TermsOf(h)[d].kind = heap.kind[p]
    BY <1>3, FieldTerm
  <1> QED BY <1>1, <1>2, <1>3, <1>4

(* Cell d of h is the callable in cell c, with n of the n0 fields it has.   *)
Called(h, c, d, kind, n, n0) ==
  LET o == h.ref[d]
      t == TermsOf(h)[d]
  IN /\ o \in Obj /\ kind \notin Pairs /\ h.kind[o] = kind /\ t.kind = kind
     /\ t \in Immutable!Copies(ClientTerm[c], TRUE) /\ Partial(h, o, t.fields, n)
     /\ n \in Nat /\ n0 \in Nat /\ n <= n0 /\ Cardinality(Args(heap, heap.ref[c])) = n0
     /\ kind \notin Native => t = ClientTerm[c] /\ n = n0

LEMMA CalledFacts ==
  ASSUME Before, CloneContract, NEW c \in Client, heap.ref[c] \in Obj,
         NEW kind \in Fn \cup Native, kind = heap.kind[heap.ref[c]], ~IsEffectKind(kind),
         NEW u \in hvalue_uniq(heap, c)
  PROVE  \E n, n0 \in Nat : Called(u[1], c, u[2], kind, n, n0)
  <1> DEFINE h == u[1]
             d == u[2]
             o == h.ref[d]
             p == heap.ref[c]
             t == TermsOf(h)[d]
             E == ClientTerm[c].fields
  <1>1. /\ Exchanged(heap, h, c, d)
        /\ t \in Immutable!Copies(ClientTerm[c], TRUE) /\ t.kind = kind
        /\ TermFields(t.fields, Held(h, o), h.slot, TermsOf(h))
        /\ TermFields(E, Held(heap, p), heap.slot, TermsOf(heap))
        /\ kind # "free" /\ ClientTerm[c] = Node(kind, E)
    BY UniqFields
  <1>2. Shape(h) /\ o \in Obj /\ h.kind[o] = kind /\ PlainAt(h, o) /\ PlainAt(heap, p)
    BY <1>1 DEF Exchanged, Plain, Before
  <1>3. kind \notin Pairs
    BY KindAssumption DEF Pairs
  <1>4. p \in Obj /\ heap.kind[p] = kind
    OBVIOUS
  <1> HIDE DEF h, d, o, p, t, E
  <1>5. PICK n \in Nat : Partial(h, o, t.fields, n)
    BY <1>1, <1>2, PartialIs
  <1>6. PICK n0 \in Nat : Partial(heap, p, E, n0)
    BY <1>1, <1>2, <1>4, PartialIs DEF Before
  <1>7. ASSUME t = ClientTerm[c] PROVE n = n0
    <2>1. 1..n = 1..n0
      BY <1>5, <1>6, <1>7 DEF Partial, E
    <2> QED BY <2>1, SameInterval
  <1>8. ASSUME t = Node(kind, <<>>) PROVE n = 0
    <2>1. t.fields = <<>>
      BY <1>8 DEF Node
    <2>2. Len(t.fields) = 0
      BY <2>1
    <2> QED BY <1>5, <2>2 DEF Partial
  <1>9. t = ClientTerm[c] \/ (kind \in Native /\ t = Node(kind, <<>>))
    <2>1. ClientTerm[c].kind = kind
      BY <1>1 DEF Node
    <2> QED BY <1>1, <2>1 DEF Immutable!Copies, Immutable!Bare, Immutable!Callable,
                              Immutable!Node, Node
  <1>10. n <= n0 /\ (kind \notin Native => t = ClientTerm[c] /\ n = n0)
    BY <1>7, <1>8, <1>9
  <1>11. Cardinality(Args(heap, p)) = n0
    BY <1>6 DEF Partial
  <1>12. Called(h, c, d, kind, n, n0)
    BY <1>1, <1>2, <1>3, <1>5, <1>10, <1>11 DEF Called, o, t, p
  <1> QED BY <1>12 DEF h, d

LEMMA ClosureFacts ==
  ASSUME Before, CloneContract, ClosuresFit, NEW c \in Client, Is(c, Fn), NEW u \in hvalue_uniq(heap, c)
  PROVE  LET o == u[1].ref[u[2]]
             fn == heap.kind[heap.ref[c]]
         IN /\ fn \in Fn /\ fn \notin Native /\ ~IsEffectKind(fn)
            /\ \E n \in Nat : /\ Called(u[1], c, u[2], fn, n, n)
                              /\ ClosureArgsLeft(u[1], o) = ClosureArgc[fn] - n
                              /\ ClosureArgsLeft(heap, heap.ref[c]) = ClosureArgc[fn] - n
  <1> DEFINE h == u[1]
             o == h.ref[u[2]]
             p == heap.ref[c]
             fn == heap.kind[p]
  <1>1. p \in Obj /\ fn \in Fn /\ fn \notin Native /\ ~IsEffectKind(fn)
    BY DEF Is, ClosuresFit, IsEffectKind
  <1>2. PICK n \in Nat, n0 \in Nat : Called(h, c, u[2], fn, n, n0)
    BY <1>1, CalledFacts
  <1>3. n = n0 /\ h.kind[o] = fn /\ Cardinality(Args(heap, p)) = n /\ Cardinality(Args(h, o)) = n
    BY <1>1, <1>2 DEF Called, Partial
  <1>4. ClosureArgsLeft(h, o) = ClosureArgc[fn] - n /\ ClosureArgsLeft(heap, p) = ClosureArgc[fn] - n
    BY <1>3 DEF ClosureArgsLeft
  <1> QED BY <1>1, <1>2, <1>3, <1>4

(* The operands go into the object that hvalue_uniq returned. *)
Operanded(h, g, c, d, as, at, n, m) ==
  /\ g = Store(h, h.ref[d], at) /\ Numbers(at, as, n, m)
  /\ Shape(g) /\ Stored(h, g, h.ref[d], d, at)
  /\ DOMAIN at = Range(as) /\ Range(as) \subseteq Clients(heap) \ {c} /\ d \notin Range(as)
  /\ Clients(g) = ((Clients(heap) \ {c}) \cup {d}) \ Range(as)
  /\ \A k \in Clients(heap) \ ({c} \cup Range(as)) : TermsOf(g)[k] = TermsOf(heap)[k]

LEMMA FillTerms ==
  ASSUME Before, CloneContract, NEW c \in Client, heap.ref[c] \in Obj,
         heap.kind[heap.ref[c]] \notin Pairs, NEW u \in hvalue_uniq(heap, c),
         NEW n \in Nat, Cardinality(Args(u[1], u[1].ref[u[2]])) = n,
         NEW S, S \subseteq Client \ {c}, NEW m \in Nat, NEW as, OperandList(as, S, m)
  PROVE  Operanded(u[1], PutArgs(u[1], u[1].ref[u[2]], as), c, u[2], as, Fields(as, n + 1), n, m)
  <1> DEFINE h == u[1]
             d == u[2]
             o == h.ref[d]
             at == Fields(as, n + 1)
             g == PutArgs(h, o, as)
  <1>1. m \in Nat /\ as \in Operands(S)
    BY DEF Operands, OperandList, Distinct
  <1>2. Exchanged(heap, h, c, d) /\ c \in Clients(heap)
    BY UniqFields
  <1>3. /\ Shape(h) /\ d \in Clients(h) /\ o \in Obj /\ h.kind[o] # "free"
        /\ h.kind[o] \notin Pairs /\ OneRef(h, d)
        /\ Clients(h) = (Clients(heap) \ {c}) \cup {d}
        /\ d = c \/ d \in Unused(heap)
        /\ \A k \in Clients(heap) \ {c} : TermsOf(h)[k] = TermsOf(heap)[k]
    BY <1>2 DEF Exchanged
  <1>4. /\ d \in Cell /\ h.own[d] = "client" /\ h.own[d] \notin Obj
        /\ \A k \in Cell : h.ref[k] = o => k = d
    BY <1>3, ClientFacts DEF OneRef
  <1>5. Numbers(at, as, n, m) /\ Range(as) \subseteq S
    <2>1. as \in [1..m -> S] /\ Distinct(as)
      BY DEF OperandList
    <2>2. ASSUME NEW z \in Nat
          PROVE  /\ Numbers(Fields(as, z + 1), as, z, m) /\ Range(as) \subseteq S
                 /\ NextFields(Fields(as, z + 1), z, m)
      BY <2>1, FieldsAt
    <2> QED BY <2>2
  <1>6. Client = Clients(heap)
    BY DEF Client, Clients
  <1>7. d \notin S /\ \A k \in S : k \in Cell /\ h.own[k] = "client"
    BY <1>3, <1>6, ClientFacts DEF Clients, Held
  <1>8. g = Store(h, o, at)
    BY DEF PutArgs
  <1>9. h.ref[d] = o
    OBVIOUS
  <1> HIDE DEF h, d, o, at, g
  <1>10. Shape(g)
    <2>1. S \subseteq Cell
      BY <1>7
    <2>2. Filled(h, PutArgs(h, o, as), o, d)
      BY <1>1, <1>3, <1>4, <1>7, <1>9, <2>1, OperandsDistinct, PutArgsShape
    <2> QED BY <2>2 DEF Filled, g
  <1>11. DOMAIN at = Range(as) /\ DOMAIN at \subseteq Clients(h)
    BY <1>3, <1>5, <1>6 DEF Numbers
  <1>12. Stored(h, g, o, d, at)
    BY <1>3, <1>4, <1>8, <1>9, <1>10, <1>11, StoreKeeps
  <1>13. d \notin Range(as)
    BY <1>5, <1>7
  <1>14. Clients(g) = Clients(h) \ Range(as) /\ Keeps(h, g, {d})
    BY <1>11, <1>12 DEF Stored
  <1>15. ASSUME NEW k \in Clients(heap) \ ({c} \cup Range(as))
         PROVE  TermsOf(g)[k] = TermsOf(heap)[k]
    <2>1. k \in Cell /\ k # d
      BY <1>3, ClientFacts
    <2> QED BY <1>3, <1>14, <2>1 DEF Keeps
  <1>16. Operanded(h, g, c, d, as, at, n, m)
    BY <1>3, <1>5, <1>6, <1>8, <1>9, <1>10, <1>11, <1>12, <1>13, <1>14, <1>15 DEF Operanded
  <1> QED BY <1>16 DEF h, d, o, at, g

LEMMA FillBecomes ==
  ASSUME NEW h, NEW g, NEW c, NEW d \in Cell, NEW as, NEW at, NEW n, NEW m,
         Operanded(h, g, c, d, as, at, n, m),
         NEW t, TermsOf(g)[d] = t
  PROVE  Becomes(heap, g, {c} \cup Range(as), One(d, t))
  <1> DEFINE gone == {c} \cup Range(as)
  <1>1. Clients(g) = (Clients(heap) \ gone) \cup {d}
    BY DEF Operanded
  <1>2. \A k \in Clients(heap) \ gone : k # d => TermsOf(g)[k] = TermsOf(heap)[k]
    BY DEF Operanded
  <1> HIDE DEF gone
  <1>3. Becomes(heap, g, gone, One(d, t))
    BY <1>1, <1>2, BecomesOne
  <1> QED BY <1>3 DEF gone

(* The operands come after the fields that are already there. *)
LEMMA OperandsAppended ==
  ASSUME NEW h, NEW o, NEW n \in Nat, NEW m \in Nat, NEW E, Partial(h, o, E, n),
         NEW as, NEW at, Numbers(at, as, n, m),
         \A k \in Range(as) : TermsOf(h)[k] = TermsOf(heap)[k]
  PROVE  LET F == E \o SeqTerms(heap, as, m)
         IN /\ Appended(h, o, at, E, F) /\ DOMAIN F = 1..n + m
            /\ \A i \in 1..n : F[i] = E[i]
            /\ \A i \in 1..m : F[n + i] = TermsOf(heap)[as[i]]
  <1> DEFINE G == SeqTerms(heap, as, m)
             F == E \o G
  <1>1. IsMap(E) /\ DOMAIN E = 1..n
    BY DEF Partial
  <1>2. IsMap(G) /\ DOMAIN G = 1..m /\ \A i \in 1..m : G[i] = TermsOf(heap)[as[i]]
    BY DEF SeqTerms, IsMap
  <1>3. /\ DOMAIN at = Range(as)
        /\ \A i \in 1..m : as[i] \in Range(as) /\ at[as[i]] = n + i
        /\ \A k \in Range(as) : \E i \in 1..m : k = as[i]
    BY DEF Numbers
  <1> HIDE DEF G
  <1>4. /\ IsMap(F) /\ DOMAIN F = 1..n + m
        /\ \A i \in 1..n : F[i] = E[i]
        /\ \A i \in 1..m : F[n + i] = G[i]
    BY <1>1, <1>2, Concatenated
  <1> HIDE DEF F
  <1>5. \A i \in DOMAIN E : i \in DOMAIN F /\ F[i] = E[i]
    BY <1>1, <1>4
  <1>6. ASSUME NEW k \in DOMAIN at
        PROVE  at[k] \in DOMAIN F /\ F[at[k]] = TermsOf(h)[k]
    <2>1. PICK i \in 1..m : k = as[i]
      BY <1>3
    <2>2. at[k] = n + i
      BY <1>3, <2>1
    <2>3. n + i \in 1..n + m
      OBVIOUS
    <2>4. F[n + i] = TermsOf(heap)[k]
      BY <1>2, <1>4, <2>1
    <2>5. TermsOf(h)[k] = TermsOf(heap)[k]
      BY <1>3
    <2> QED BY <1>4, <2>2, <2>3, <2>4, <2>5
  <1>7. ASSUME NEW i \in DOMAIN F, i \notin DOMAIN E
        PROVE  \E k \in DOMAIN at : at[k] = i
    <2>1. i \in Int /\ i - n \in 1..m /\ n + (i - n) = i
      BY <1>1, <1>4, <1>7
    <2>2. as[i - n] \in DOMAIN at /\ at[as[i - n]] = n + (i - n)
      BY <1>3, <2>1
    <2> QED BY <2>1, <2>2
  <1>8. Appended(h, o, at, E, F)
    BY <1>4, <1>5, <1>6, <1>7 DEF Appended
  <1>9. \A i \in 1..m : F[n + i] = TermsOf(heap)[as[i]]
    BY <1>2, <1>4
  <1> QED BY <1>4, <1>8, <1>9 DEF F, G

WithOperands(E, as, m) == E \o SeqTerms(heap, as, m)

LEMMA FilledTerm ==
  ASSUME NEW h, NEW g, NEW c, NEW d, NEW as, NEW at, NEW n \in Nat, NEW m \in Nat, NEW E,
         Operanded(h, g, c, d, as, at, n, m), Exchanged(heap, h, c, d), Partial(h, h.ref[d], E, n)
  PROVE  StandsFor(g, d, Node(h.kind[h.ref[d]], WithOperands(E, as, m)))
  <1> DEFINE F == WithOperands(E, as, m)
  <1>0. PICK o : o = h.ref[d]
    OBVIOUS
  <1>1. Shape(h) /\ d \in Cell /\ o \in Obj /\ h.ref[d] = o
    BY <1>0 DEF Exchanged, Clients, Held
  <1>2. Shape(g) /\ Stored(h, g, o, d, at)
    BY <1>0 DEF Operanded
  <1>3. /\ Numbers(at, as, n, m)
        /\ \A k \in Range(as) : TermsOf(h)[k] = TermsOf(heap)[k]
    BY DEF Operanded, Exchanged
  <1>4. Appended(h, o, at, E, F)
    BY <1>0, <1>3, OperandsAppended DEF WithOperands
  <1>5. TermFields(E, Held(h, o), h.slot, TermsOf(h))
    BY <1>0 DEF Partial
  <1> HIDE DEF F
  <1>6. TermsOf(g)[d] = Node(h.kind[o], F)
    BY <1>1, <1>2, <1>4, <1>5, StoreTerms
  <1> QED BY <1>0, <1>6 DEF F, StandsFor

(* After that, d stands for the application to the operands too. *)
Applied(h, g, c, d, o, n, E, as, m) ==
  LET t == Node(h.kind[o], WithOperands(E, as, m))
  IN /\ Operanded(h, g, c, d, as, Fields(as, n + 1), n, m)
     /\ TermsOf(g)[d] = t /\ Becomes(heap, g, {c} \cup Range(as), One(d, t))

LEMMA ApplyTerms ==
  ASSUME Before, CloneContract, NEW c \in Client, heap.ref[c] \in Obj,
         heap.kind[heap.ref[c]] \notin Pairs, NEW u \in hvalue_uniq(heap, c),
         NEW E, NEW n \in Nat, Partial(u[1], u[1].ref[u[2]], E, n),
         NEW m \in Nat, NEW as, OperandList(as, Client \ {c}, m)
  PROVE  Applied(u[1], PutArgs(u[1], u[1].ref[u[2]], as), c, u[2], u[1].ref[u[2]], n, E, as, m)
  <1> DEFINE h == u[1]
             d == u[2]
             o == h.ref[d]
             g == PutArgs(h, o, as)
             at == Fields(as, n + 1)
             t == Node(h.kind[o], WithOperands(E, as, m))
  <1>1. Exchanged(heap, h, c, d)
    BY UniqFields
  <1>2. Operanded(h, g, c, d, as, at, n, m)
    <2>1. Cardinality(Args(h, o)) = n
      BY DEF Partial
    <2> QED BY <2>1, FillTerms
  <1>3. h.ref[d] = o /\ Partial(h, o, E, n)
    OBVIOUS
  <1> HIDE DEF h, d, o, g
  <1>4. TermsOf(g)[d] = t
    <2>1. Partial(h, h.ref[d], E, n)
      BY <1>3
    <2>2. StandsFor(g, d, Node(h.kind[h.ref[d]], WithOperands(E, as, m)))
      <3> HIDE DEF at
      <3> QED BY <1>1, <1>2, <2>1, FilledTerm
    <2> QED BY <1>3, <2>2 DEF StandsFor
  <1>5. d \in Cell
    BY <1>1 DEF Exchanged, Clients, Held
  <1>6. Becomes(heap, g, {c} \cup Range(as), One(d, t))
    <2> HIDE DEF at, t
    <2> QED BY <1>2, <1>4, <1>5, FillBecomes
  <1> QED BY <1>2, <1>4, <1>6 DEF Applied, h, d, o, g

(* The callable holds its fields and the operands: d stands for term t      *)
(* applied to them.                                                         *)
Loaded(g, c, d, o, t, as, n) ==
  LET F == t.fields \o Immutable!TermsOf(as)
  IN /\ Shape(g) /\ Plain(g) /\ Partial(g, o, F, n) /\ g.kind[o] = t.kind
     /\ Becomes(heap, g, {c} \cup Range(as), One(d, Node(t.kind, F)))

LEMMA CallLoads ==
  ASSUME Before, CloneContract, NEW c \in Client, heap.ref[c] \in Obj,
         NEW kind, kind = heap.kind[heap.ref[c]], ~IsEffectKind(kind), NEW u \in hvalue_uniq(heap, c),
         NEW n \in Nat, NEW n0 \in Nat, Called(u[1], c, u[2], kind, n, n0),
         NEW m \in Nat, NEW as, OperandList(as, Client \ {c}, m)
  PROVE  /\ Loaded(PutArgs(u[1], u[1].ref[u[2]], as), c, u[2], u[1].ref[u[2]],
                   TermsOf(u[1])[u[2]], as, n + m)
         /\ Operanded(u[1], PutArgs(u[1], u[1].ref[u[2]], as), c, u[2], as, Fields(as, n + 1), n, m)
  <1> DEFINE h == u[1]
             d == u[2]
             o == h.ref[d]
             t == TermsOf(h)[d]
             E == t.fields
             g == PutArgs(h, o, as)
             at == Fields(as, n + 1)
             F == E \o SeqTerms(heap, as, m)
  <1>1. /\ o \in Obj /\ kind \notin Pairs /\ h.kind[o] = kind /\ t.kind = kind
        /\ Partial(h, o, E, n)
    BY DEF Called
  <1>2. Exchanged(heap, h, c, d)
    BY UniqFields
  <1>3. Applied(h, g, c, d, o, n, E, as, m)
    BY <1>1, ApplyTerms
  <1>4. h.ref[d] = o
    OBVIOUS
  <1> HIDE DEF h, d, o, t, E, g, at
  <1>5. /\ Operanded(h, g, c, d, as, at, n, m)
        /\ TermsOf(g)[d] = Node(kind, F)
        /\ Becomes(heap, g, {c} \cup Range(as), One(d, Node(kind, F)))
    BY <1>1, <1>3 DEF Applied, WithOperands, at
  <1>6. /\ Shape(g) /\ Stored(h, g, o, d, at) /\ Numbers(at, as, n, m)
        /\ Range(as) \subseteq Clients(heap) \ {c}
    BY <1>4, <1>5 DEF Operanded
  <1>7. /\ Plain(h) /\ d \in Cell
        /\ \A k \in Clients(heap) \ {c} : TermsOf(h)[k] = TermsOf(heap)[k]
    BY <1>2 DEF Exchanged, Clients, Held
  <1>8. Plain(g)
    BY <1>1, <1>6, <1>7, StorePlain
  <1>9. DOMAIN F = 1..n + m
    <2> DEFINE G == SeqTerms(heap, as, m)
    <2>1. IsMap(G) /\ DOMAIN G = 1..m
      BY DEF SeqTerms, IsMap
    <2> HIDE DEF G
    <2>2. IsMap(E) /\ DOMAIN E = 1..n
      BY <1>1 DEF Partial
    <2>3. DOMAIN (E \o G) = 1..n + m
      BY <2>1, <2>2, Concatenated
    <2> QED BY <2>3 DEF G
  <1> HIDE DEF F
  <1>10. g.ref[d] = o /\ g.kind[o] = kind /\ kind # "free"
    BY <1>1, <1>2, <1>4, <1>6 DEF Stored, Exchanged
  <1>11. TermFields(F, Held(g, o), g.slot, TermsOf(g))
    <2>1. TermsOf(g)[d].fields = F
      BY <1>5 DEF Node
    <2>2. TermFields(TermsOf(g)[d].fields, Held(g, o), g.slot, TermsOf(g))
      BY <1>1, <1>6, <1>7, <1>10, FieldTerm
    <2> QED BY <2>1, <2>2
  <1>12. Partial(g, o, F, n + m)
    <2>1. PlainAt(g, o)
      BY <1>1, <1>8 DEF Plain
    <2>2. PICK k \in Nat : Partial(g, o, F, k)
      BY <1>1, <1>6, <1>10, <1>11, <2>1, PartialIs
    <2>3. 1..k = 1..n + m /\ n + m \in Nat
      BY <1>9, <2>2 DEF Partial
    <2>4. k = n + m
      BY <2>3, SameInterval
    <2> QED BY <2>2, <2>4
  <1>13. F = E \o Immutable!TermsOf(as)
    <2>1. \A i \in 1..m : as[i] \in Clients(heap)
      BY <1>6 DEF OperandList, Range
    <2>2. \A i \in 1..m : ClientTerm[as[i]] = TermsOf(heap)[as[i]]
      BY <2>1, FullIs DEF Before
    <2>3. Immutable!TermsOf(as) = SeqTerms(heap, as, m)
      BY <2>2 DEF OperandList, SeqTerms
    <2> QED BY <2>3 DEF F
  <1>14. Loaded(g, c, d, o, t, as, n + m)
    BY <1>1, <1>5, <1>6, <1>8, <1>10, <1>12, <1>13 DEF Loaded, E
  <1> QED BY <1>5, <1>14 DEF h, d, o, t, g, at

LEMMA PartialCallTerms ==
  ASSUME Before, CloneContract, NEW c \in Client, heap.ref[c] \in Obj,
         NEW kind \in Fn \cup Immutable!Callable, kind = heap.kind[heap.ref[c]], ~IsEffectKind(kind),
         NEW u \in hvalue_uniq(heap, c),
         NEW n \in Nat, NEW n0 \in Nat, Called(u[1], c, u[2], kind, n, n0),
         NEW m \in Nat, NEW as, OperandList(as, Client \ {c}, m),
         n + m < Immutable!Argc(kind),
         heap' = PutArgs(u[1], u[1].ref[u[2]], as)
  PROVE  After
  <1> DEFINE d == u[2]
             o == u[1].ref[d]
             t == TermsOf(u[1])[d]
             F == t.fields \o Immutable!TermsOf(as)
  <1>1. Loaded(heap', c, d, o, t, as, n + m)
    BY CallLoads
  <1>2. /\ Exchanged(heap, u[1], c, d) /\ c \in Immutable!Full
    BY UniqFields
  <1>3. t.kind = kind /\ t \in Immutable!Copies(ClientTerm[c], TRUE) /\ Len(t.fields) = n
    BY DEF Called, Partial
  <1>4. d = c \/ d \in Unused(heap)
    BY <1>2 DEF Exchanged
  <1> HIDE DEF d, o, t
  <1>5. Plain(heap') /\ Becomes(heap, heap', {c} \cup Range(as), One(d, Node(kind, F)))
    BY <1>1, <1>3 DEF Loaded
  <1> HIDE DEF F
  <1>6. Immutable!Update({c} \cup Range(as), One(d, Node(kind, F)))
    BY <1>5, UpdateIs
  <1>7. Immutable!PartialCall(c, t, as, d)
    <2>1. Immutable!Range(as) = Range(as)
      BY DEF Immutable!Range, Range
    <2>2. Immutable!At(d, Immutable!Node(kind, F)) = One(d, Node(kind, F))
      BY DEF Immutable!At, One, Immutable!Node, Node
    <2>3. Len(as) = m
      BY DEF OperandList
    <2> QED BY <1>3, <1>6, <2>1, <2>2, <2>3 DEF Immutable!PartialCall, F
  <1>8. d \in Immutable!Empty \cup {c} /\ Immutable!Full \ {c} = Client \ {c}
    BY <1>4, FullIs DEF Before, Unused, Client, Clients, Held
  <1>9. Immutable!Next(TRUE)
    BY <1>2, <1>3, <1>7, <1>8 DEF Immutable!Next, OperandList
  <1> QED BY <1>5, <1>9 DEF After

(* The arguments of a saturated closure become cells of the client. *)
LEMMA TakeArgsTerms ==
  ASSUME NEW h, Shape(h), Plain(h), NEW d \in Clients(h), NEW o \in Obj, h.ref[d] = o,
         OneRef(h, d), h.kind[o] \notin Pairs, Args(h, o) = Held(h, o),
         NEW g, g = TakeArgs(h, o)
  PROVE  /\ Shape(g) /\ Plain(g) /\ g.ref = h.ref /\ Keeps(h, g, {d})
         /\ Clients(g) = Clients(h) \cup Held(h, o)
  <1>1. /\ Shape(g) /\ g.ref = h.ref
        /\ \A p \in Obj : p # o => Untouched(h, g, p)
    BY TakeArgsShape
  <1>2. \A k \in Cell : g.own[k] = IF k \in Held(h, o) THEN "client" ELSE h.own[k]
    BY DEF TakeArgs, Shape, Good, Heap
  <1>3. d \in Cell /\ h.own[d] = "client" /\ "client" \notin Obj /\ "lost" \notin Obj
    BY HolderAssumption DEF Clients, Held, Holder
  <1>4. \A k \in Cell : h.ref[k] = o => k = d
    BY DEF OneRef
  <1>5. Clients(g) = Clients(h) \cup Held(h, o)
    BY <1>2 DEF Clients, Held
  <1>6. Keeps(h, g, {d})
    <2>1. \A k \in Cell : h.own[k] \in Obj /\ h.own[k] # o => h.ref[k] # o
      BY <1>3, <1>4
    <2>2. \A j, k \in Cell : g.ref[j] = h.ref[k] /\ h.ref[k] # o => TermsOf(g)[j] = TermsOf(h)[k]
      BY <1>1, <2>1, KeepsOthers
    <2> QED BY <1>1, <1>4, <2>2 DEF Keeps
  <1>7. Plain(g)
    <2>1. Held(g, o) = {}
      BY <1>2, <1>3, HolderAssumption DEF Held, Holder
    <2>2. PlainAt(g, o)
      BY <2>1 DEF PlainAt
    <2> QED BY <1>1, <2>2, PlainFrom
  <1> QED BY <1>1, <1>5, <1>6, <1>7

(* The fields of a closure, in order. *)
FieldCells(h, o, n) == [i \in 1..n |-> ArgAt(h, o, i)]

LEMMA FieldCellsAre ==
  ASSUME NEW h, NEW o, NEW n \in Nat, Numbered(h, o, n), Args(h, o) = Held(h, o)
  PROVE  LET as == FieldCells(h, o, n)
         IN /\ DOMAIN as = 1..n /\ Distinct(as)
            /\ \A i \in 1..n : as[i] \in Held(h, o) /\ h.slot[as[i]] = i
            /\ \A k \in Held(h, o) : h.slot[k] \in 1..n /\ as[h.slot[k]] = k
            /\ Range(as) = Held(h, o)
  <1> DEFINE as == FieldCells(h, o, n)
  <1>1. DOMAIN as = 1..n /\ \A i \in 1..n : as[i] = ArgAt(h, o, i)
    BY DEF FieldCells
  <1>2. ASSUME NEW i \in 1..n PROVE as[i] \in Held(h, o) /\ h.slot[as[i]] = i
    <2>1. i \in {h.slot[k] : k \in Held(h, o)}
      BY DEF Numbered
    <2> QED BY <1>1, <2>1, FieldFacts
  <1>3. ASSUME NEW k \in Held(h, o) PROVE h.slot[k] \in 1..n /\ as[h.slot[k]] = k
    <2>1. h.slot[k] \in 1..n
      BY DEF Numbered
    <2>2. as[h.slot[k]] \in Held(h, o) /\ h.slot[as[h.slot[k]]] = h.slot[k]
      BY <1>2, <2>1
    <2> QED BY <2>1, <2>2 DEF Numbered
  <1> HIDE DEF as
  <1>4. Distinct(as)
    <2>1. ASSUME NEW i \in 1..n, NEW j \in 1..n, as[i] = as[j] PROVE i = j
      <3>1. h.slot[as[i]] = i /\ h.slot[as[j]] = j
        BY <1>2
      <3> QED BY <2>1, <3>1, Zenon
    <2> QED BY <1>1, <2>1 DEF Distinct
  <1>5. Range(as) = Held(h, o)
    BY <1>1, <1>2, <1>3 DEF Range
  <1> QED BY <1>1, <1>2, <1>3, <1>4, <1>5 DEF as

(* The call gives its arguments, in cells as, to the frame. *)
Entered(h, g, c, E, as, n) ==
  /\ as \in [1..n -> Cell \ Clients(h)] /\ Distinct(as) /\ Plain(g)
  /\ Becomes(h, g, {c}, [k \in Range(as) |-> E[CHOOSE i \in DOMAIN as : as[i] = k]])

LEMMA EnterTerms ==
  ASSUME Before, CloneContract, NEW c \in Client, heap.ref[c] \in Obj,
         heap.kind[heap.ref[c]] \notin Pairs, NEW u \in hvalue_uniq(heap, c),
         NEW E, NEW n \in Nat, Partial(u[1], u[1].ref[u[2]], E, n)
  PROVE  Entered(heap, hvalue_drop(TakeArgs(u[1], u[1].ref[u[2]]), u[2]), c, E,
                 FieldCells(u[1], u[1].ref[u[2]], n), n)
  <1> DEFINE h == u[1]
             d == u[2]
             o == h.ref[d]
             as == FieldCells(h, o, n)
             t == TakeArgs(h, o)
             g == hvalue_drop(t, d)
             new == [k \in Range(as) |-> E[CHOOSE i \in DOMAIN as : as[i] = k]]
  <1>1. Exchanged(heap, h, c, d) /\ c \in Clients(heap)
    BY UniqFields
  <1>2. /\ Shape(h) /\ Plain(h) /\ d \in Clients(h) /\ o \in Obj /\ OneRef(h, d)
        /\ h.kind[o] \notin Pairs /\ d \in Cell
        /\ d = c \/ d \in Unused(heap)
        /\ Clients(h) = (Clients(heap) \ {c}) \cup {d}
        /\ \A k \in Clients(heap) \ {c} : TermsOf(h)[k] = TermsOf(heap)[k]
        /\ Held(h, o) \cap Clients(heap) = {}
    BY <1>1 DEF Exchanged, Clients, Held
  <1>3. /\ TermFields(E, Held(h, o), h.slot, TermsOf(h))
        /\ Numbered(h, o, n) /\ Args(h, o) = Held(h, o)
    BY DEF Partial
  <1>4. as = [i \in 1..n |-> as[i]]
    BY DEF FieldCells
  <1>5. h.ref[d] = o /\ d \notin Held(h, o)
    BY <1>2, HolderAssumption DEF Clients, Held, Holder
  <1> HIDE DEF h, d, o, as, t, g, new
  <1>6. /\ DOMAIN as = 1..n /\ Distinct(as)
        /\ \A i \in 1..n : as[i] \in Held(h, o) /\ h.slot[as[i]] = i
        /\ \A k \in Held(h, o) : h.slot[k] \in 1..n /\ as[h.slot[k]] = k
        /\ Range(as) = Held(h, o)
    BY <1>3, FieldCellsAre DEF as
  <1>7. /\ Shape(t) /\ Plain(t) /\ t.ref = h.ref /\ Keeps(h, t, {d})
        /\ Clients(t) = Clients(h) \cup Held(h, o)
    <2>1. t = TakeArgs(h, o)
      BY DEF t
    <2>2. Args(h, o) = Held(h, o)
      BY <1>3
    <2>3. /\ Shape(h) /\ Plain(h) /\ d \in Clients(h) /\ o \in Obj /\ h.ref[d] = o
          /\ OneRef(h, d) /\ h.kind[o] \notin Pairs
      BY <1>2, <1>5
    <2> QED BY <2>1, <2>2, <2>3, TakeArgsTerms
  <1>8. t.own[d] \notin Obj /\ d \in Clients(t)
    BY <1>2, <1>7, ClientFacts
  <1>9. Clients(g) = Clients(t) \ {d} /\ Keeps(t, g, {d})
    BY <1>2, <1>7, <1>8, DropTerms DEF g
  <1>10. Plain(g)
    BY <1>2, <1>7, <1>8, DropPlain DEF g
  <1>11. as \in [1..n -> Cell \ Clients(heap)]
    <2>1. \A i \in 1..n : as[i] \in Cell \ Clients(heap)
      BY <1>2, <1>6 DEF Held
    <2> QED BY <1>4, <2>1
  <1>12. DOMAIN new = Held(h, o) /\ \A k \in Held(h, o) : new[k] = TermsOf(h)[k]
    <2>1. ASSUME NEW k \in Held(h, o) PROVE new[k] = TermsOf(h)[k]
      <3>1. k \in Range(as) /\ h.slot[k] \in DOMAIN as /\ as[h.slot[k]] = k
        BY <1>6
      <3>2. (CHOOSE i \in DOMAIN as : as[i] = k) = h.slot[k]
        BY <1>6, <3>1
      <3>3. E[h.slot[k]] = TermsOf(h)[k]
        BY <1>3 DEF TermFields
      <3> QED BY <3>1, <3>2, <3>3 DEF new
    <2> QED BY <1>6, <2>1 DEF new
  <1>13. Becomes(heap, g, {c}, new)
    <2>1. DOMAIN new \subseteq Cell
      BY <1>12 DEF Held
    <2>2. Clients(g) = (Clients(heap) \ {c}) \cup DOMAIN new
      BY <1>2, <1>5, <1>7, <1>9, <1>12 DEF Unused, Clients, Held
    <2>3. ASSUME NEW k \in Cell, k # d PROVE TermsOf(g)[k] = TermsOf(h)[k]
      BY <1>7, <1>9, <2>3 DEF Keeps
    <2>4. \A k \in DOMAIN new : TermsOf(g)[k] = new[k]
      BY <1>5, <1>12, <2>1, <2>3
    <2>5. ASSUME NEW k \in Clients(heap) \ {c} PROVE TermsOf(g)[k] = TermsOf(heap)[k]
      <3>1. k \in Cell /\ k # d
        BY <1>2, ClientFacts
      <3> QED BY <1>2, <2>3, <3>1
    <2> QED BY <2>1, <2>2, <2>4, <2>5 DEF Becomes
  <1>14. Entered(heap, g, c, E, as, n)
    BY <1>6, <1>10, <1>11, <1>13 DEF Entered, new
  <1> QED BY <1>14 DEF h, d, o, as, t, g

LEMMA EmptyOrOperands ==
  ASSUME NEW S, NEW n \in Nat, n <= MaxFields, NEW as \in [1..n -> S], Distinct(as)
  PROVE  as \in {<<>>} \cup Immutable!Operands(S) /\ Len(as) = n
  <1>1. DOMAIN as = 1..n /\ Len(as) = n
    OBVIOUS
  <1>2. CASE n = 0
    <2>1. as = <<>>
      BY <1>1, <1>2
    <2> QED BY <1>1, <2>1
  <1>3. CASE n # 0
    <2>1. n \in 1..MaxFields
      BY <1>3, MaxFieldsAssumption
    <2>2. as \in Immutable!Operands(S)
      BY <2>1, OperandsAre
    <2> QED BY <1>1, <2>2
  <1> QED BY <1>2, <1>3

LEMMA EnterIs ==
  ASSUME Before, NEW c \in Client, c \in Immutable!Full, Immutable!KindOf(c) \in Fn,
         NEW n \in Nat, n <= MaxFields, Len(ClientTerm[c].fields) = n,
         NEW xs, Entered(heap, heap', c, ClientTerm[c].fields, xs, n),
         NEW m \in Nat, NEW as, OperandList(as, Client \ {c}, m),
         n + m = Immutable!Argc(Immutable!KindOf(c))
  PROVE  After
  <1> DEFINE new == [k \in Range(xs) |-> ClientTerm[c].fields[CHOOSE i \in DOMAIN xs : xs[i] = k]]
  <1>1. /\ Immutable!Full = Clients(heap) /\ Immutable!Empty = Cell \ Clients(heap)
        /\ Client = Clients(heap)
    BY FullIs DEF Before, Client, Clients
  <1>2. /\ xs \in [1..n -> Immutable!Empty] /\ Distinct(xs) /\ Plain(heap')
        /\ Becomes(heap, heap', {c}, new)
    BY <1>1 DEF Entered
  <1>3. xs \in {<<>>} \cup Immutable!Operands(Immutable!Empty) /\ Len(xs) = n
    BY <1>2, EmptyOrOperands
  <1>4. as \in Immutable!Operands(Immutable!Full \ {c}) /\ Len(as) = m
    BY <1>1 DEF OperandList
  <1>5. Immutable!Range(xs) = Range(xs)
    BY DEF Immutable!Range, Range
  <1>6. Immutable!Update({c}, new)
    <2> HIDE DEF new
    <2> QED BY <1>2, UpdateIs
  <1>7. Immutable!EnterClosure(c)
    BY <1>3, <1>4, <1>5, <1>6 DEF Immutable!EnterClosure
  <1>8. Immutable!Next(TRUE)
    BY <1>7 DEF Immutable!Next
  <1> QED BY <1>2, <1>8 DEF After

LEMMA CallClosureTerms ==
  ASSUME Before, CloneContract, ClosuresFit, NEW c \in Client,
         NEW as \in Operands(Client \ {c}), CallClosure(c, as)
  PROVE  After
  <1>1. Is(c, Fn) /\ heap.ref[c] \in Obj
    BY DEF CallClosure, Is
  <1>2. Len(as) <= ClosureArgsLeft(heap, heap.ref[c])
    BY DEF CallClosure
  <1>3. PICK u \in hvalue_uniq(heap, c) :
          LET h == u[1]
              o == h.ref[u[2]]
          IN heap' = IF Len(as) < ClosureArgsLeft(h, o)
                     THEN PutArgs(h, o, as)
                     ELSE hvalue_drop(TakeArgs(h, o), u[2])
    BY DEF CallClosure
  <1> DEFINE h == u[1]
             d == u[2]
             o == h.ref[d]
             fn == heap.kind[heap.ref[c]]
             E == ClientTerm[c].fields
  <1>4. fn \in Fn /\ fn \notin Native /\ ~IsEffectKind(fn)
    BY <1>1, ClosureFacts
  <1>5. PICK n \in Nat : /\ Called(h, c, d, fn, n, n)
                         /\ ClosureArgsLeft(h, o) = ClosureArgc[fn] - n
                         /\ ClosureArgsLeft(heap, heap.ref[c]) = ClosureArgc[fn] - n
    BY <1>1, ClosureFacts
  <1>6. PICK m \in Nat : OperandList(as, Client \ {c}, m)
    BY OperandsHave
  <1>7. ClosureArgc[fn] \in Nat /\ ClosureArgc[fn] <= MaxFields /\ Immutable!Argc(fn) = ClosureArgc[fn]
    BY <1>4, MaxFieldsAssumption DEF ClosuresFit, Immutable!Argc
  <1>8. fn \notin Pairs /\ Partial(h, o, E, n) /\ Len(as) = m
    BY <1>4, <1>5, <1>6 DEF Called, OperandList
  <1>9. CASE Len(as) < ClosureArgsLeft(h, o)
    <2>1. heap' = PutArgs(h, o, as)
      BY <1>3, <1>9
    <2>2. m < ClosureArgc[fn] - n
      BY <1>5, <1>8, <1>9
    <2>3. n + m < Immutable!Argc(fn)
      <3> HIDE DEF fn
      <3> QED BY <1>7, <2>2
    <2>4. fn \in Fn \cup Immutable!Callable
      BY <1>4
    <2> QED BY <1>1, <1>4, <1>5, <1>6, <2>1, <2>3, <2>4, PartialCallTerms
  <1>10. CASE ~(Len(as) < ClosureArgsLeft(h, o))
    <2>1. n + m = ClosureArgc[fn] /\ n <= MaxFields
      <3>1. m <= ClosureArgc[fn] - n /\ ~(m < ClosureArgc[fn] - n)
        BY <1>2, <1>5, <1>8, <1>10
      <3> HIDE DEF fn
      <3> QED BY <1>7, <3>1, MaxFieldsAssumption
    <2>2. c \in Immutable!Full /\ Immutable!KindOf(c) = fn
      BY <1>1, UniqFields
    <2>3. Len(E) = n
      BY <1>8 DEF Partial
    <2>4. Entered(heap, hvalue_drop(TakeArgs(h, o), d), c, E, FieldCells(h, o, n), n)
      BY <1>1, <1>8, EnterTerms
    <2>5. heap' = hvalue_drop(TakeArgs(h, o), d)
      BY <1>3, <1>10
    <2>6. Entered(heap, heap', c, E, FieldCells(h, o, n), n)
      BY <2>4, <2>5
    <2> HIDE DEF h, o, d, fn
    <2> QED BY <1>4, <1>6, <1>7, <2>1, <2>2, <2>3, <2>6, EnterIs
  <1> QED BY <1>9, <1>10

(* An effect is not called: it takes no argument.  A native that makes      *)
(* another makes an effect, and none has the name of another result.        *)
NativesCalled ==
  /\ {"arg", "scalar", "fails"} \cap Native = {}
  /\ \A m \in Native :
       LET meta == NativeMeta[m]
       IN /\ meta.argc \in Nat
          /\ meta.effect => meta.argc = 0
          /\ meta.call \in Native => NativeMeta[meta.call].effect

(* Object o of h is a native with all its arguments, of which x is the      *)
(* first and stands for v, and the cells of S came last, in the call; d is  *)
(* the one reference to it.                                                 *)
Ready(h, c, d, o, x, v, S) ==
  /\ Shape(h) /\ Plain(h) /\ d \in Clients(h) /\ h.ref[d] = o /\ OneRef(h, d)
  /\ {k \in Held(h, o) : h.slot[k] = 1} = {x} /\ TermsOf(h)[x] = v
  /\ o \in Obj /\ h.kind[o] # "free" /\ S \subseteq Held(h, o)
  /\ d = c \/ d \in Unused(heap)
  /\ Clients(h) = ((Clients(heap) \ {c}) \cup {d}) \ S
  /\ \A k \in Clients(heap) \ ({c} \cup S) : TermsOf(h)[k] = TermsOf(heap)[k]

(* The result r is made, and stands for t. *)
Made(h, g, d, o, r, t) ==
  /\ Shape(g) /\ Plain(g) /\ r \in Unused(h)
  /\ Clients(g) = Clients(h) \cup {r} /\ TermsOf(g)[r] = t
  /\ \A k \in Clients(h) : TermsOf(g)[k] = TermsOf(h)[k]
  /\ \A k \in Cell : k # d => g.ref[k] # o

LEMMA AnswerTerms ==
  ASSUME NEW h, NEW c, NEW d, NEW o, NEW x, NEW v, NEW S, Ready(h, c, d, o, x, v, S),
         NEW g, NEW r, NEW t, Made(h, g, d, o, r, t),
         heap' = hvalue_drop(g, d) \/ heap' = [g EXCEPT !.own[d] = "lost"]
  PROVE  /\ Plain(heap') /\ Becomes(heap, heap', {c} \cup S, One(r, t))
         /\ r \in Cell /\ (r = c \/ r \notin Clients(heap))
  <1>1. /\ d \in Clients(h) /\ o \in Obj /\ \A k \in S : k \in Cell /\ h.own[k] = o
        /\ d = c \/ d \in Unused(heap)
        /\ Clients(h) = ((Clients(heap) \ {c}) \cup {d}) \ S
        /\ \A k \in Clients(heap) \ ({c} \cup S) : TermsOf(h)[k] = TermsOf(heap)[k]
    BY DEF Ready, Held
  <1>2. /\ Shape(g) /\ Plain(g) /\ r \in Unused(h)
        /\ Clients(g) = Clients(h) \cup {r} /\ TermsOf(g)[r] = t
        /\ \A k \in Clients(h) : TermsOf(g)[k] = TermsOf(h)[k]
        /\ \A k \in Cell : k # d => g.ref[k] # o
    BY DEF Made
  <1>3. /\ d \in Cell /\ g.own[d] = "client" /\ g.own[d] \notin Obj
        /\ r \in Cell /\ r \notin Clients(h) /\ r # d /\ r \notin S
    BY <1>1, <1>2, HolderAssumption DEF Clients, Unused, Held, Holder
  <1>5. /\ Plain(heap') /\ Clients(heap') = Clients(g) \ {d}
        /\ \A k \in Cell : k # d => TermsOf(heap')[k] = TermsOf(g)[k]
    <2>1. CASE heap' = hvalue_drop(g, d)
      <3>1. Clients(heap') = Clients(g) \ {d} /\ Keeps(g, heap', {d})
        BY <1>2, <1>3, <2>1, DropTerms
      <3>2. Plain(heap')
        BY <1>2, <1>3, <2>1, DropPlain
      <3> QED BY <3>1, <3>2 DEF Keeps
    <2>2. CASE heap' = [g EXCEPT !.own[d] = "lost"]
      <3>1. Clients(heap') = Clients(g) \ {d} /\ Keeps(g, heap', {})
        BY <1>2, <1>3, <2>2, MoveTerms
      <3>2. Plain(heap')
        BY <1>2, <1>3, <2>2, MovePlain
      <3> QED BY <3>1, <3>2 DEF Keeps
    <2> QED BY <2>1, <2>2
  <1>6. r = c \/ r \notin Clients(heap)
    BY <1>1, <1>3
  <1>7. Clients(heap') = (Clients(heap) \ ({c} \cup S)) \cup {r}
    BY <1>1, <1>2, <1>3, <1>5, ClientFacts
  <1>8. ASSUME NEW k \in Clients(heap) \ ({c} \cup S), k # r
        PROVE  TermsOf(heap')[k] = TermsOf(heap)[k]
    <2>1. k \in Cell /\ k # d /\ k \in Clients(h)
      BY <1>1, ClientFacts
    <2> QED BY <1>1, <1>2, <1>5, <2>1
  <1>9. TermsOf(heap')[r] = t
    BY <1>2, <1>3, <1>5
  <1>10. Becomes(heap, heap', {c} \cup S, One(r, t))
    BY <1>3, <1>7, <1>8, <1>9, BecomesOne
  <1> QED BY <1>3, <1>5, <1>6, <1>10

(* What a native makes before it drops the callable. *)
Callee(h, d, o, x, v) ==
  /\ Shape(h) /\ Plain(h) /\ x \in Cell /\ h.own[x] = o
  /\ o \in Obj /\ h.kind[o] # "free" /\ x # d /\ TermsOf(h)[x] = v
  /\ \A k \in Cell : k # d => h.ref[k] # o
  /\ \A k \in Clients(h) : k \in Cell /\ h.own[k] = "client" /\ k \notin Unused(h)

LEMMA ReadyRefs ==
  ASSUME NEW h, NEW c, NEW d, NEW o, NEW x, NEW v, NEW S, Ready(h, c, d, o, x, v, S)
  PROVE  Callee(h, d, o, x, v) /\ x \in Held(h, o)
  <1>0. x \in Held(h, o) /\ x \in Cell /\ h.own[x] = o
    BY DEF Ready, Held
  <1>1. x # d
    BY <1>0, HolderAssumption DEF Ready, Clients, Held, Holder
  <1>3. \A k \in Cell : k # d => h.ref[k] # o
    BY DEF Ready, OneRef
  <1> QED BY <1>0, <1>1, <1>3, ClientFacts DEF Ready, Callee

LEMMA RefMade ==
  ASSUME NEW h, NEW c, NEW d, NEW o, NEW x, NEW v, NEW S, Ready(h, c, d, o, x, v, S), NEW r \in Unused(h),
         NEW g, g = hvalue_ref(h, x, r)
  PROVE  Made(h, g, d, o, r, v)
  <1>1. /\ Shape(h) /\ Plain(h) /\ x \in Cell
        /\ x # d /\ TermsOf(h)[x] = v
        /\ \A k \in Cell : k # d => h.ref[k] # o
        /\ \A k \in Clients(h) : k \in Cell /\ k \notin Unused(h)
    <2>1. Callee(h, d, o, x, v)
      BY ReadyRefs
    <2> QED BY <2>1 DEF Callee
  <1>2. r \in Cell /\ h.own[r] = "unused"
    BY DEF Unused, Held
  <1>3. Shape(g) /\ \A k \in Cell : k # r => g.ref[k] = h.ref[k]
    BY <1>1, <1>2, RefShape
  <1>4. Clients(g) = Clients(h) \cup {r} /\ Keeps(h, g, {r}) /\ TermsOf(g)[r] = TermsOf(h)[x]
    BY <1>1, <1>2, RefTerms
  <1>5. Plain(g)
    BY <1>1, <1>2, RefPlain
  <1>6. g.ref[r] = h.ref[x]
    BY <1>2 DEF hvalue_ref, Shape, Good, Heap, Ready
  <1>7. \A k \in Cell : k # d => g.ref[k] # o
    BY <1>1, <1>3, <1>6
  <1>8. \A k \in Clients(h) : TermsOf(g)[k] = TermsOf(h)[k]
    BY <1>1, <1>4 DEF Keeps
  <1>9. TermsOf(g)[r] = v
    BY <1>1, <1>4
  <1> QED BY <1>3, <1>4, <1>5, <1>7, <1>8, <1>9 DEF Made

LEMMA ScalarMade ==
  ASSUME NEW h, NEW c, NEW d, NEW o, NEW x, NEW v, NEW S, Ready(h, c, d, o, x, v, S), NEW r \in Unused(h),
         NEW w \in Word, NEW g, g = hvalue_make(h, r, w)
  PROVE  Made(h, g, d, o, r, Node(w, <<>>))
  <1>1. /\ Shape(h) /\ Plain(h) /\ o \in Obj
        /\ \A k \in Cell : k # d => h.ref[k] # o
        /\ \A k \in Clients(h) : k \in Cell /\ k \notin Unused(h)
    <2>1. Callee(h, d, o, x, v)
      BY ReadyRefs
    <2> QED BY <2>1 DEF Callee
  <1>2. r \in Cell /\ h.own[r] = "unused"
    BY DEF Unused, Held
  <1>3. Shape(g) /\ \A k \in Cell : k # r => g.ref[k] = h.ref[k]
    BY <1>1, <1>2, MakeShape
  <1>4. Clients(g) = Clients(h) \cup {r} /\ Keeps(h, g, {r}) /\ TermsOf(g)[r] = Node(w, <<>>)
    BY <1>1, <1>2, MakeTerms
  <1>5. Plain(g)
    BY <1>1, <1>2, MakePlain
  <1>6. g.ref[r] = w /\ w # o
    BY <1>1, <1>2, WordAssumption DEF hvalue_make, Shape, Good, Heap
  <1>7. \A k \in Cell : k # d => g.ref[k] # o
    BY <1>1, <1>3, <1>6
  <1>8. \A k \in Clients(h) : TermsOf(g)[k] = TermsOf(h)[k]
    BY <1>1, <1>4 DEF Keeps
  <1> QED BY <1>3, <1>4, <1>5, <1>7, <1>8 DEF Made

LEMMA ErrorMade ==
  ASSUME NEW h, NEW c, NEW d, NEW o, NEW x, NEW v, NEW S, Ready(h, c, d, o, x, v, S), NEW r \in Unused(h),
         NEW e \in Obj \ Live(h), NEW g, g = Alloc(h, e, r, "string", <<>>)
  PROVE  Made(h, g, d, o, r, Node("string", <<>>))
  <1>0. PICK at : at = <<>>
    OBVIOUS
  <1>1. DOMAIN at = {} /\ IsMap(at)
    BY <1>0 DEF IsMap
  <1>2. TermFields(at, DOMAIN at, at, TermsOf(h)) /\ DOMAIN at \subseteq Clients(h)
    BY <1>1 DEF TermFields
  <1>3. /\ Shape(h) /\ Plain(h) /\ o \in Obj /\ h.kind[o] # "free"
        /\ \A k \in Cell : k # d => h.ref[k] # o
        /\ \A k \in Clients(h) : k \in Cell /\ k \notin Unused(h)
    <2>1. Callee(h, d, o, x, v)
      BY ReadyRefs
    <2> QED BY <2>1 DEF Callee
  <1>4. r \in Cell /\ h.own[r] = "unused" /\ h.kind[e] = "free" /\ e # o
    BY <1>3 DEF Unused, Held, Live
  <1>5. g = Alloc(h, e, r, "string", at)
    BY <1>0
  <1>6. Shape(g)
    <2>1. "string" \in Kind \ {"free"} /\ "string" \notin Pairs
      BY DEF Kind, Pairs
    <2>2. NextFields(at, 0, 0)
      BY <1>1 DEF NextFields
    <2>3. DOMAIN at \subseteq Cell /\ \A k \in DOMAIN at : h.own[k] = "client"
      BY <1>1
    <2> QED BY <1>3, <1>4, <1>5, <2>1, <2>2, <2>3, AllocShape
  <1>7. Built(h, g, e, r, "string", at) /\ TermsOf(g)[r] = Node("string", at)
    BY <1>2, <1>3, <1>5, <1>6, AllocTerms
  <1>8. PlainAt(g, e)
    BY <1>1, <1>7 DEF Built, PlainAt
  <1>9. Plain(g)
    BY <1>3, <1>7, <1>8, AllocPlain
  <1>10. \A k \in Cell : g.ref[k] = IF k = r THEN e ELSE h.ref[k]
    BY <1>3, <1>4, <1>5, AllocFacts
  <1>11. \A k \in Cell : k # d => g.ref[k] # o
    BY <1>3, <1>4, <1>10
  <1>12. Clients(g) = Clients(h) \cup {r}
    BY <1>1, <1>7 DEF Built
  <1>13. \A k \in Clients(h) : TermsOf(g)[k] = TermsOf(h)[k]
    BY <1>3, <1>7 DEF Built, Keeps
  <1> QED BY <1>0, <1>6, <1>7, <1>9, <1>11, <1>12, <1>13 DEF Made

LEMMA EffectMade ==
  ASSUME NEW h, NEW c, NEW d, NEW o, NEW x, NEW v, NEW S, Ready(h, c, d, o, x, v, S), NEW r \in Unused(h),
         NEW y \in Unused(h), r # y, NEW e \in Obj \ Live(h), NEW kind \in Native,
         IsEffectKind(kind), NEW at, at = [k \in {y} |-> 0], NEW F, F = [i \in {0} |-> v],
         NEW f, f = hvalue_ref(h, x, y), NEW g, g = Alloc(f, e, r, kind, at)
  PROVE  Made(h, g, d, o, r, Node(kind, F))
  <1>1. /\ Shape(h) /\ x \in Cell /\ o \in Obj /\ h.kind[o] # "free"
        /\ \A k \in Clients(h) : k \in Cell /\ k \notin Unused(h)
    <2>1. Callee(h, d, o, x, v)
      BY ReadyRefs
    <2> QED BY <2>1 DEF Callee
  <1>2. Made(h, f, d, o, y, v)
    BY RefMade
  <1>3. /\ y \in Cell /\ h.own[y] = "unused" /\ r \in Cell /\ h.own[r] = "unused"
        /\ y \notin Clients(h) /\ h.kind[e] = "free" /\ e # o
    BY <1>1 DEF Unused, Held, Live
  <1>4. /\ f.kind = h.kind /\ f.own[y] = "client" /\ f.own[r] = "unused"
    BY <1>1, <1>3, RefShape
  <1>5. DOMAIN at = {y} /\ at[y] = 0 /\ IsMap(F) /\ DOMAIN F = {0} /\ F[0] = v
    BY DEF IsMap
  <1>6. g = Alloc(f, e, r, kind, at)
    OBVIOUS
  <1>7. Shape(g)
    <2>1. kind \in Kind \ {"free"} /\ kind \notin Pairs
      BY KindAssumption DEF Kind, Pairs
    <2>2. Shape(f)
      BY <1>2 DEF Made
    <2>3. f.kind[e] = "free"
      BY <1>3, <1>4
    <2> QED BY <1>3, <1>4, <1>6, <2>1, <2>2, <2>3, AllocDataShape
  <1>8. /\ Shape(f) /\ Plain(f) /\ Clients(f) = Clients(h) \cup {y}
        /\ TermsOf(f)[y] = v
        /\ \A k \in Clients(h) : TermsOf(f)[k] = TermsOf(h)[k]
        /\ \A k \in Cell : k # d => f.ref[k] # o
    BY <1>2 DEF Made
  <1>9. r \in Unused(f) /\ e \in Obj \ Live(f) /\ DOMAIN at \subseteq Clients(f)
    BY <1>3, <1>4, <1>5, <1>8 DEF Unused, Held, Live
  <1>10. TermFields(F, DOMAIN at, at, TermsOf(f))
    BY <1>5, <1>8 DEF TermFields
  <1>11. Built(f, g, e, r, kind, at) /\ TermsOf(g)[r] = Node(kind, F)
    BY <1>6, <1>7, <1>8, <1>9, <1>10, AllocTerms
  <1>12. PlainAt(g, e)
    BY <1>5, <1>11 DEF Built, PlainAt, IsEffectKind
  <1>13. Plain(g)
    BY <1>8, <1>11, <1>12, AllocPlain
  <1>14. \A k \in Cell : g.ref[k] = IF k = r THEN e ELSE f.ref[k]
    BY <1>3, <1>6, <1>8, AllocFacts
  <1>15. \A k \in Cell : k # d => g.ref[k] # o
    BY <1>3, <1>8, <1>14
  <1>16. Clients(g) = Clients(h) \cup {r}
    BY <1>3, <1>5, <1>8, <1>11 DEF Built
  <1>17. \A k \in Clients(h) : TermsOf(g)[k] = TermsOf(h)[k]
    BY <1>1, <1>8, <1>11 DEF Built, Keeps
  <1> QED BY <1>7, <1>11, <1>13, <1>15, <1>16, <1>17 DEF Made

(* The arguments of a native in order: x is the first. *)
LEMMA FirstField ==
  ASSUME NEW h, NEW o, NEW F, NEW n \in Nat, n > 0, Partial(h, o, F, n)
  PROVE  \E x : {k \in Held(h, o) : h.slot[k] = 1} = {x} /\ TermsOf(h)[x] = F[1]
  <1>1. 1 \in 1..n
    OBVIOUS
  <1>2. PICK x \in Held(h, o) : h.slot[x] = 1
    BY <1>1 DEF Partial, Numbered
  <1>3. {k \in Held(h, o) : h.slot[k] = 1} = {x}
    BY <1>2 DEF Partial, Numbered
  <1>4. F[1] = TermsOf(h)[x]
    BY <1>2 DEF Partial, TermFields
  <1> QED BY <1>3, <1>4

LEMMA NativeReady ==
  ASSUME NEW h, NEW g, NEW c, NEW d, NEW o \in Obj, h.ref[d] = o, Exchanged(heap, h, c, d),
         NEW t, NEW as, NEW at, NEW n \in Nat, NEW m \in Nat, m > 0,
         Loaded(g, c, d, o, t, as, n + m), Operanded(h, g, c, d, as, at, n, m)
  PROVE  \E x : Ready(g, c, d, o, x, (t.fields \o Immutable!TermsOf(as))[1], Range(as))
  <1> DEFINE F == t.fields \o Immutable!TermsOf(as)
  <1>1. Shape(g) /\ Plain(g) /\ Partial(g, o, F, n + m)
    BY DEF Loaded
  <1>2. n + m \in Nat /\ n + m > 0
    OBVIOUS
  <1> HIDE DEF F
  <1>3. PICK x : {k \in Held(g, o) : g.slot[k] = 1} = {x} /\ TermsOf(g)[x] = F[1]
    BY <1>1, <1>2, FirstField
  <1>4. /\ Stored(h, g, o, d, at) /\ DOMAIN at = Range(as) /\ d \notin Range(as)
        /\ Clients(g) = ((Clients(heap) \ {c}) \cup {d}) \ Range(as)
        /\ \A k \in Clients(heap) \ ({c} \cup Range(as)) : TermsOf(g)[k] = TermsOf(heap)[k]
    BY DEF Operanded
  <1>5. g.ref = h.ref /\ g.kind = h.kind /\ Range(as) \subseteq Held(g, o)
    BY <1>4 DEF Stored
  <1>6. /\ h.kind[o] # "free" /\ OneRef(h, d) /\ (d = c \/ d \in Unused(heap))
    BY DEF Exchanged
  <1>7. OneRef(g, d) /\ d \in Clients(g)
    BY <1>4, <1>5, <1>6 DEF OneRef
  <1>8. Ready(g, c, d, o, x, F[1], Range(as))
    BY <1>1, <1>3, <1>4, <1>5, <1>6, <1>7 DEF Ready
  <1> QED BY <1>8 DEF F

(* What the call of native m on v may yield. *)
Yields(m, v, t) ==
  LET call == NativeMeta[m].call
  IN \/ call = "arg" /\ t = v
     \/ call = "scalar" /\ \E w \in Word : t = Node(w, <<>>)
     \/ call = "fails" /\ t = Node("string", <<>>)
     \/ call \in Native /\ t = Node(call, [i \in {0} |-> v])

LEMMA YieldsResult ==
  ASSUME NativesCalled, NEW m, NEW v, NEW t, Yields(m, v, t), NEW F, F[1] = v
  PROVE  t \in Immutable!Results(m, F)
  <1> DEFINE call == NativeMeta[m].call
  <1>1. "arg" \notin Native /\ "scalar" \notin Native /\ "fails" \notin Native
    BY DEF NativesCalled
  <1>2. CASE call = "arg" /\ t = v
    BY <1>1, <1>2 DEF Immutable!Results
  <1>3. CASE call = "scalar" /\ \E w \in Word : t = Node(w, <<>>)
    BY <1>1, <1>3 DEF Immutable!Results, Immutable!Atom, Immutable!Node, Node
  <1>4. CASE call = "fails" /\ t = Node("string", <<>>)
    BY <1>1, <1>4 DEF Immutable!Results, Immutable!Node, Node
  <1>5. CASE call \in Native /\ t = Node(call, [i \in {0} |-> v])
    BY <1>1, <1>5 DEF Immutable!Results, Immutable!Node, Node
  <1> QED BY <1>2, <1>3, <1>4, <1>5 DEF Yields

(* Native m with term t, called with operands as: v is its first argument. *)
Saturated(c, m, t, as, v) ==
  /\ m \in Immutable!Callable /\ c \in Immutable!Full
  /\ t.kind = m /\ t \in Immutable!Copies(ClientTerm[c], TRUE)
  /\ as \in Immutable!Operands(Client \ {c})
  /\ Len(t.fields) + Len(as) = Immutable!Argc(m)
  /\ v = (t.fields \o Immutable!TermsOf(as))[1]

LEMMA AnswerIs ==
  ASSUME Before, NativesCalled, NEW c \in Client,
         NEW m, NEW d, NEW t, NEW as, NEW v, Saturated(c, m, t, as, v),
         NEW g, NEW o, NEW x, Ready(g, c, d, o, x, v, Range(as)),
         NEW f, NEW r, NEW res, Made(g, f, d, o, r, res), Yields(m, v, res),
         heap' = hvalue_drop(f, d) \/ heap' = [f EXCEPT !.own[d] = "lost"]
  PROVE  After
  <1> DEFINE F == t.fields \o Immutable!TermsOf(as)
  <1>1. /\ Plain(heap') /\ Becomes(heap, heap', {c} \cup Range(as), One(r, res))
        /\ r \in Cell /\ (r = c \/ r \notin Clients(heap))
    BY AnswerTerms
  <1>2. Immutable!Update({c} \cup Range(as), One(r, res))
    BY <1>1, UpdateIs
  <1>3. res \in Immutable!Results(m, F)
    <2>1. F[1] = v
      BY DEF Saturated
    <2> HIDE DEF F
    <2> QED BY <2>1, YieldsResult
  <1> HIDE DEF F
  <1>4. Immutable!NativeCall(c, t, as, r)
    <2>1. Immutable!Range(as) = Range(as) /\ Immutable!At(r, res) = One(r, res)
      BY DEF Immutable!Range, Range, Immutable!At, One
    <2> QED BY <1>2, <1>3, <2>1 DEF Immutable!NativeCall, Saturated, F
  <1>5. r \in Immutable!Empty \cup {c} /\ Immutable!Full \ {c} = Client \ {c}
    BY <1>1, FullIs DEF Before, Client, Clients
  <1>6. Immutable!Next(TRUE)
    BY <1>4, <1>5 DEF Immutable!Next, Saturated
  <1> QED BY <1>1, <1>6 DEF After

(* The results of the call callbacks, on the heap with the operand stored. *)
LEMMA CallbackTerms ==
  ASSUME Before, NativesCalled, NEW c \in Client,
         NEW m, NEW d, NEW t, NEW as, NEW v, Saturated(c, m, t, as, v),
         NEW g, NEW o, NEW x, Ready(g, c, d, o, x, v, Range(as)),
         g.kind[o] = m, NativeCall(g, o, d)
  PROVE  After
  <1> DEFINE call == NativeMeta[m].call
             first == {k \in Held(g, o) : g.slot[k] = 1}
  <1>1. first = {x}
    BY DEF Ready
  <1>2. \/ /\ call = "arg"
           /\ \E arg \in first, r \in FreshCell(g) :
                heap' = hvalue_drop(hvalue_ref(g, arg, r), d)
        \/ /\ call = "scalar"
           /\ \E r \in FreshCell(g), w \in Word : heap' = hvalue_drop(hvalue_make(g, r, w), d)
        \/ /\ call = "fails"
           /\ \E r \in FreshCell(g), e \in FreshObj(g) :
                heap' = [Alloc(g, e, r, "string", <<>>) EXCEPT !.own[d] = "lost"]
        \/ /\ call \in Native
           /\ \E arg \in first, T \in FreshCells(g, 2), e \in FreshObj(g) :
                \E r, y \in T :
                  /\ r # y
                  /\ heap' = hvalue_drop(Alloc(hvalue_ref(g, arg, y), e, r, call,
                                               [k \in {y} |-> 0]), d)
    BY DEF NativeCall
  <1>3. \A r \in FreshCell(g) : r \in Unused(g)
    BY FreshFacts DEF Unused, Held
  <1>4. \A e \in FreshObj(g) : e \in Obj \ Live(g)
    BY FreshFacts DEF Live
  <1> HIDE DEF first, call
  <1>5. ASSUME call = "arg", NEW arg \in first, NEW r \in FreshCell(g),
               heap' = hvalue_drop(hvalue_ref(g, arg, r), d)
        PROVE  After
    <2>1. arg = x /\ r \in Unused(g)
      BY <1>1, <1>3
    <2>2. Made(g, hvalue_ref(g, x, r), d, o, r, v)
      BY <1>1, <2>1, RefMade
    <2>3. Yields(m, v, v)
      BY <1>5 DEF Yields, call
    <2>4. heap' = hvalue_drop(hvalue_ref(g, x, r), d)
      BY <1>5, <2>1
    <2> QED BY <2>2, <2>3, <2>4, AnswerIs
  <1>6. ASSUME call = "scalar", NEW r \in FreshCell(g), NEW w \in Word,
               heap' = hvalue_drop(hvalue_make(g, r, w), d)
        PROVE  After
    <2>1. r \in Unused(g)
      BY <1>3
    <2>2. Made(g, hvalue_make(g, r, w), d, o, r, Node(w, <<>>))
      BY <1>1, <2>1, ScalarMade
    <2>3. Yields(m, v, Node(w, <<>>))
      BY <1>6 DEF Yields, call
    <2> QED BY <1>6, <2>2, <2>3, AnswerIs
  <1>7. ASSUME call = "fails", NEW r \in FreshCell(g), NEW e \in FreshObj(g),
               heap' = [Alloc(g, e, r, "string", <<>>) EXCEPT !.own[d] = "lost"]
        PROVE  After
    <2> DEFINE f == Alloc(g, e, r, "string", <<>>)
    <2>1. r \in Unused(g) /\ e \in Obj \ Live(g)
      BY <1>3, <1>4
    <2>2. Made(g, f, d, o, r, Node("string", <<>>))
      BY <1>1, <2>1, ErrorMade
    <2>3. Yields(m, v, Node("string", <<>>))
      BY <1>7 DEF Yields, call
    <2>4. heap' = [f EXCEPT !.own[d] = "lost"]
      BY <1>7
    <2> HIDE DEF f
    <2> QED BY <2>2, <2>3, <2>4, AnswerIs
  <1>8. ASSUME call \in Native, NEW arg \in first, NEW T \in FreshCells(g, 2), NEW e \in FreshObj(g),
               NEW r \in T, NEW y \in T, r # y,
               heap' = hvalue_drop(Alloc(hvalue_ref(g, arg, y), e, r, call, [k \in {y} |-> 0]), d)
        PROVE  After
    <2> DEFINE f == Alloc(hvalue_ref(g, x, y), e, r, call, [k \in {y} |-> 0])
    <2>1. arg = x /\ r \in Unused(g) /\ y \in Unused(g) /\ e \in Obj \ Live(g)
      BY <1>1, <1>4, FreshFacts DEF Unused
    <2>2. call \in Native /\ IsEffectKind(call)
      BY <1>8 DEF NativesCalled, Saturated, Immutable!Callable, call, IsEffectKind
    <2>3. Made(g, f, d, o, r, Node(call, [i \in {0} |-> v]))
      <3>1. PICK at, F, b : /\ at = [k \in {y} |-> 0] /\ F = [i \in {0} |-> v]
                            /\ b = hvalue_ref(g, x, y)
        OBVIOUS
      <3>2. f = Alloc(b, e, r, call, at)
        BY <3>1
      <3> HIDE DEF f
      <3>3. Made(g, f, d, o, r, Node(call, F))
        BY <1>8, <2>1, <2>2, <3>1, <3>2, EffectMade
      <3> QED BY <3>1, <3>3
    <2>4. Yields(m, v, Node(call, [i \in {0} |-> v]))
      BY <1>8 DEF Yields, call
    <2>5. heap' = hvalue_drop(f, d)
      BY <1>8, <2>1
    <2> HIDE DEF f
    <2> QED BY <2>3, <2>4, <2>5, AnswerIs
  <1> QED BY <1>2, <1>5, <1>6, <1>7, <1>8

LEMMA CallNativeTerms ==
  ASSUME Before, CloneContract, NativesCalled, ClosuresFit, NEW c \in Client,
         NEW as \in Operands(Client \ {c}), CallNative(c, as)
  PROVE  After
  <1> DEFINE p == heap.ref[c]
             kind == heap.kind[p]
             argc == NativeMeta[kind].argc
  <1>1. p \in Obj /\ kind \in Native /\ Len(as) <= argc - Cardinality(Args(heap, p))
    BY DEF CallNative, Is, NativeArgsLeft
  <1>2. PICK u \in hvalue_uniq(heap, c) :
          LET o == u[1].ref[u[2]]
              h == PutArgs(u[1], o, as)
          IN IF NativeArgsLeft(h, o) > 0 THEN heap' = h ELSE NativeCall(h, o, u[2])
    BY DEF CallNative
  <1>3. PICK m \in Nat : OperandList(as, Client \ {c}, m)
    BY OperandsHave
  <1>4. m > 0 /\ Len(as) = m /\ as \in Immutable!Operands(Client \ {c})
    <2>1. m \in 1..MaxFields
      BY <1>3 DEF OperandList
    <2>2. m > 0
      BY <2>1, MaxFieldsAssumption
    <2> QED BY <1>3, <2>2 DEF OperandList
  <1>5. argc \in Nat /\ Cardinality(Args(heap, p)) \in Nat
    BY <1>1, HeldFacts, FS_CardinalityType DEF NativesCalled, Before, Shape
  <1>6. ~IsEffectKind(kind) /\ kind \in Immutable!Callable
    <2>1. argc # 0
      BY <1>1, <1>4, <1>5
    <2> QED BY <1>1, <2>1 DEF NativesCalled, IsEffectKind, Immutable!Callable
  <1> DEFINE d == u[2]
             o == u[1].ref[d]
             t == TermsOf(u[1])[d]
             g == PutArgs(u[1], o, as)
  <1>7. PICK n \in Nat, n0 \in Nat : Called(u[1], c, d, kind, n, n0)
    BY <1>1, <1>6, CalledFacts
  <1>8. /\ Loaded(g, c, d, o, t, as, n + m) /\ Exchanged(heap, u[1], c, d) /\ c \in Immutable!Full
        /\ Operanded(u[1], g, c, d, as, Fields(as, n + 1), n, m)
    BY <1>1, <1>3, <1>6, <1>7, CallLoads, UniqFields
  <1>9. /\ o \in Obj /\ t.kind = kind /\ Len(t.fields) = n /\ n <= n0
        /\ t \in Immutable!Copies(ClientTerm[c], TRUE) /\ Cardinality(Args(heap, p)) = n0
    BY <1>7 DEF Called, Partial
  <1>10. NativeArgsLeft(g, o) = argc - (n + m)
    BY <1>8, <1>9 DEF Loaded, Partial, NativeArgsLeft
  <1>11. Immutable!Argc(kind) = argc
    BY <1>1 DEF Immutable!Argc, ClosuresFit
  <1>12. CASE NativeArgsLeft(g, o) > 0
    <2>1. n + m < argc
      <3> HIDE DEF argc
      <3> QED BY <1>5, <1>10, <1>12
    <2>2. heap' = g
      BY <1>2, <1>12
    <2> QED BY <1>1, <1>3, <1>6, <1>7, <1>11, <2>1, <2>2, PartialCallTerms
  <1>13. CASE ~(NativeArgsLeft(g, o) > 0)
    <2>1. n + m = argc
      <3>1. m <= argc - n0 /\ ~(argc - (n + m) > 0)
        BY <1>1, <1>4, <1>9, <1>10, <1>13
      <3> HIDE DEF argc
      <3> QED BY <1>5, <1>9, <3>1
    <2>2. NativeCall(g, o, d)
      BY <1>2, <1>13
    <2> DEFINE v == (t.fields \o Immutable!TermsOf(as))[1]
    <2>3. Saturated(c, kind, t, as, v)
      BY <1>4, <1>6, <1>8, <1>9, <1>11, <2>1 DEF Saturated
    <2>4. u[1].ref[d] = o /\ g.kind[o] = kind
      BY <1>8, <1>9 DEF Loaded
    <2> HIDE DEF d, o, t, g, kind
    <2>5. PICK x : Ready(g, c, d, o, x, v, Range(as))
      BY <1>4, <1>8, <1>9, <2>4, NativeReady
    <2> HIDE DEF v
    <2> QED BY <2>2, <2>3, <2>4, <2>5, CallbackTerms
  <1> QED BY <1>12, <1>13

-----------------------------------------------------------------------------
(* Every step of the heap is a step on terms. *)

(* An instance for which the terms are what a client of value.h sees: each  *)
(* clone callback keeps to value.h, closures fit, effects are not called,   *)
(* and there is room for the two fields of a pair.                          *)
TermsContract ==
  /\ CloneContract /\ NoneIsNoValue /\ ClosuresFit /\ NativesCalled /\ MaxFields >= 2

LEMMA TakeTerms ==
  ASSUME Before, NEW c \in Client, Take(c)
  PROVE  After
  <1>1. \/ \E T \in FreshCells(heap, 2) : \E h, t \in T : Uncons(c, h, t)
        \/ \E d \in FreshCell(heap), i \in 1..MaxFields : TupleGet(c, i, d)
    BY DEF Take
  <1>2. ASSUME NEW T \in FreshCells(heap, 2), NEW h \in T, NEW t \in T, Uncons(c, h, t)
        PROVE  After
    BY <1>2, UnconsTerms
  <1>3. ASSUME NEW d \in FreshCell(heap), NEW i \in 1..MaxFields, TupleGet(c, i, d)
        PROVE  After
    BY <1>3, TupleGetTerms
  <1> QED BY <1>1, <1>2, <1>3

LEMMA CallTerms ==
  ASSUME Before, TermsContract, NEW c \in Client, Call(c)
  PROVE  After
  <1>1. PICK as \in Operands(Client \ {c}) : CallClosure(c, as) \/ CallNative(c, as)
    BY DEF Call
  <1>2. CloneContract /\ ClosuresFit /\ NativesCalled
    BY DEF TermsContract
  <1>3. CASE CallClosure(c, as)
    BY <1>2, <1>3, CallClosureTerms
  <1>4. CASE CallNative(c, as)
    BY <1>2, <1>4, CallNativeTerms
  <1> QED BY <1>1, <1>3, <1>4

LEMMA StepTerms ==
  ASSUME Before, TermsContract, Next
  PROVE  After
  <1>1. CASE DropField
    BY <1>1, DropFieldTerms
  <1>2. ASSUME NEW c \in FreshCell(heap), NEW w \in Word, MakeScalar(c, w) PROVE After
    BY <1>2, ScalarTerms
  <1>3. ASSUME NEW o \in FreshObj(heap), NEW c \in FreshCell(heap), Make(o, c) PROVE After
    BY <1>3, MakeStepTerms DEF TermsContract
  <1>4. ASSUME NEW c \in Client, NEW d \in FreshCell(heap), Reference(c, d) PROVE After
    BY <1>4, ReferenceTerms
  <1>5. ASSUME NEW c \in Client, Drop(c) PROVE After
    BY <1>5, DropStepTerms
  <1>6. ASSUME NEW c \in Client, Clone(c) PROVE After
    BY <1>6, CloneStepTerms DEF TermsContract
  <1>7. ASSUME NEW c \in Client, Take(c) PROVE After
    BY <1>7, TakeTerms
  <1>8. ASSUME NEW c \in Client, Call(c) PROVE After
    BY <1>8, CallTerms
  <1>9. ASSUME NEW c \in Client, NEW d \in Client, BindNil(c, d) PROVE After
    BY <1>9, BindNilTerms
  <1> QED BY <1>1, <1>2, <1>3, <1>4, <1>5, <1>6, <1>7, <1>8, <1>9 DEF Next

LEMMA InitTerms ==
  ASSUME Init
  PROVE  Plain(heap) /\ Immutable!Init
  <1>1. heap = EmptyHeap
    BY DEF Init
  <1>2. Clients(heap) = {}
    BY <1>1 DEF EmptyHeap, Clients, Held
  <1>3. ClientTerm = [c \in Cell |-> NoTerm]
    BY <1>2, AbsIs DEF Abs
  <1> QED BY <1>1, <1>3, EmptyPlain DEF Immutable!Init, Immutable!None, Immutable!Node, NoTerm, Node

(* The heap, with its shared objects, its counts, its frees and its         *)
(* mutation in place, implements immutable terms (ImmutableButNatives): no  *)
(* client of value.h can tell an HValue from the term it stands for, except *)
(* by the arguments that a copy of a native does not have.                  *)
THEOREM ValuesAreTerms == TermsContract /\ Spec => ImmutableButNatives
  <1>1. CASE TermsContract
    <2>1. Init => Plain(heap) /\ Immutable!Init
      BY InitTerms
    <2>2. Shape(heap) /\ Plain(heap) /\ [Next]_vars =>
            [Immutable!Next(TRUE)]_ClientTerm /\ Plain(heap)'
      <3> SUFFICES ASSUME Shape(heap), Plain(heap), [Next]_vars
                   PROVE  [Immutable!Next(TRUE)]_ClientTerm /\ Plain(heap')
        OBVIOUS
      <3>1. Before
        BY <1>1 DEF Before, TermsContract
      <3>2. CASE Next
        BY <1>1, <3>1, <3>2, StepTerms DEF After
      <3>3. CASE UNCHANGED vars
        <4>1. heap' = heap
          BY <3>3 DEF vars
        <4>2. ClientTerm' = ClientTerm
          BY <4>1, AbsIs
        <4> QED BY <4>1, <4>2
      <3> QED BY <3>2, <3>3
    <2>3. Spec => []Shape(heap)
      BY <1>1, AlwaysShape, PTL DEF TermsContract
    <2> QED BY <2>1, <2>2, <2>3, PTL DEF Spec, ImmutableButNatives, Immutable!LosingSpec
  <1>2. CASE ~TermsContract
    BY <1>2, PTL
  <1> QED BY <1>1, <1>2

=============================================================================
