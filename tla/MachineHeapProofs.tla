-------------------------- MODULE MachineHeapProofs ---------------------------
(***************************************************************************)
(* The machine of MachineHeap keeps the heap whole whatever program it     *)
(* runs, as long as its instructions find what they take (Executable).     *)
(***************************************************************************)
EXTENDS MachineHeap, HeapProofs, SequenceTheorems

-----------------------------------------------------------------------------
(* Sequences without repetition. *)

LEMMA AppendDistinct ==
  ASSUME NEW S, NEW s \in Seq(S), IsInjective(s), NEW c \in S, c \notin Range(s)
  PROVE  /\ Append(s, c) \in Seq(S) /\ IsInjective(Append(s, c))
         /\ Range(Append(s, c)) = Range(s) \cup {c}
         /\ Len(Append(s, c)) = Len(s) + 1
  <1> DEFINE t == Append(s, c)
             n == Len(s)
  <1>1. /\ t \in Seq(S) /\ Len(t) = n + 1 /\ n \in Nat
        /\ \A i \in 1..n : t[i] = s[i]
        /\ t[n + 1] = c
    BY AppendProperties, LenProperties
  <1>2. DOMAIN s = 1..n /\ DOMAIN t = 1..n + 1
    BY <1>1, LenProperties
  <1> HIDE DEF t, n
  <1>3. 1..n + 1 = 1..n \cup {n + 1}
    BY <1>1
  <1>4. Range(t) = Range(s) \cup {c}
    BY <1>1, <1>2, <1>3 DEF Range
  <1>5. IsInjective(t)
    BY <1>1, <1>2, <1>3 DEF Range, IsInjective
  <1> QED BY <1>1, <1>4, <1>5 DEF t, n

LEMMA ReverseDistinct ==
  ASSUME NEW S, NEW s \in Seq(S), IsInjective(s)
  PROVE  /\ Reverse(s) \in Seq(S) /\ IsInjective(Reverse(s))
         /\ Range(Reverse(s)) = Range(s) /\ Len(Reverse(s)) = Len(s)
  <1> DEFINE n == Len(s)
             r == Reverse(s)
  <1>1. n \in Nat /\ s \in [1..n -> S] /\ DOMAIN s = 1..n
    BY LenProperties
  <1>2. r = [i \in 1..n |-> s[(n - i) + 1]]
    BY DEF Reverse
  <1> HIDE DEF n, r
  <1>3. \A i \in 1..n : (n - i) + 1 \in 1..n /\ (n - ((n - i) + 1)) + 1 = i
    BY <1>1
  <1>4. r \in [1..n -> S] /\ \A i \in 1..n : r[i] = s[(n - i) + 1]
    BY <1>1, <1>2, <1>3
  <1>5. r \in Seq(S) /\ Len(r) = n
    BY <1>1, <1>4, SeqDef, LenProperties
  <1>6. \A i \in 1..n : s[i] = r[(n - i) + 1]
    BY <1>3, <1>4
  <1>7. Range(r) = Range(s)
    BY <1>1, <1>3, <1>4, <1>6 DEF Range
  <1>8. IsInjective(r)
    <2> SUFFICES ASSUME NEW i \in 1..n, NEW j \in 1..n, r[i] = r[j] PROVE i = j
      BY <1>4 DEF IsInjective
    <2>1. (n - i) + 1 = (n - j) + 1
      BY <1>1, <1>3, <1>4 DEF IsInjective
    <2> QED BY <1>1, <2>1
  <1> QED BY <1>5, <1>7, <1>8 DEF r, n

(* Taking the n topmost elements off. *)
LEMMA SplitDistinct ==
  ASSUME NEW S, NEW s \in Seq(S), IsInjective(s), NEW n \in 0..Len(s)
  PROVE  LET below == SubSeq(s, 1, Len(s) - n)
             above == SubSeq(s, Len(s) - n + 1, Len(s))
         IN /\ below \in Seq(S) /\ IsInjective(below) /\ Len(below) = Len(s) - n
            /\ above \in Seq(S) /\ IsInjective(above) /\ Len(above) = n
            /\ Range(below) \cup Range(above) = Range(s)
            /\ Range(below) \cap Range(above) = {}
  <1> DEFINE l == Len(s)
             b == SubSeq(s, 1, l - n)
             a == SubSeq(s, l - n + 1, l)
  <1>1. l \in Nat /\ DOMAIN s = 1..l /\ \A i \in 1..l : s[i] \in S
    BY LenProperties
  <1>2. n \in Nat /\ n <= l
    OBVIOUS
  <1>3. b \in Seq(S) /\ Len(b) = l - n /\ \A i \in 1..l - n : b[i] = s[i]
    <2>1. \A i \in 1..l - n : s[i] \in S
      BY <1>1, <1>2
    <2> HIDE DEF l
    <2>2. 1 \in Int /\ l - n \in Int
      BY <1>1, <1>2
    <2> QED BY <1>1, <1>2, <2>1, <2>2, SubSeqProperties
  <1>4. a \in Seq(S) /\ Len(a) = n /\ \A i \in 1..n : a[i] = s[l - n + i]
    <2>1. \A i \in l - n + 1..l : s[i] \in S
      BY <1>1, <1>2
    <2> HIDE DEF l
    <2>2. l - n + 1 \in Int /\ l \in Int
      BY <1>1, <1>2
    <2>3. /\ a \in Seq(S)
          /\ Len(a) = IF l - n + 1 <= l THEN l - (l - n + 1) + 1 ELSE 0
          /\ \A i \in 1..l - (l - n + 1) + 1 : a[i] = s[(l - n + 1) + i - 1]
      BY <2>1, <2>2, SubSeqProperties
    <2>4. /\ l - (l - n + 1) + 1 = n
          /\ (IF l - n + 1 <= l THEN l - (l - n + 1) + 1 ELSE 0) = n
          /\ \A i \in 1..n : (l - n + 1) + i - 1 = l - n + i
      BY <1>1, <1>2
    <2> HIDE DEF a
    <2> QED BY <2>3, <2>4
  <1> HIDE DEF l, a, b
  <1>5. DOMAIN b = 1..l - n /\ DOMAIN a = 1..n
    BY <1>3, <1>4, LenProperties
  <1>6. IsInjective(b) /\ IsInjective(a)
    <2>1. IsInjective(b)
      BY <1>1, <1>2, <1>3, <1>5 DEF IsInjective
    <2>2. ASSUME NEW i \in 1..n, NEW j \in 1..n, a[i] = a[j] PROVE i = j
      <3>1. l - n + i \in 1..l /\ l - n + j \in 1..l /\ s[l - n + i] = s[l - n + j]
        BY <1>1, <1>2, <1>4, <2>2
      <3>2. l - n + i = l - n + j
        BY <1>1, <3>1 DEF IsInjective
      <3> QED BY <1>1, <1>2, <3>2
    <2> QED BY <1>5, <2>1, <2>2 DEF IsInjective
  <1>7. \A i \in 1..n : l - n + i \in 1..l /\ l - n + i \notin 1..l - n
    BY <1>1, <1>2
  <1>8. \A i \in 1..l : i \in 1..l - n \/ (i - (l - n) \in 1..n /\ l - n + (i - (l - n)) = i)
    BY <1>1, <1>2
  <1>9. \A i \in 1..l - n : i \in 1..l
    BY <1>1, <1>2
  <1>10. Range(b) \cup Range(a) = Range(s)
    <2>1. \A i \in 1..l : s[i] \in Range(b) \cup Range(a)
      BY <1>3, <1>4, <1>5, <1>8 DEF Range
    <2>2. \A i \in 1..l - n : b[i] \in Range(s)
      BY <1>1, <1>3, <1>9 DEF Range
    <2>3. \A i \in 1..n : a[i] \in Range(s)
      BY <1>1, <1>4, <1>7 DEF Range
    <2> QED BY <1>1, <1>5, <2>1, <2>2, <2>3 DEF Range
  <1>11. Range(b) \cap Range(a) = {}
    <2> SUFFICES ASSUME NEW i \in 1..l - n, NEW j \in 1..n, b[i] = a[j] PROVE FALSE
      BY <1>5 DEF Range
    <2>1. i = l - n + j
      BY <1>1, <1>3, <1>4, <1>7, <1>9 DEF IsInjective
    <2> QED BY <1>7, <2>1
  <1> QED BY <1>3, <1>4, <1>6, <1>10, <1>11 DEF l, a, b

LEMMA ConcatDistinct ==
  ASSUME NEW S, NEW s \in Seq(S), NEW t \in Seq(S), IsInjective(s), IsInjective(t),
         Range(s) \cap Range(t) = {}
  PROVE  /\ s \o t \in Seq(S) /\ IsInjective(s \o t)
         /\ Range(s \o t) = Range(s) \cup Range(t)
  <1> DEFINE u == s \o t
             l == Len(s)
             k == Len(t)
  <1>1. /\ l \in Nat /\ k \in Nat /\ DOMAIN s = 1..l /\ DOMAIN t = 1..k
        /\ u \in Seq(S) /\ DOMAIN u = 1..l + k
        /\ \A i \in 1..l + k : u[i] = IF i <= l THEN s[i] ELSE t[i - l]
    BY ConcatProperties, LenProperties
  <1>2. Range(u) = Range(s) \cup Range(t)
    BY RangeConcatenation
  <1> HIDE DEF u, l, k
  <1>3. ASSUME NEW i \in 1..l + k, NEW j \in 1..l + k, u[i] = u[j] PROVE i = j
    <2>1. CASE i <= l /\ j <= l
      BY <1>1, <1>3, <2>1 DEF IsInjective
    <2>2. CASE ~(i <= l) /\ ~(j <= l)
      <3>1. i - l \in 1..k /\ j - l \in 1..k /\ t[i - l] = t[j - l]
        BY <1>1, <1>3, <2>2
      <3>2. i - l = j - l
        BY <1>1, <3>1 DEF IsInjective
      <3> QED BY <1>1, <3>2
    <2>3. CASE i <= l /\ ~(j <= l)
      <3>1. i \in 1..l /\ j - l \in 1..k /\ s[i] = t[j - l]
        BY <1>1, <1>3, <2>3
      <3> QED BY <1>1, <3>1 DEF Range
    <2>4. CASE ~(i <= l) /\ j <= l
      <3>1. j \in 1..l /\ i - l \in 1..k /\ s[j] = t[i - l]
        BY <1>1, <1>3, <2>4
      <3> QED BY <1>1, <3>1 DEF Range
    <2> QED BY <2>1, <2>2, <2>3, <2>4
  <1> QED BY <1>1, <1>2, <1>3 DEF IsInjective, u

-----------------------------------------------------------------------------
(* Memories. *)

IsMemory(m) ==
  /\ m = [heap |-> m.heap, data |-> m.data, operands |-> m.operands]
  /\ m.data = [o \in Obj |-> m.data[o]]

(* The cells of the client are the operands, each in one place, and the    *)
(* cells of K: locals, module members and the C variables of the           *)
(* instruction that is carried out.                                        *)
Owned(m, K) ==
  /\ IsMemory(m) /\ Shape(m.heap)
  /\ m.operands \in Seq(Cell) /\ IsInjective(m.operands)
  /\ Range(m.operands) \cap K = {}
  /\ Range(m.operands) \cup K = Held(m.heap, "client")

LEMMA OnParts ==
  ASSUME NEW m, IsMemory(m), NEW h
  PROVE  /\ IsMemory(On(m, h)) /\ On(m, h).heap = h /\ On(m, h).operands = m.operands
         /\ On(m, h).data = m.data
  BY DEF IsMemory, On

LEMMA OperandsParts ==
  ASSUME NEW m, IsMemory(m), NEW s
  PROVE  /\ IsMemory([m EXCEPT !.operands = s])
         /\ [m EXCEPT !.operands = s].heap = m.heap
         /\ [m EXCEPT !.operands = s].data = m.data
         /\ [m EXCEPT !.operands = s].operands = s
  BY DEF IsMemory

LEMMA DataParts ==
  ASSUME NEW m, IsMemory(m), NEW o, NEW x
  PROVE  /\ IsMemory([m EXCEPT !.data[o] = x])
         /\ [m EXCEPT !.data[o] = x].heap = m.heap
         /\ [m EXCEPT !.data[o] = x].operands = m.operands
  <1> DEFINE d == [m.data EXCEPT ![o] = x]
             g == [m EXCEPT !.data = d]
  <1>1. d = [p \in Obj |-> d[p]]
    BY DEF IsMemory
  <1>2. [m EXCEPT !.data[o] = x] = g
    OBVIOUS
  <1> HIDE DEF d
  <1>3. g = [heap |-> m.heap, data |-> d, operands |-> m.operands]
    BY DEF IsMemory
  <1>4. g.heap = m.heap /\ g.data = d /\ g.operands = m.operands
    BY <1>3
  <1> HIDE DEF g
  <1>5. IsMemory(g)
    BY <1>1, <1>3, <1>4 DEF IsMemory
  <1> QED BY <1>2, <1>4, <1>5

LEMMA OtherData ==
  ASSUME NEW m, IsMemory(m), NEW o, NEW x, NEW p \in Obj, p # o
  PROVE  [m EXCEPT !.data[o] = x].data[p] = m.data[p]
  <1> DEFINE d == [m.data EXCEPT ![o] = x]
             g == [m EXCEPT !.data = d]
  <1>1. d[p] = m.data[p]
    BY DEF IsMemory
  <1>2. [m EXCEPT !.data[o] = x] = g
    OBVIOUS
  <1> HIDE DEF d
  <1>3. g.data = d
    BY DEF IsMemory
  <1> HIDE DEF g
  <1> QED BY <1>1, <1>2, <1>3

LEMMA PushParts ==
  ASSUME NEW m, IsMemory(m), NEW c
  PROVE  /\ IsMemory(PushCell(m, c)) /\ PushCell(m, c).heap = m.heap
         /\ PushCell(m, c).data = m.data
         /\ PushCell(m, c).operands = Append(m.operands, c)
  BY DEF IsMemory, PushCell

LEMMA BelowParts ==
  ASSUME NEW m, IsMemory(m), NEW n
  PROVE  /\ IsMemory(Below(m, n)) /\ Below(m, n).heap = m.heap /\ Below(m, n).data = m.data
         /\ Below(m, n).operands = SubSeq(m.operands, 1, Len(m.operands) - n)
  <1> DEFINE s == SubSeq(m.operands, 1, Len(m.operands) - n)
  <1>1. Below(m, n) = [m EXCEPT !.operands = s]
    BY DEF Below
  <1> HIDE DEF s
  <1>2. /\ IsMemory([m EXCEPT !.operands = s])
        /\ [m EXCEPT !.operands = s].heap = m.heap
        /\ [m EXCEPT !.operands = s].data = m.data
        /\ [m EXCEPT !.operands = s].operands = s
    BY OperandsParts
  <1> QED BY <1>1, <1>2 DEF s

(* Another heap, in which the client has other cells besides the operands. *)
LEMMA HeapOwned ==
  ASSUME NEW m, NEW K, Owned(m, K), NEW g, Shape(g), NEW L,
         Range(m.operands) \cap L = {}, Held(g, "client") = Range(m.operands) \cup L
  PROVE  Owned(On(m, g), L) /\ On(m, g).operands = m.operands
  <1>1. IsMemory(On(m, g)) /\ On(m, g).heap = g /\ On(m, g).operands = m.operands
    BY OnParts DEF Owned
  <1> QED BY <1>1 DEF Owned

LEMMA PushOwned ==
  ASSUME NEW m, NEW K, Owned(m, K), NEW c \in K
  PROVE  /\ Owned(PushCell(m, c), K \ {c})
         /\ PushCell(m, c).heap = m.heap
         /\ Len(PushCell(m, c).operands) = Len(m.operands) + 1
  <1>1. c \in Cell /\ c \notin Range(m.operands)
    BY DEF Owned, Held
  <1>2. /\ IsMemory(PushCell(m, c)) /\ PushCell(m, c).heap = m.heap
        /\ PushCell(m, c).operands = Append(m.operands, c)
    BY PushParts DEF Owned
  <1>3. /\ Append(m.operands, c) \in Seq(Cell) /\ IsInjective(Append(m.operands, c))
        /\ Range(Append(m.operands, c)) = Range(m.operands) \cup {c}
        /\ Len(Append(m.operands, c)) = Len(m.operands) + 1
    BY <1>1, AppendDistinct DEF Owned
  <1> QED BY <1>2, <1>3 DEF Owned

LEMMA BelowOwned ==
  ASSUME NEW m, NEW K, Owned(m, K), NEW n \in 0..Len(m.operands)
  PROVE  /\ Owned(Below(m, n), K \cup Range(Popped(m, n)))
         /\ Below(m, n).heap = m.heap /\ Len(Below(m, n).operands) = Len(m.operands) - n
         /\ Popped(m, n) \in Seq(Cell) /\ IsInjective(Popped(m, n)) /\ Len(Popped(m, n)) = n
         /\ Range(Popped(m, n)) \cap K = {}
  <1> DEFINE above == SubSeq(m.operands, Len(m.operands) - n + 1, Len(m.operands))
             below == SubSeq(m.operands, 1, Len(m.operands) - n)
  <1>1. /\ below \in Seq(Cell) /\ IsInjective(below) /\ Len(below) = Len(m.operands) - n
        /\ above \in Seq(Cell) /\ IsInjective(above) /\ Len(above) = n
        /\ Range(below) \cup Range(above) = Range(m.operands)
        /\ Range(below) \cap Range(above) = {}
    BY SplitDistinct DEF Owned
  <1>2. Popped(m, n) = Reverse(above)
    BY DEF Popped
  <1>3. IsMemory(Below(m, n)) /\ Below(m, n).heap = m.heap /\ Below(m, n).operands = below
    BY BelowParts DEF Owned
  <1> HIDE DEF above, below
  <1>4. /\ Popped(m, n) \in Seq(Cell) /\ IsInjective(Popped(m, n)) /\ Len(Popped(m, n)) = n
        /\ Range(Popped(m, n)) = Range(above)
    BY <1>1, <1>2, ReverseDistinct
  <1> QED BY <1>1, <1>3, <1>4 DEF Owned

(* The topmost operand. *)
LEMMA TopOwned ==
  ASSUME NEW m, NEW K, Owned(m, K), Len(m.operands) >= 1
  PROVE  /\ Top(m) \in Range(m.operands) /\ Top(m) \in Cell /\ Top(m) \notin K
         /\ Owned(Below(m, 1), K \cup {Top(m)})
         /\ Below(m, 1).heap = m.heap /\ Len(Below(m, 1).operands) = Len(m.operands) - 1
  <1> DEFINE s == m.operands
             l == Len(s)
  <1>1. s \in Seq(Cell) /\ l \in Nat /\ DOMAIN s = 1..l /\ 1 \in 0..l /\ l \in 1..l
    BY LenProperties DEF Owned
  <1>2. Top(m) = s[l]
    BY DEF Top, Last
  <1>3. Popped(m, 1) = Reverse(SubSeq(s, l, l))
    BY <1>1 DEF Popped
  <1>4. SubSeq(s, l, l) \in Seq(Cell) /\ Len(SubSeq(s, l, l)) = 1 /\ SubSeq(s, l, l)[1] = s[l]
    <2>1. \A i \in l..l : s[i] \in Cell
      BY <1>1, ElementOfSeq
    <2> HIDE DEF s, l
    <2>2. l - l + 1 = 1 /\ l + 1 - 1 = l /\ l <= l
      BY <1>1
    <2>3. /\ SubSeq(s, l, l) \in Seq(Cell)
          /\ Len(SubSeq(s, l, l)) = IF l <= l THEN l - l + 1 ELSE 0
          /\ \A i \in 1..l - l + 1 : SubSeq(s, l, l)[i] = s[l + i - 1]
      BY <1>1, <2>1, SubSeqProperties
    <2> QED BY <2>2, <2>3
  <1>5. Range(Popped(m, 1)) = {Top(m)}
    <2> DEFINE a == SubSeq(s, l, l)
    <2> HIDE DEF a
    <2>1. Reverse(a) = [i \in 1..1 |-> a[(1 - i) + 1]]
      BY <1>4 DEF Reverse, a
    <2>2. Range(Reverse(a)) = {a[1]}
      BY <2>1 DEF Range
    <2> QED BY <1>2, <1>3, <1>4, <2>2 DEF a
  <1>6. Top(m) \in Range(s) /\ Top(m) \in Cell
    BY <1>1, <1>2, ElementOfSeq DEF Range
  <1>7. Top(m) \notin K
    BY <1>6 DEF Owned
  <1>8. /\ Owned(Below(m, 1), K \cup Range(Popped(m, 1)))
        /\ Below(m, 1).heap = m.heap /\ Len(Below(m, 1).operands) = Len(m.operands) - 1
    BY <1>1, BelowOwned
  <1> QED BY <1>5, <1>6, <1>7, <1>8

-----------------------------------------------------------------------------
(* What an operation of Heap takes from the client, and what it gives. *)

LEMMA MakeClients ==
  ASSUME NEW h, Shape(h), NEW c \in Cell, NEW w
  PROVE  Held(hvalue_make(h, c, w), "client") = Held(h, "client") \cup {c}
  <1>1. \A k \in Cell : hvalue_make(h, c, w).own[k] = IF k = c THEN "client" ELSE h.own[k]
    BY DEF hvalue_make, Shape, Good, Heap
  <1> QED BY <1>1 DEF Held

LEMMA RefClients ==
  ASSUME NEW h, Shape(h), NEW c \in Cell, NEW d \in Cell
  PROVE  Held(hvalue_ref(h, c, d), "client") = Held(h, "client") \cup {d}
  <1>1. \A k \in Cell : hvalue_ref(h, c, d).own[k] = IF k = d THEN "client" ELSE h.own[k]
    BY DEF hvalue_ref, Shape, Good, Heap
  <1> QED BY <1>1 DEF Held

LEMMA AllocClients ==
  ASSUME NEW h, Shape(h), NEW o \in Obj, NEW c \in Cell, NEW kind, NEW at, c \notin DOMAIN at
  PROVE  Held(Alloc(h, o, c, kind, at), "client") = (Held(h, "client") \ DOMAIN at) \cup {c}
  <1> DEFINE g == Alloc(h, o, c, kind, at)
  <1>1. \A k \in Cell : g.own[k] = IF k \in DOMAIN at THEN o
                                  ELSE IF k = c THEN "client" ELSE h.own[k]
    BY DEF Shape, Good, Heap, Alloc, Store
  <1>2. o # "client"
    BY HolderAssumption DEF Holder
  <1> HIDE DEF g
  <1>3. \A k \in Cell : g.own[k] = "client" <=> k = c \/ (k \notin DOMAIN at /\ h.own[k] = "client")
    BY <1>1, <1>2
  <1> QED BY <1>3 DEF Held, g

LEMMA StoreClients ==
  ASSUME NEW h, Shape(h), NEW o \in Obj, NEW at
  PROVE  Held(Store(h, o, at), "client") = Held(h, "client") \ DOMAIN at
  <1> DEFINE g == Store(h, o, at)
  <1>1. \A k \in Cell : g.own[k] = IF k \in DOMAIN at THEN o ELSE h.own[k]
    BY DEF Shape, Good, Heap, Store
  <1>2. o # "client"
    BY HolderAssumption DEF Holder
  <1> HIDE DEF g
  <1> QED BY <1>1, <1>2 DEF Held, g

LEMMA TakeClients ==
  ASSUME NEW h, Shape(h), NEW o
  PROVE  Held(TakeArgs(h, o), "client") = Held(h, "client") \cup Args(h, o)
  <1>1. \A k \in Cell : TakeArgs(h, o).own[k] = IF k \in Args(h, o) THEN "client" ELSE h.own[k]
    BY DEF Shape, Good, Heap, TakeArgs
  <1> QED BY <1>1 DEF Held, Args

Given(h, cs, who) == [h EXCEPT !.own = [c \in Cell |-> IF c \in cs THEN who ELSE @[c]]]

LEMMA GivenShape ==
  ASSUME NEW h, Shape(h), NEW cs, cs \subseteq Held(h, "client") \cup {Blank},
         NEW who \in {"dropping", "lost"}
  PROVE  /\ Shape(Given(h, cs, who))
         /\ Held(Given(h, cs, who), "client") = Held(h, "client") \ cs
  <1> DEFINE g == Given(h, cs, who)
  <1>1. /\ g \in Heap /\ g.ref = h.ref /\ g.rc = h.rc /\ g.kind = h.kind /\ g.slot = h.slot
        /\ \A k \in Cell : g.own[k] = IF k \in cs THEN who ELSE h.own[k]
    BY DEF Shape, Good, Heap, Holder, Given
  <1>2. \A k \in Cell : k \in cs => h.own[k] = "client"
    BY BlankAssumption DEF Held
  <1>3. who # "client" /\ who \notin Obj /\ "client" \notin Obj
    BY HolderAssumption DEF Holder
  <1> HIDE DEF g
  <1>4. Good(g)
    BY <1>1, MoveGood DEF Shape
  <1>5. AcyclicIn(g)
    BY <1>1, <1>3, MoveAcyclic DEF Shape
  <1>6. NumberedIn(g)
    BY <1>1, <1>2, <1>3, MoveNumbered DEF Shape
  <1>7. Held(g, "client") = Held(h, "client") \ cs
    BY <1>1, <1>3 DEF Held
  <1> QED BY <1>4, <1>5, <1>6, <1>7 DEF Shape, g

(* The fields of a live object. *)
LEMMA ArgFacts ==
  ASSUME NEW h, Shape(h), NEW o \in Obj, h.kind[o] # "free"
  PROVE  LET n == Cardinality(Args(h, o))
         IN /\ n \in Nat /\ Numbered(h, o, n) /\ (h.kind[o] \in Pairs => n = 2)
            /\ \A i \in 1..n : /\ ArgAt(h, o, i) \in Args(h, o) /\ ArgAt(h, o, i) \in Cell
                               /\ h.own[ArgAt(h, o, i)] = o /\ h.slot[ArgAt(h, o, i)] = i
            /\ \A k \in Args(h, o) : h.slot[k] \in 1..n /\ ArgAt(h, o, h.slot[k]) = k
  <1> DEFINE n == Cardinality(Args(h, o))
  <1>1. n \in Nat /\ Numbered(h, o, n) /\ (h.kind[o] \in Pairs => n = 2)
    <2>1. PICK m \in Nat : Numbered(h, o, m) /\ (h.kind[o] \in Pairs => m = 2)
      BY DEF Shape, NumberedIn, Live
    <2>2. n = m
      BY <2>1, NumberedCount DEF Shape
    <2> QED BY <2>1, <2>2
  <1> HIDE DEF n
  <1>2. Args(h, o) \subseteq Held(h, o) /\ Held(h, o) \subseteq Cell
    BY DEF Args, Held
  <1>3. ASSUME NEW i \in 1..n
        PROVE  /\ ArgAt(h, o, i) \in Args(h, o) /\ ArgAt(h, o, i) \in Cell
               /\ h.own[ArgAt(h, o, i)] = o /\ h.slot[ArgAt(h, o, i)] = i
    <2>1. PICK k \in Held(h, o) : h.slot[k] = i
      BY <1>1, <1>2 DEF Numbered
    <2>2. ArgAt(h, o, i) \in Held(h, o) /\ h.slot[ArgAt(h, o, i)] = i
      BY <2>1 DEF ArgAt
    <2> QED BY <1>1, <2>2 DEF Args, Held
  <1>4. ASSUME NEW k \in Args(h, o) PROVE h.slot[k] \in 1..n /\ ArgAt(h, o, h.slot[k]) = k
    <2>1. h.slot[k] \in 1..n
      BY <1>1 DEF Numbered
    <2>2. ArgAt(h, o, h.slot[k]) \in Held(h, o) /\ h.slot[ArgAt(h, o, h.slot[k])] = h.slot[k]
      BY <1>2, <1>3, <2>1
    <2> QED BY <1>1, <1>2, <2>1, <2>2 DEF Numbered
  <1> QED BY <1>1, <1>3, <1>4 DEF n

-----------------------------------------------------------------------------
(* What an operation of MachineHeap leaves of a memory. *)

LEMMA PushedOwned ==
  ASSUME NEW m, NEW K, Owned(m, K), NEW g, Shape(g),
         NEW d \in Cell, d \notin Range(m.operands), NEW L, d \notin L,
         Range(m.operands) \cap L = {}, Held(g, "client") = Range(m.operands) \cup L \cup {d}
  PROVE  /\ Owned(Push(m, g, d), L) /\ Len(Push(m, g, d).operands) = Len(m.operands) + 1
         /\ Push(m, g, d).operands = Append(m.operands, d)
  <1>1. Owned(On(m, g), L \cup {d}) /\ On(m, g).operands = m.operands
    <2>1. Held(g, "client") = Range(m.operands) \cup (L \cup {d})
      OBVIOUS
    <2>2. Range(m.operands) \cap (L \cup {d}) = {}
      OBVIOUS
    <2> QED BY <2>1, <2>2, HeapOwned
  <1>2. /\ Owned(PushCell(On(m, g), d), (L \cup {d}) \ {d})
        /\ Len(PushCell(On(m, g), d).operands) = Len(m.operands) + 1
    <2> DEFINE n == On(m, g)
               K1 == L \cup {d}
    <2>1. d \in K1
      OBVIOUS
    <2> HIDE DEF n, K1
    <2>2. Owned(PushCell(n, d), K1 \ {d}) /\ Len(PushCell(n, d).operands) = Len(n.operands) + 1
      BY <1>1, <2>1, PushOwned DEF n, K1
    <2> QED BY <1>1, <2>2 DEF n, K1
  <1>3. (L \cup {d}) \ {d} = L
    OBVIOUS
  <1>4. PushCell(On(m, g), d).operands = Append(m.operands, d)
    BY <1>1, PushParts DEF Owned
  <1> QED BY <1>2, <1>3, <1>4 DEF Push

(* An unused cell is none of the client's. *)
LEMMA UnusedApart ==
  ASSUME NEW m, NEW K, Owned(m, K), NEW d \in FreshCell(m.heap)
  PROVE  /\ d \in Cell /\ m.heap.own[d] = "unused" /\ d \notin Range(m.operands) /\ d \notin K
  <1>1. d \in Cell /\ m.heap.own[d] = "unused"
    BY FreshFacts
  <1> QED BY <1>1 DEF Owned, Held

LEMMA PushWordOwned ==
  ASSUME NEW m, NEW K, Owned(m, K), NEW w \in Word, NEW r \in PushWord(m, w)
  PROVE  Owned(r, K) /\ Len(r.operands) = Len(m.operands) + 1
  <1>1. PICK d \in FreshCell(m.heap) : r = Push(m, hvalue_make(m.heap, d, w), d)
    BY DEF PushWord
  <1>2. /\ d \in Cell /\ m.heap.own[d] = "unused" /\ d \notin Range(m.operands) /\ d \notin K
    BY UnusedApart
  <1> DEFINE g == hvalue_make(m.heap, d, w)
  <1>3. Shape(g) /\ Held(g, "client") = Range(m.operands) \cup K \cup {d}
    BY <1>2, MakeShape, MakeClients DEF Owned
  <1>4. Range(m.operands) \cap K = {}
    BY DEF Owned
  <1> HIDE DEF g
  <1>5. Owned(Push(m, g, d), K) /\ Len(Push(m, g, d).operands) = Len(m.operands) + 1
    BY <1>2, <1>3, <1>4, PushedOwned
  <1> QED BY <1>1, <1>5 DEF g

LEMMA PushRefOwned ==
  ASSUME NEW m, NEW K, Owned(m, K), NEW c \in Cell, NEW r \in PushRef(m, c)
  PROVE  Owned(r, K) /\ Len(r.operands) = Len(m.operands) + 1
  <1>1. PICK d \in FreshCell(m.heap) : r = Push(m, hvalue_ref(m.heap, c, d), d)
    BY DEF PushRef
  <1>2. /\ d \in Cell /\ m.heap.own[d] = "unused" /\ d \notin Range(m.operands) /\ d \notin K
    BY UnusedApart
  <1> DEFINE g == hvalue_ref(m.heap, c, d)
  <1>3. Shape(g) /\ Held(g, "client") = Range(m.operands) \cup K \cup {d}
    BY <1>2, RefShape, RefClients DEF Owned
  <1>4. Range(m.operands) \cap K = {}
    BY DEF Owned
  <1> HIDE DEF g
  <1>5. Owned(Push(m, g, d), K) /\ Len(Push(m, g, d).operands) = Len(m.operands) + 1
    BY <1>2, <1>3, <1>4, PushedOwned
  <1> QED BY <1>1, <1>5 DEF g

(* Cells of the client in a row, as the fields of an object. *)
LEMMA RowFields ==
  ASSUME NEW row \in Seq(Cell), IsInjective(row), NEW n \in Nat
  PROVE  /\ row \in DistinctSeqs(Range(row)) /\ Range(row) \subseteq Cell
         /\ DOMAIN Fields(row, n + 1) = Range(row)
         /\ NextFields(Fields(row, n + 1), n, Len(row))
  <1>1. Len(row) \in Nat /\ row \in [1..Len(row) -> Range(row)] /\ DOMAIN row = 1..Len(row)
    BY SeqOfRange, LenProperties
  <1>2. row \in DistinctSeqs(Range(row))
    BY <1>1 DEF DistinctSeqs, IsInjective
  <1>3. Range(row) \subseteq Cell
    BY RangeOfSeq
  <1>4. /\ DOMAIN Fields(row, n + 1) = Range(row)
        /\ NextFields(Fields(row, n + 1), n, Len(row))
    <2> DEFINE l == Len(row)
               S == Range(row)
    <2>1. \A i, j \in 1..l : row[i] = row[j] => i = j
      BY <1>1 DEF IsInjective
    <2> HIDE DEF l, S
    <2>2. DOMAIN Fields(row, n + 1) = Range(row) /\ NextFields(Fields(row, n + 1), n, l)
      BY <1>1, <2>1, FieldsNext DEF l, S
    <2> QED BY <2>2 DEF l
  <1> QED BY <1>2, <1>3, <1>4

LEMMA NewParts ==
  ASSUME NEW m, NEW kind, NEW data, NEW row, NEW r \in PushNew(m, kind, data, row)
  PROVE  \E o \in FreshObj(m.heap), c \in FreshCell(m.heap) :
           r = Placed(m, kind, data, row, o, c)
  BY SMT DEF PushNew

(* r has one operand more than m. *)
Pushed(m, r) ==
  /\ Len(r.operands) = Len(m.operands) + 1
  /\ \E c \in Cell : r.operands = Append(m.operands, c)

LEMMA PushNewOwned ==
  ASSUME NEW m, NEW K, Owned(m, K), NEW kind \in Kind \ {"free"}, NEW data,
         NEW row \in Seq(Cell), IsInjective(row), Range(row) \subseteq K,
         kind \in Pairs => Len(row) = 2, NEW r \in PushNew(m, kind, data, row)
  PROVE  Owned(r, K \ Range(row)) /\ Pushed(m, r)
  <1>1. PICK o \in FreshObj(m.heap), c \in FreshCell(m.heap) :
          r = Placed(m, kind, data, row, o, c)
    BY NewParts
  <1>2. /\ o \in Obj /\ m.heap.kind[o] = "free" /\ c \in Cell /\ m.heap.own[c] = "unused"
        /\ c \notin Range(m.operands) /\ c \notin K
    BY FreshFacts, UnusedApart
  <1> DEFINE at == Fields(row, 1)
             g == Alloc(m.heap, o, c, kind, at)
  <1>3. /\ Range(row) \subseteq Cell /\ DOMAIN at = Range(row) /\ NextFields(at, 0, Len(row))
        /\ Len(row) \in Nat
    <2>1. 0 \in Nat /\ 0 + 1 = 1
      OBVIOUS
    <2>2. DOMAIN Fields(row, 0 + 1) = Range(row) /\ NextFields(Fields(row, 0 + 1), 0, Len(row))
      BY <2>1, RowFields
    <2>3. DOMAIN Fields(row, 1) = Range(row) /\ NextFields(Fields(row, 1), 0, Len(row))
      BY <2>1, <2>2, Zenon
    <2> QED BY <2>3, RangeOfSeq, LenProperties
  <1>4. \A k \in DOMAIN at : m.heap.own[k] = "client"
    BY <1>3 DEF Owned, Held
  <1> HIDE DEF at
  <1>5. Shape(g)
    BY <1>2, <1>3, <1>4, AllocShape DEF Owned
  <1>6. Held(g, "client") = (Held(m.heap, "client") \ Range(row)) \cup {c}
    <2>1. c \notin DOMAIN at /\ DOMAIN at = Range(row) /\ Shape(m.heap)
      BY <1>2, <1>3 DEF Owned
    <2>2. Held(g, "client") = (Held(m.heap, "client") \ DOMAIN at) \cup {c}
      BY <1>2, <2>1, AllocClients DEF g
    <2> HIDE DEF g
    <2> QED BY <2>1, <2>2
  <1> HIDE DEF g
  <1> DEFINE L == K \ Range(row)
  <1>7. /\ Held(g, "client") = Range(m.operands) \cup L \cup {c}
        /\ Range(m.operands) \cap L = {} /\ c \notin L
    BY <1>2, <1>6 DEF Owned
  <1> HIDE DEF L
  <1>8. /\ Owned(Push(m, g, c), L) /\ Len(Push(m, g, c).operands) = Len(m.operands) + 1
        /\ Push(m, g, c).operands = Append(m.operands, c)
    BY <1>2, <1>5, <1>7, PushedOwned
  <1>9. /\ IsMemory(r) /\ r.heap = Push(m, g, c).heap /\ r.operands = Push(m, g, c).operands
    <2> DEFINE n == Push(m, g, c)
    <2>1. IsMemory(n)
      BY <1>8 DEF Owned
    <2>2. r = [n EXCEPT !.data[o] = data]
      BY <1>1 DEF g, at, Placed
    <2> HIDE DEF n
    <2>3. /\ IsMemory([n EXCEPT !.data[o] = data])
          /\ [n EXCEPT !.data[o] = data].heap = n.heap
          /\ [n EXCEPT !.data[o] = data].operands = n.operands
      BY <2>1, DataParts
    <2>4. IsMemory(r) /\ r.heap = n.heap /\ r.operands = n.operands
      BY <2>2, <2>3, Zenon
    <2> QED BY <2>4 DEF n
  <1>10. Owned(r, L)
    BY <1>8, <1>9 DEF Owned
  <1> QED BY <1>2, <1>8, <1>9, <1>10 DEF L, Pushed

(* The new HValue is kept in a C variable. *)
LEMMA KeepOwned ==
  ASSUME NEW m, NEW K, Owned(m, K), NEW r, NEW L, Owned(r, L),
         NEW c \in Cell, r.operands = Append(m.operands, c)
  PROVE  /\ Owned([r EXCEPT !.operands = m.operands], L \cup {c})
         /\ Top(r) = c /\ c \notin L
         /\ [r EXCEPT !.operands = m.operands].operands = m.operands
  <1> DEFINE g == [r EXCEPT !.operands = m.operands]
  <1>1. IsMemory(g) /\ g.heap = r.heap /\ g.operands = m.operands
    <2>1. IsMemory(r)
      BY DEF Owned
    <2> QED BY <2>1, OperandsParts
  <1> HIDE DEF g
  <1>2. /\ Append(m.operands, c) \in Seq(Cell)
        /\ Len(Append(m.operands, c)) = Len(m.operands) + 1 /\ Len(m.operands) \in Nat
        /\ \A i \in 1..Len(m.operands) : Append(m.operands, c)[i] = m.operands[i]
        /\ Append(m.operands, c)[Len(m.operands) + 1] = c
    BY AppendProperties, LenProperties DEF Owned
  <1>3. Top(r) = c
    BY <1>2 DEF Top, Last
  <1>4. Range(r.operands) = Range(m.operands) \cup {c} /\ c \notin Range(m.operands)
    <2>1. DOMAIN m.operands = 1..Len(m.operands) /\ DOMAIN r.operands = 1..Len(m.operands) + 1
      BY <1>2, LenProperties DEF Owned
    <2>2. 1..Len(m.operands) + 1 = 1..Len(m.operands) \cup {Len(m.operands) + 1}
      BY <1>2
    <2>3. Range(r.operands) = Range(m.operands) \cup {c}
      BY <1>2, <2>1, <2>2 DEF Range
    <2>4. \A i \in 1..Len(m.operands) : i # Len(m.operands) + 1
      BY <1>2
    <2>5. \A i \in 1..Len(m.operands) : r.operands[i] # c
      BY <1>2, <2>1, <2>2, <2>4 DEF Owned, IsInjective
    <2>6. c \notin Range(m.operands)
      BY <1>2, <2>1, <2>5 DEF Range
    <2> QED BY <2>3, <2>6
  <1>5. Owned(g, L \cup {c}) /\ c \notin L
    BY <1>1, <1>4 DEF Owned
  <1> QED BY <1>1, <1>3, <1>5 DEF g

LEMMA GiveOwned ==
  ASSUME NEW m, NEW K, Owned(m, K), NEW cs, cs \subseteq K \cup {Blank},
         NEW who \in {"dropping", "lost"}
  PROVE  /\ Owned(Give(m, cs, who), K \ cs) /\ Give(m, cs, who).operands = m.operands
  <1> DEFINE g == Given(m.heap, cs, who)
             L == K \ cs
  <1>1. Shape(g) /\ Held(g, "client") = Held(m.heap, "client") \ cs
    BY GivenShape DEF Owned
  <1>2. /\ Range(m.operands) \cap L = {} /\ Held(g, "client") = Range(m.operands) \cup L
    BY <1>1, BlankAssumption, RangeOfSeq DEF Owned
  <1> HIDE DEF g, L
  <1>3. Owned(On(m, g), L) /\ On(m, g).operands = m.operands
    BY <1>1, <1>2, HeapOwned
  <1> QED BY <1>3 DEF Give, Given, g, L

(* A field is freed, whoever waits for it. *)
LEMMA DropOwned ==
  ASSUME NEW m, NEW K, Owned(m, K), NEW c \in Cell, m.heap.own[c] = "dropping"
  PROVE  Owned(On(m, hvalue_drop(m.heap, c)), K)
  <1> DEFINE g == hvalue_drop(m.heap, c)
  <1>1. m.heap.own[c] \notin Obj
    BY HolderAssumption DEF Holder
  <1>2. Shape(g) /\ Held(g, "client") = Held(m.heap, "client") \ {c}
    BY <1>1, DropShape, DropClients DEF Owned
  <1>3. /\ Held(g, "client") = Range(m.operands) \cup K /\ Range(m.operands) \cap K = {}
    BY <1>2 DEF Owned, Held
  <1> HIDE DEF g
  <1>4. Owned(On(m, g), K)
    BY <1>2, <1>3, HeapOwned
  <1> QED BY <1>4 DEF g

-----------------------------------------------------------------------------
(* What an operation leaves of the objects there were: in g, the objects of *)
(* m but those of X are what they are in m.                                *)

Kept(m, g, X) ==
  \A o \in Live(m.heap) \ X : Untouched(m.heap, g.heap, o) /\ g.data[o] = m.data[o]

LEMMA KeptTwice ==
  ASSUME NEW l, NEW m, NEW n, NEW X, Kept(l, m, X), Kept(m, n, X)
  PROVE  Kept(l, n, X)
  <1> SUFFICES ASSUME NEW o \in Live(l.heap) \ X
               PROVE  Untouched(l.heap, n.heap, o) /\ n.data[o] = l.data[o]
    BY DEF Kept
  <1>1. Untouched(l.heap, m.heap, o) /\ m.data[o] = l.data[o]
    BY DEF Kept
  <1>2. o \in Live(m.heap)
    BY <1>1 DEF Live, Untouched
  <1>3. Untouched(m.heap, n.heap, o) /\ n.data[o] = m.data[o]
    BY <1>2 DEF Kept
  <1> QED BY <1>1, <1>3, UntouchedTwice

LEMMA KeptSame ==
  ASSUME NEW m, NEW g, g.heap = m.heap, g.data = m.data, NEW X
  PROVE  Kept(m, g, X)
  BY DEF Kept, Untouched, SameFields

LEMMA OnKept ==
  ASSUME NEW m, IsMemory(m), NEW g, NEW X,
         \A o \in Live(m.heap) \ X : Untouched(m.heap, g, o)
  PROVE  Kept(m, On(m, g), X)
  <1>1. On(m, g).heap = g /\ On(m, g).data = m.data
    BY OnParts
  <1> QED BY <1>1 DEF Kept

LEMMA OperandsKept ==
  ASSUME NEW m, IsMemory(m), NEW s, NEW X
  PROVE  Kept(m, [m EXCEPT !.operands = s], X)
  <1>1. /\ [m EXCEPT !.operands = s].heap = m.heap
        /\ [m EXCEPT !.operands = s].data = m.data
    BY OperandsParts
  <1> QED BY <1>1, KeptSame

LEMMA CellKept ==
  ASSUME NEW m, IsMemory(m), NEW c, NEW X
  PROVE  Kept(m, PushCell(m, c), X)
  BY PushParts, KeptSame

LEMMA BelowKept ==
  ASSUME NEW m, IsMemory(m), NEW n, NEW X
  PROVE  Kept(m, Below(m, n), X)
  BY BelowParts, KeptSame

LEMMA PushedKept ==
  ASSUME NEW m, IsMemory(m), NEW g, NEW c, NEW X,
         \A o \in Live(m.heap) \ X : Untouched(m.heap, g, o)
  PROVE  Kept(m, Push(m, g, c), X)
  <1>1. Kept(m, On(m, g), X) /\ IsMemory(On(m, g))
    BY OnKept, OnParts
  <1>2. Kept(On(m, g), Push(m, g, c), X)
    BY <1>1, CellKept DEF Push
  <1> QED BY <1>1, <1>2, KeptTwice

LEMMA PushWordKept ==
  ASSUME NEW m, NEW K, Owned(m, K), NEW w \in Word, NEW r \in PushWord(m, w), NEW X
  PROVE  Kept(m, r, X)
  <1>1. PICK d \in FreshCell(m.heap) : r = Push(m, hvalue_make(m.heap, d, w), d)
    BY DEF PushWord
  <1>2. d \in Cell /\ m.heap.own[d] = "unused" /\ Shape(m.heap) /\ IsMemory(m)
    BY UnusedApart DEF Owned
  <1>3. \A o \in Obj : Untouched(m.heap, hvalue_make(m.heap, d, w), o)
    BY <1>2, MakeShape
  <1>4. \A o \in Live(m.heap) \ X : Untouched(m.heap, hvalue_make(m.heap, d, w), o)
    BY <1>3 DEF Live
  <1> QED BY <1>1, <1>2, <1>4, PushedKept

LEMMA PushRefKept ==
  ASSUME NEW m, NEW K, Owned(m, K), NEW c \in Cell, NEW r \in PushRef(m, c), NEW X
  PROVE  Kept(m, r, X)
  <1>1. PICK d \in FreshCell(m.heap) : r = Push(m, hvalue_ref(m.heap, c, d), d)
    BY DEF PushRef
  <1>2. d \in Cell /\ m.heap.own[d] = "unused" /\ Shape(m.heap) /\ IsMemory(m)
    BY UnusedApart DEF Owned
  <1>3. \A o \in Obj : Untouched(m.heap, hvalue_ref(m.heap, c, d), o)
    BY <1>2, RefShape
  <1>4. \A o \in Live(m.heap) \ X : Untouched(m.heap, hvalue_ref(m.heap, c, d), o)
    BY <1>3 DEF Live
  <1> QED BY <1>1, <1>2, <1>4, PushedKept

LEMMA PushNewKept ==
  ASSUME NEW m, NEW K, Owned(m, K), NEW kind, NEW data,
         NEW row \in Seq(Cell), IsInjective(row), Range(row) \subseteq K,
         NEW r \in PushNew(m, kind, data, row), NEW X
  PROVE  Kept(m, r, X)
  <1>1. PICK o \in FreshObj(m.heap), c \in FreshCell(m.heap) :
          r = Placed(m, kind, data, row, o, c)
    BY NewParts
  <1>2. /\ o \in Obj /\ m.heap.kind[o] = "free" /\ c \in Cell /\ m.heap.own[c] = "unused"
        /\ Shape(m.heap) /\ IsMemory(m)
    BY FreshFacts, UnusedApart DEF Owned
  <1> DEFINE at == Fields(row, 1)
             g == Alloc(m.heap, o, c, kind, at)
             n == Push(m, g, c)
  <1>3. DOMAIN at = Range(row) /\ Range(row) \subseteq Cell
    BY RangeOfSeq DEF Fields
  <1>4. \A k \in DOMAIN at : m.heap.own[k] \notin Obj
    BY <1>3, HolderAssumption DEF Owned, Held, Holder
  <1>5. \A p \in Obj : p # o => Untouched(m.heap, g, p)
    <2> HIDE DEF at
    <2> QED BY <1>2, <1>3, <1>4, AllocLeaves
  <1>6. r = [n EXCEPT !.data[o] = data]
    BY <1>1 DEF Placed
  <1> HIDE DEF at, g
  <1>7. \A p \in Live(m.heap) : p \in Obj /\ p # o
    BY <1>2 DEF Live
  <1>8. Kept(m, n, X) /\ IsMemory(n)
    <2>1. IsMemory(On(m, g))
      BY <1>2, OnParts
    <2>2. IsMemory(n)
      BY <2>1, PushParts DEF Push
    <2>3. \A p \in Live(m.heap) \ X : Untouched(m.heap, g, p)
      BY <1>5, <1>7
    <2> QED BY <1>2, <2>2, <2>3, PushedKept
  <1> HIDE DEF n
  <1>9. r.heap = n.heap /\ \A p \in Obj : p # o => r.data[p] = n.data[p]
    BY <1>6, <1>8, DataParts, OtherData
  <1> QED BY <1>7, <1>8, <1>9 DEF Kept

LEMMA GiveKept ==
  ASSUME NEW m, NEW K, Owned(m, K), NEW cs, cs \subseteq K \cup {Blank},
         NEW who \in {"dropping", "lost"}, NEW X
  PROVE  Kept(m, Give(m, cs, who), X)
  <1> DEFINE h == m.heap
             g == Given(h, cs, who)
  <1>1. /\ g.ref = h.ref /\ g.kind = h.kind /\ g.slot = h.slot
        /\ \A k \in Cell : g.own[k] = IF k \in cs THEN who ELSE h.own[k]
    BY DEF Owned, Shape, Good, Heap, Given
  <1>2. \A k \in Cell : k \in cs => h.own[k] = "client"
    BY BlankAssumption DEF Owned, Held
  <1>3. Give(m, cs, who) = On(m, g)
    BY DEF Give, Given
  <1> HIDE DEF g
  <1>4. \A o \in Obj : Untouched(h, g, o)
    BY <1>1, <1>2, HolderAssumption DEF Untouched, SameFields, Held, Holder
  <1>5. \A o \in Live(h) \ X : Untouched(h, g, o)
    BY <1>4 DEF Live
  <1> HIDE DEF h
  <1> QED BY <1>3, <1>5, OnKept DEF Owned, h

-----------------------------------------------------------------------------
(* An HValue that is applied. *)

LEMMA OneOfIn ==
  ASSUME NEW S, NEW x \in OneOf(S)
  PROVE  x \in S
  BY DEF OneOf

(* hvalue_uniq takes an HValue of the client, and gives it one whose object *)
(* nothing else refers to.                                                 *)
Uniquely(m, K, c, u) ==
  LET o == u.m.heap.ref[u.c]
  IN /\ Owned(u.m, (K \ {c}) \cup {u.c}) /\ u.m.operands = m.operands
     /\ u.c \in Cell /\ u.c \notin K \ {c}
     /\ o \in Obj /\ u.m.heap.kind[o] # "free" /\ u.m.heap.kind[o] = m.heap.kind[m.heap.ref[c]]
     /\ \A k \in Cell : u.m.heap.ref[k] = o => k = u.c

LEMMA UniqueOwned ==
  ASSUME CloneContract, NEW m, NEW K, Owned(m, K), NEW c \in K, m.heap.ref[c] \in Obj,
         NEW u \in Unique(m, c)
  PROVE  Uniquely(m, K, c, u)
  <1> DEFINE h == m.heap
             copy(x) == [On(m, x[1]) EXCEPT !.data[x[1].ref[x[2]]] = m.data[h.ref[c]]]
  <1>1. PICK x \in hvalue_uniq(h, c) : u = [m |-> copy(x), c |-> x[2]]
    <2>1. PICK x \in OneOf(hvalue_uniq(h, c)) : u = [m |-> copy(x), c |-> x[2]]
      BY DEF Unique
    <2>2. x \in hvalue_uniq(h, c)
      BY <2>1, OneOfIn
    <2> QED BY <2>1, <2>2
  <1> DEFINE g == x[1]
             d == x[2]
             o == g.ref[d]
             L == (K \ {c}) \cup {d}
  <1>2. Shape(h) /\ c \in Cell /\ h.own[c] = "client" /\ c \notin Range(m.operands)
    BY DEF Owned, Held
  <1>3. /\ Shape(g) /\ d \in Cell /\ g.own[d] = "client"
        /\ o \in Obj /\ g.kind[o] # "free" /\ g.kind[o] = h.kind[h.ref[c]]
        /\ \A k \in Cell : g.ref[k] = o => k = d
        /\ \A k \in Cell : h.own[k] = "client" /\ k # c => k # d /\ g.own[k] = "client"
        /\ \A k \in Cell : g.own[k] = "client" => k = d \/ (k # c /\ h.own[k] = "client")
    <2> HIDE DEF h
    <2> QED BY <1>1, <1>2, UniqShape DEF h
  <1>4. u.m = [On(m, g) EXCEPT !.data[o] = m.data[h.ref[c]]] /\ u.c = d
    BY <1>1
  <1>5. Held(g, "client") = (Held(h, "client") \ {c}) \cup {d}
    <2> HIDE DEF g, d, h
    <2> QED BY <1>3 DEF Held
  <1>6. Range(m.operands) \cup K = Held(h, "client") /\ Range(m.operands) \cap K = {}
    BY DEF Owned
  <1>7. d \notin K \ {c} /\ d \notin Range(m.operands)
    <2> SUFFICES ASSUME d \in (K \ {c}) \cup Range(m.operands) PROVE FALSE
      OBVIOUS
    <2> HIDE DEF g, d, h
    <2> QED BY <1>2, <1>3, <1>6 DEF Held
  <1> HIDE DEF g, d, o, h
  <1>8. Held(g, "client") = Range(m.operands) \cup L /\ Range(m.operands) \cap L = {}
    BY <1>2, <1>5, <1>6, <1>7
  <1> HIDE DEF L
  <1>9. Owned(On(m, g), L) /\ On(m, g).operands = m.operands /\ On(m, g).heap = g
    <2>1. On(m, g).heap = g
      BY OnParts DEF Owned
    <2> QED BY <1>3, <1>8, <2>1, HeapOwned
  <1>10. IsMemory(u.m) /\ u.m.heap = g /\ u.m.operands = m.operands
    <2> DEFINE n == On(m, g)
    <2>1. IsMemory(n) /\ n.heap = g /\ n.operands = m.operands
      BY <1>9 DEF Owned
    <2> HIDE DEF n
    <2>2. /\ IsMemory([n EXCEPT !.data[o] = m.data[h.ref[c]]])
          /\ [n EXCEPT !.data[o] = m.data[h.ref[c]]].heap = n.heap
          /\ [n EXCEPT !.data[o] = m.data[h.ref[c]]].operands = n.operands
      BY <2>1, DataParts
    <2> QED BY <1>4, <2>1, <2>2, Zenon DEF n
  <1>11. Owned(u.m, L)
    BY <1>9, <1>10 DEF Owned
  <1> QED BY <1>3, <1>4, <1>7, <1>10, <1>11 DEF Uniquely, L, o, h

(* hvalue_uniq leaves every object alone, and what it gives refers to a new *)
(* one or to one that nothing else refers to.                              *)
LEMMA UniqueKept ==
  ASSUME CloneContract, NEW m, NEW K, Owned(m, K), NEW c \in K, m.heap.ref[c] \in Obj,
         NEW u \in Unique(m, c), NEW X
  PROVE  /\ Kept(m, u.m, X)
         /\ u.m.heap.ref[u.c] \in Live(m.heap) =>
              Refs(m.heap, u.m.heap.ref[u.c]) = {c}
  <1> DEFINE h == m.heap
             s == h.ref[c]
  <1>1. PICK x \in hvalue_uniq(h, c) :
          u = [m |-> [On(m, x[1]) EXCEPT !.data[x[1].ref[x[2]]] = m.data[s]], c |-> x[2]]
    <2>1. PICK x \in OneOf(hvalue_uniq(h, c)) :
            u = [m |-> [On(m, x[1]) EXCEPT !.data[x[1].ref[x[2]]] = m.data[s]], c |-> x[2]]
      BY DEF Unique
    <2>2. x \in hvalue_uniq(h, c)
      BY <2>1, OneOfIn
    <2> QED BY <2>1, <2>2
  <1>2. /\ Shape(h) /\ IsMemory(m) /\ c \in Cell /\ h.own[c] = "client" /\ s \in Obj
        /\ h.kind[s] # "free" /\ \A p \in Obj : h.rc[p] \in Nat
    <2>1. Shape(h) /\ IsMemory(m) /\ c \in Cell /\ h.own[c] = "client"
      BY DEF Owned, Held
    <2> QED BY <2>1, FreeUnreferenced DEF Shape, Good, Heap
  <1> DEFINE f == x[1]
             d == x[2]
             n == f.ref[d]
             l == On(m, f)
  <1>3. u.m = [l EXCEPT !.data[n] = m.data[s]] /\ u.c = d
    BY <1>1
  <1>4. IsMemory(l) /\ l.heap = f /\ l.data = m.data
    BY <1>2, OnParts
  <1> HIDE DEF h, s, l
  <1>5. u.m.heap = f /\ \A p \in Obj : p # n => u.m.data[p] = m.data[p]
    <2> DEFINE y == m.data[s]
    <2> HIDE DEF y, n
    <2>1. u.m = [l EXCEPT !.data[n] = y]
      BY <1>3 DEF y
    <2>2. u.m.heap = f
      BY <1>4, <2>1, DataParts
    <2>3. \A p \in Obj : p # n => u.m.data[p] = l.data[p]
      BY <1>4, <2>1, OtherData
    <2> QED BY <1>4, <2>2, <2>3
  <1>6. CASE h.rc[s] <= 1
    <2>1. x = <<h, c>>
      BY <1>6 DEF hvalue_uniq, hvalue_is_uniq, s
    <2>2. f = h /\ d = c /\ n = s
      BY <2>1 DEF s
    <2>3. u.m.data = m.data
      <3>1. l.data = [o \in Obj |-> l.data[o]]
        BY <1>4 DEF IsMemory
      <3> DEFINE y == m.data[s]
      <3>2. l.data = [l.data EXCEPT ![n] = y]
        BY <1>4, <2>2, <3>1
      <3>3. u.m = [l EXCEPT !.data = [l.data EXCEPT ![n] = y]]
        BY <1>3
      <3> HIDE DEF y, n
      <3>4. u.m = [l EXCEPT !.data = l.data]
        BY <3>2, <3>3
      <3>5. u.m = l
        BY <1>4, <3>4 DEF IsMemory
      <3> QED BY <1>4, <3>5
    <2>4. Kept(m, u.m, X)
      BY <1>5, <2>2, <2>3, KeptSame DEF h
    <2>5. Refs(h, s) = {c}
      <3>1. \A k \in Cell : h.ref[k] = s => k = c
        BY <1>2, <1>6, OneReference DEF Shape, s
      <3> QED BY <1>2, <3>1 DEF Refs, s
    <2> QED BY <1>3, <1>5, <2>2, <2>4, <2>5 DEF h
  <1>7. CASE ~(h.rc[s] <= 1)
    <2>1. PICK v \in Clones(h, s) : x = <<hvalue_drop(v[1], c), v[2]>>
      BY <1>2, <1>7 DEF hvalue_uniq, hvalue_is_uniq, s
    <2> DEFINE g == v[1]
               z == g.ref[v[2]]
    <2>2. f = hvalue_drop(g, c) /\ d = v[2]
      BY <2>1
    <2>3. /\ d \in Cell /\ h.own[d] = "unused" /\ z \in Obj /\ h.rc[z] = 0
          /\ Copied(h, g, s, z, d)
      BY <1>2, <2>2, ClonesShape
    <2> HIDE DEF g, z, f, d
    <2>4. /\ Shape(g) /\ g.ref[d] = z /\ g.own[c] = "client" /\ g.ref[c] = s /\ d # c
          /\ \A p \in Obj : p # z => Untouched(h, g, p) /\ (h.rc[p] > 1 => g.rc[p] > 1)
          /\ g.own[d] = "client"
      BY <1>2, <2>3 DEF Copied, s
    <2>5. g.own[c] \notin Obj /\ g.own[d] \notin Obj
      BY <2>4, HolderAssumption DEF Holder
    <2>6. /\ f.ref[d] = z
          /\ \A p \in Obj : g.rc[p] > 1 \/ g.ref[c] # p => Untouched(g, f, p)
      BY <1>2, <2>2, <2>3, <2>4, <2>5, DropShape
    <2>7. ASSUME NEW p \in Live(h) PROVE p \in Obj /\ p # z /\ Untouched(h, f, p)
      <3>1. p \in Obj /\ h.kind[p] # "free"
        BY DEF Live
      <3>2. h.rc[p] # 0
        BY <1>2, <3>1 DEF Shape, Good, FreedAtZero
      <3>3. p # z /\ Untouched(h, g, p) /\ (h.rc[p] > 1 => g.rc[p] > 1)
        BY <2>3, <2>4, <3>1, <3>2
      <3>4. g.rc[p] > 1 \/ g.ref[c] # p
        BY <1>2, <1>7, <2>4, <3>3
      <3>5. Untouched(g, f, p)
        BY <2>6, <3>1, <3>4
      <3> QED BY <3>1, <3>3, <3>5, UntouchedTwice
    <2>8. n = z
      BY <2>6
    <2>9. Kept(m, u.m, X)
      BY <1>5, <2>7, <2>8 DEF Kept, h
    <2>10. z \notin Live(h)
      BY <2>7
    <2>11. u.m.heap.ref[u.c] = z
      BY <1>3, <1>5, <2>6
    <2> QED BY <2>9, <2>10, <2>11 DEF h
  <1> QED BY <1>6, <1>7

(* g is m with a row of the cells of K among the arguments of d. *)
PutIn(m, K, d, row, g) ==
  /\ Owned(g, K \ Range(row)) /\ g.operands = m.operands
  /\ g.heap.ref = m.heap.ref /\ g.heap.kind = m.heap.kind /\ g.data = m.data
  /\ \A p \in Obj : p # m.heap.ref[d] => Untouched(m.heap, g.heap, p)
  /\ Count(g, d) = Count(m, d) + Len(row)

LEMMA PutOwned ==
  ASSUME NEW m, NEW K, Owned(m, K), NEW d \in K, m.heap.ref[d] \in Obj,
         m.heap.kind[m.heap.ref[d]] # "free", m.heap.kind[m.heap.ref[d]] \notin Pairs,
         \A k \in Cell : m.heap.ref[k] = m.heap.ref[d] => k = d,
         NEW row \in Seq(Cell), IsInjective(row), Range(row) \subseteq K \ {d}
  PROVE  PutIn(m, K, d, row, WithArgs(m, d, row))
  <1> DEFINE h == m.heap
             o == h.ref[d]
             n == Cardinality(Args(h, o))
             at == Fields(row, n + 1)
             g == PutArgs(h, o, row)
             L == K \ Range(row)
  <1>1. /\ Shape(h) /\ IsMemory(m) /\ d \in Cell /\ h.own[d] = "client"
        /\ \A k \in Range(row) : k \in Cell /\ h.own[k] = "client"
        /\ Range(row) \subseteq Cell /\ d \notin Range(row)
    BY DEF Owned, Held
  <1>2. n \in Nat /\ Numbered(h, o, n)
    <2> HIDE DEF h, o
    <2>1. h.kind[o] # "free" /\ o \in Obj
      BY DEF h, o
    <2> QED BY <1>1, <2>1, ArgFacts
  <1>3. g = Store(h, o, at)
    BY DEF PutArgs
  <1>4. /\ row \in DistinctSeqs(Range(row)) /\ DOMAIN at = Range(row)
        /\ NextFields(at, n, Len(row)) /\ Len(row) \in Nat
    <2> HIDE DEF n
    <2> QED BY <1>2, RowFields, LenProperties
  <1>5. Filled(h, g, o, d)
    <2>1. h.kind[o] # "free" /\ h.kind[o] \notin Pairs /\ \A k \in Cell : h.ref[k] = o => k = d
      OBVIOUS
    <2> HIDE DEF h
    <2> QED BY <1>1, <1>4, <2>1, PutArgsShape DEF h
  <1>6. Held(g, "client") = Held(h, "client") \ Range(row)
    <2> HIDE DEF g, at, o, h
    <2>1. o \in Obj
      BY DEF o, h
    <2> QED BY <1>1, <1>3, <1>4, <2>1, StoreClients
  <1>7. Numbered(g, o, n + Len(row))
    <2>1. \A k \in DOMAIN at : h.own[k] \notin Obj
      BY <1>1, <1>4, HolderAssumption DEF Holder
    <2> HIDE DEF at, n, o, h, g
    <2>2. o \in Obj /\ Good(h)
      BY <1>1 DEF o, h, Shape
    <2> QED BY <1>1, <1>2, <1>3, <1>4, <2>1, <2>2, StoreNumbered
  <1>8. Cardinality(Args(g, o)) = n + Len(row)
    <2> HIDE DEF n, o, h, g
    <2> QED BY <1>5, <1>7, NumberedCount DEF Filled, Shape
  <1>9. Range(m.operands) \cap L = {} /\ Held(g, "client") = Range(m.operands) \cup L
    <2> HIDE DEF g
    <2> QED BY <1>6 DEF Owned
  <1>10. WithArgs(m, d, row) = On(m, g)
    BY DEF WithArgs
  <1>11. /\ Shape(g) /\ g.ref = h.ref /\ g.kind = h.kind
         /\ \A p \in Obj : p # o => Untouched(h, g, p)
    BY <1>5 DEF Filled
  <1> HIDE DEF n, g, L
  <1>12. /\ Owned(On(m, g), L) /\ On(m, g).operands = m.operands /\ On(m, g).heap = g
         /\ On(m, g).data = m.data
    BY <1>1, <1>9, <1>11, HeapOwned, OnParts
  <1> QED BY <1>8, <1>10, <1>11, <1>12 DEF L, n, Count, PutIn

LEMMA PutKept ==
  ASSUME NEW m, NEW K, NEW d, NEW row, NEW g, PutIn(m, K, d, row, g),
         NEW X, m.heap.ref[d] \in X
  PROVE  Kept(m, g, X)
  BY DEF PutIn, Kept, Live

(* The arguments of an object, in the order a closure hands them back. *)
LEMMA TakenFacts ==
  ASSUME NEW m, Shape(m.heap), NEW d, m.heap.ref[d] \in Obj,
         m.heap.kind[m.heap.ref[d]] # "free"
  PROVE  /\ TakenArgs(m, d) \in Seq(Cell) /\ IsInjective(TakenArgs(m, d))
         /\ Range(TakenArgs(m, d)) = Args(m.heap, m.heap.ref[d])
  <1> DEFINE h == m.heap
             o == h.ref[d]
             n == Count(m, d)
             s == [i \in 1..n |-> Field(m, d, i)]
  <1>1. /\ n \in Nat
        /\ \A i \in 1..n : /\ Field(m, d, i) \in Args(h, o) /\ Field(m, d, i) \in Cell
                           /\ h.slot[Field(m, d, i)] = i
        /\ \A k \in Args(h, o) : h.slot[k] \in 1..n /\ Field(m, d, h.slot[k]) = k
    BY ArgFacts DEF Count, Field
  <1> HIDE DEF h, o, n
  <1>2. DOMAIN s = 1..n /\ s \in Seq(Cell)
    BY <1>1
  <1>3. IsInjective(s)
    BY <1>1 DEF IsInjective
  <1>4. Range(s) = Args(h, o)
    BY <1>1 DEF Range
  <1>5. TakenArgs(m, d) = Reverse(s)
    BY DEF TakenArgs, n
  <1> HIDE DEF s
  <1> QED BY <1>2, <1>3, <1>4, <1>5, ReverseDistinct DEF h, o

LEMMA ConcatOwned ==
  ASSUME NEW m, NEW K, Owned(m, K), NEW row \in Seq(Cell), IsInjective(row), Range(row) \subseteq K
  PROVE  Owned([m EXCEPT !.operands = @ \o row], K \ Range(row))
  <1> DEFINE s == m.operands \o row
             g == [m EXCEPT !.operands = s]
  <1>1. s \in Seq(Cell) /\ IsInjective(s) /\ Range(s) = Range(m.operands) \cup Range(row)
    BY ConcatDistinct DEF Owned
  <1>2. IsMemory(g) /\ g.heap = m.heap /\ g.operands = s
    <2> HIDE DEF s
    <2> QED BY OperandsParts DEF Owned
  <1>3. g = [m EXCEPT !.operands = @ \o row]
    OBVIOUS
  <1> HIDE DEF g, s
  <1>4. Owned(g, K \ Range(row))
    BY <1>1, <1>2 DEF Owned
  <1> QED BY <1>3, <1>4

LEMMA EnterOwned ==
  ASSUME NEW m, NEW K, Owned(m, K), NEW d \in K, m.heap.ref[d] \in Obj,
         m.heap.kind[m.heap.ref[d]] # "free", m.heap.kind[m.heap.ref[d]] \notin Pairs
  PROVE  Owned(EnterClosure(m, d), K \ {d})
  <1> DEFINE h == m.heap
             o == h.ref[d]
             row == TakenArgs(m, d)
             g == TakeArgs(h, o)
             n == On(m, g)
             e == [n EXCEPT !.operands = @ \o row]
  <1>1. Shape(h) /\ IsMemory(m) /\ Range(m.operands) \cup K = Held(h, "client")
        /\ Range(m.operands) \cap K = {}
    BY DEF Owned
  <1>2. row \in Seq(Cell) /\ IsInjective(row) /\ Range(row) = Args(h, o)
    BY <1>1, TakenFacts
  <1>3. Shape(g) /\ Held(g, "client") = Held(h, "client") \cup Range(row)
    <2> HIDE DEF row, h
    <2> QED BY <1>1, <1>2, TakeArgsShape, TakeClients DEF h
  <1>4. Held(h, "client") \cap Range(row) = {}
    BY <1>2, HolderAssumption DEF Args, Held, Holder
  <1> HIDE DEF g, row
  <1>5. Owned(n, K \cup Range(row))
    BY <1>1, <1>3, <1>4, HeapOwned
  <1> HIDE DEF n
  <1>6. Owned(e, (K \cup Range(row)) \ Range(row))
    BY <1>2, <1>5, ConcatOwned
  <1>7. (K \cup Range(row)) \ Range(row) = K
    BY <1>1, <1>4
  <1> HIDE DEF e
  <1>8. Owned(e, K)
    BY <1>6, <1>7
  <1>9. Owned(Give(e, {d}, "dropping"), K \ {d})
    BY <1>8, GiveOwned
  <1> QED BY <1>9 DEF EnterClosure, Drop, e, n, g, row, h, o

LEMMA EnterKept ==
  ASSUME NEW m, NEW K, Owned(m, K), NEW d \in K, m.heap.ref[d] \in Obj,
         m.heap.kind[m.heap.ref[d]] # "free", m.heap.kind[m.heap.ref[d]] \notin Pairs,
         NEW X, m.heap.ref[d] \in X
  PROVE  Kept(m, EnterClosure(m, d), X)
  <1> DEFINE h == m.heap
             o == h.ref[d]
             row == TakenArgs(m, d)
             g == TakeArgs(h, o)
             n == On(m, g)
             e == [n EXCEPT !.operands = @ \o row]
  <1>1. Shape(h) /\ IsMemory(m) /\ Range(m.operands) \cup K = Held(h, "client")
        /\ Range(m.operands) \cap K = {}
    BY DEF Owned
  <1>2. row \in Seq(Cell) /\ IsInjective(row) /\ Range(row) = Args(h, o)
    BY <1>1, TakenFacts
  <1>3. /\ Shape(g) /\ Held(g, "client") = Held(h, "client") \cup Range(row)
        /\ \A p \in Obj : p # o => Untouched(h, g, p)
    <2> HIDE DEF row, h
    <2> QED BY <1>1, <1>2, TakeArgsShape, TakeClients DEF h
  <1>4. Held(h, "client") \cap Range(row) = {}
    BY <1>2, HolderAssumption DEF Args, Held, Holder
  <1>5. Kept(m, n, X)
    <2>1. \A p \in Live(m.heap) \ X : Untouched(m.heap, g, p)
      BY <1>3 DEF Live
    <2> HIDE DEF g
    <2> QED BY <1>1, <2>1, OnKept
  <1> HIDE DEF g, row
  <1>6. Owned(n, K \cup Range(row))
    BY <1>1, <1>3, <1>4, HeapOwned
  <1> HIDE DEF n
  <1>7. Owned(e, (K \cup Range(row)) \ Range(row))
    BY <1>2, <1>6, ConcatOwned
  <1>8. Kept(n, e, X)
    <2>1. IsMemory(n)
      BY <1>6 DEF Owned
    <2> QED BY <2>1, OperandsKept
  <1>9. {d} \subseteq ((K \cup Range(row)) \ Range(row)) \cup {Blank}
    BY <1>1, <1>4
  <1> HIDE DEF e
  <1>10. Kept(e, Give(e, {d}, "dropping"), X)
    BY <1>7, <1>9, GiveKept
  <1>11. Kept(m, Give(e, {d}, "dropping"), X)
    BY <1>5, <1>8, <1>10, KeptTwice
  <1> QED BY <1>11 DEF EnterClosure, Drop, e, n, g, row, h, o

-----------------------------------------------------------------------------
(* Lists. *)

LEMMA ConsFields ==
  ASSUME NEW m, Shape(m.heap), NEW c, Is(m, c, {"cons"})
  PROVE  /\ Field(m, c, 1) \in Cell /\ Field(m, c, 2) \in Cell
         /\ m.heap.own[Field(m, c, 2)] = m.heap.ref[c]
         /\ m.heap.ref[c] \in Live(m.heap)
  <1> DEFINE o == m.heap.ref[c]
  <1>1. o \in Obj /\ m.heap.kind[o] = "cons"
    BY DEF Is
  <1>2. m.heap.kind[o] # "free" /\ m.heap.kind[o] \in Pairs
    BY <1>1 DEF Pairs
  <1> HIDE DEF o
  <1>3. \A i \in 1..2 : ArgAt(m.heap, o, i) \in Cell /\ m.heap.own[ArgAt(m.heap, o, i)] = o
    BY <1>1, <1>2, ArgFacts
  <1> QED BY <1>1, <1>2, <1>3 DEF Field, Live, o

LEMMA MakeConsOwned ==
  ASSUME NEW m, NEW K, Owned(m, K), Len(m.operands) >= 2, NEW r \in MakeCons(m)
  PROVE  Owned(r, K) /\ Len(r.operands) = Len(m.operands) - 1
  <1> DEFINE b == Below(m, 2)
             row == Popped(m, 2)
             L == K \cup Range(row)
  <1>1. 2 \in 0..Len(m.operands) /\ Len(m.operands) \in Nat
    BY LenProperties DEF Owned
  <1>2. /\ Owned(b, L) /\ Len(b.operands) = Len(m.operands) - 2
        /\ row \in Seq(Cell) /\ IsInjective(row) /\ Len(row) = 2 /\ Range(row) \cap K = {}
    <2> HIDE DEF b, row, L
    <2> QED BY <1>1, BelowOwned DEF b, row, L
  <1>3. r \in PushNew(b, "cons", NoData, row)
    BY DEF MakeCons
  <1>4. "cons" \in Kind \ {"free"} /\ Range(row) \subseteq L
    BY DEF Kind
  <1> HIDE DEF b, row, L
  <1>5. Owned(r, L \ Range(row)) /\ Len(r.operands) = Len(b.operands) + 1
    <2>1. Owned(r, L \ Range(row)) /\ Pushed(b, r)
      BY <1>2, <1>3, <1>4, PushNewOwned
    <2> QED BY <2>1 DEF Pushed
  <1>6. L \ Range(row) = K
    BY <1>2 DEF L
  <1>7. Owned(r, K)
    BY <1>5, <1>6, Zenon
  <1>8. Len(r.operands) = Len(m.operands) - 1
    BY <1>1, <1>2, <1>5
  <1> QED BY <1>7, <1>8

LEMMA MakeConsKept ==
  ASSUME NEW m, NEW K, Owned(m, K), Len(m.operands) >= 2, NEW r \in MakeCons(m), NEW X
  PROVE  Kept(m, r, X)
  <1> DEFINE b == Below(m, 2)
             row == Popped(m, 2)
             L == K \cup Range(row)
  <1>1. 2 \in 0..Len(m.operands) /\ IsMemory(m)
    BY LenProperties DEF Owned
  <1>2. Owned(b, L) /\ row \in Seq(Cell) /\ IsInjective(row)
    <2> HIDE DEF b, row, L
    <2> QED BY <1>1, BelowOwned DEF b, row, L
  <1>3. Kept(m, b, X)
    BY <1>1, BelowKept
  <1>4. r \in PushNew(b, "cons", NoData, row) /\ Range(row) \subseteq L
    BY DEF MakeCons
  <1> DEFINE kind == "cons"
  <1> HIDE DEF b, row, L
  <1>5. r \in PushNew(b, kind, NoData, row)
    BY <1>4
  <1> HIDE DEF kind
  <1>6. Kept(b, r, X)
    BY <1>2, <1>4, <1>5, PushNewKept
  <1> QED BY <1>3, <1>6, KeptTwice

LEMMA Least ==
  ASSUME NEW T \in SUBSET Nat, T # {}
  PROVE  \E x \in T : \A y \in T : x <= y
  <1> DEFINE R == {p \in Nat \X Nat : p[1] < p[2]}
  <1>1. IsWellFoundedOn(R, Nat)
    BY NatLessThanWellFounded DEF OpToRel
  <1>2. PICK x \in T : \A y \in T : <<y, x>> \notin R
    BY <1>1, WFMin
  <1>3. \A y \in T : <<y, x>> \in Nat \X Nat /\ <<y, x>>[1] = y /\ <<y, x>>[2] = x
    OBVIOUS
  <1>4. \A y \in T : ~(y < x)
    BY <1>2, <1>3
  <1>5. \A y \in T : x <= y
    BY <1>4
  <1> QED BY <1>5

(* The memories after i of the heads, if f gives those after each. *)
PushHead(m, c, shared) == IF shared THEN PushRef(m, c) ELSE {PushCell(m, c)}
PutHead(S, c, shared) == UNION {UNION {MakeCons(r) : r \in PushHead(m, c, shared)} : m \in S}
ConsesFrom(ms, heads, shared, f, i) ==
  IF i = 0 THEN ms ELSE PutHead(f[i - 1], heads[i], shared)
IsConses(ms, heads, shared, f, n) ==
  f = [i \in 0..n |-> ConsesFrom(ms, heads, shared, f, i)]

LEMMA ConsesExist ==
  ASSUME NEW ms, NEW heads, NEW shared, NEW n \in Nat
  PROVE  \E f : IsConses(ms, heads, shared, f, n)
  <1> DEFINE From(f, i) == ConsesFrom(ms, heads, shared, f, i)
             has(l) == \E f : f = [i \in 0..l |-> From(f, i)]
             T == {l \in Nat : ~has(l)}
  <1> SUFFICES ASSUME T # {} PROVE FALSE
    BY DEF IsConses
  <1> HIDE DEF T
  <1>1. PICK l \in T : \A k \in T : l <= k
    BY Least DEF T
  <1>2. l # 0
    <2> SUFFICES has(0)
      BY <1>1 DEF T
    <2>1. \A f : [i \in 0..0 |-> From(f, i)] = [i \in {0} |-> ms]
      BY DEF ConsesFrom
    <2> QED BY <2>1
  <1>3. l \in Nat /\ l - 1 \in Nat /\ 0..l = 0..(l - 1) \cup {l} /\ l \notin 0..(l - 1)
        /\ ~(l <= l - 1)
    BY <1>1, <1>2 DEF T
  <1>4. has(l - 1)
    BY <1>1, <1>3 DEF T
  <1>5. PICK f : f = [i \in 0..(l - 1) |-> From(f, i)]
    BY <1>4
  <1> DEFINE g == [i \in 0..l |-> IF i = l THEN From(f, l) ELSE f[i]]
  <1>6. \A i \in 0..(l - 1) : g[i] = f[i] /\ f[i] = From(f, i)
    BY <1>3, <1>5
  <1>7. g[l] = From(f, l)
    BY <1>3
  <1>8. \A i \in 0..l : i # 0 => i - 1 \in 0..(l - 1)
    BY <1>3
  <1> HIDE DEF From
  <1>9. \A i \in 0..l : From(g, i) = From(f, i)
    BY <1>6, <1>8 DEF From, ConsesFrom
  <1>10. \A i \in 0..l : g[i] = From(g, i)
    BY <1>3, <1>6, <1>7, <1>9
  <1>11. g = [i \in 0..l |-> From(g, i)]
    BY <1>10
  <1>12. has(l)
    <2> HIDE DEF g
    <2> QED BY <1>11
  <1> QED BY <1>1, <1>12 DEF T

LEMMA PutHeadOwned ==
  ASSUME NEW m, NEW K, Owned(m, K), Len(m.operands) >= 1, NEW shared \in BOOLEAN,
         NEW c \in Cell, shared \/ c \in K, NEW S, m \in S,
         NEW p \in PushHead(m, c, shared), NEW r \in MakeCons(p)
  PROVE  Owned(r, IF shared THEN K ELSE K \ {c}) /\ Len(r.operands) >= 1
  <1> DEFINE L == IF shared THEN K ELSE K \ {c}
  <1>1. Owned(p, L) /\ Len(p.operands) = Len(m.operands) + 1
    <2>1. CASE shared
      <3>1. p \in PushRef(m, c)
        BY <2>1 DEF PushHead
      <3>2. Owned(p, K) /\ Len(p.operands) = Len(m.operands) + 1
        BY <3>1, PushRefOwned
      <3> QED BY <2>1, <3>2
    <2>2. CASE ~shared
      <3>1. p = PushCell(m, c) /\ c \in K
        BY <2>2 DEF PushHead
      <3>2. Owned(p, K \ {c}) /\ Len(p.operands) = Len(m.operands) + 1
        BY <3>1, PushOwned
      <3> QED BY <2>2, <3>2
    <2> QED BY <2>1, <2>2
  <1>2. Len(m.operands) \in Nat
    BY LenProperties DEF Owned
  <1>3. Len(p.operands) >= 2
    BY <1>1, <1>2
  <1> HIDE DEF L
  <1>4. Owned(r, L) /\ Len(r.operands) = Len(p.operands) - 1
    BY <1>1, <1>3, MakeConsOwned
  <1>5. Len(r.operands) >= 1
    BY <1>1, <1>2, <1>4
  <1> QED BY <1>4, <1>5 DEF L

LEMMA PutHeadKept ==
  ASSUME NEW m, NEW K, Owned(m, K), Len(m.operands) >= 1, NEW shared \in BOOLEAN,
         NEW c \in Cell, shared \/ c \in K,
         NEW p \in PushHead(m, c, shared), NEW r \in MakeCons(p), NEW X
  PROVE  Kept(m, r, X)
  <1> DEFINE L == IF shared THEN K ELSE K \ {c}
  <1>1. Owned(p, L) /\ Len(p.operands) = Len(m.operands) + 1 /\ Kept(m, p, X)
    <2>1. CASE shared
      <3>1. p \in PushRef(m, c)
        BY <2>1 DEF PushHead
      <3>2. Owned(p, K) /\ Len(p.operands) = Len(m.operands) + 1 /\ Kept(m, p, X)
        BY <3>1, PushRefOwned, PushRefKept
      <3> QED BY <2>1, <3>2
    <2>2. CASE ~shared
      <3>1. p = PushCell(m, c) /\ c \in K /\ IsMemory(m)
        BY <2>2 DEF PushHead, Owned
      <3>2. Owned(p, K \ {c}) /\ Len(p.operands) = Len(m.operands) + 1 /\ Kept(m, p, X)
        BY <3>1, PushOwned, CellKept
      <3> QED BY <2>2, <3>2
    <2> QED BY <2>1, <2>2
  <1>2. Len(p.operands) >= 2
    BY <1>1, LenProperties DEF Owned
  <1> HIDE DEF L
  <1>3. Kept(p, r, X)
    BY <1>1, <1>2, MakeConsKept
  <1> QED BY <1>1, <1>3, KeptTwice

(* The cells among the first i of the heads that were moved, not referenced. *)
Moved(heads, shared, i) == IF shared THEN {} ELSE {heads[j] : j \in 1..i}

LEMMA MovedNext ==
  ASSUME NEW heads \in Seq(Cell), NEW shared \in BOOLEAN, NEW i \in 1..Len(heads),
         shared \/ IsInjective(heads)
  PROVE  /\ i \in Nat /\ i - 1 \in 0..Len(heads) /\ i - 1 < i /\ heads[i] \in Cell
         /\ shared \/ heads[i] \notin Moved(heads, shared, i - 1)
         /\ shared => Moved(heads, shared, i) = Moved(heads, shared, i - 1)
         /\ ~shared => Moved(heads, shared, i) = Moved(heads, shared, i - 1) \cup {heads[i]}
  <1>1. /\ Len(heads) \in Nat /\ DOMAIN heads = 1..Len(heads)
        /\ \A j \in 1..Len(heads) : heads[j] \in Cell
    BY LenProperties, ElementOfSeq
  <1>2. 1..i = 1..(i - 1) \cup {i} /\ i \notin 1..(i - 1) /\ 1..i \subseteq 1..Len(heads)
    BY <1>1
  <1>3. shared \/ heads[i] \notin Moved(heads, shared, i - 1)
    BY <1>1, <1>2 DEF Moved, IsInjective
  <1>4. ~shared => Moved(heads, shared, i) = Moved(heads, shared, i - 1) \cup {heads[i]}
    BY <1>2 DEF Moved
  <1>5. shared => Moved(heads, shared, i) = Moved(heads, shared, i - 1)
    BY DEF Moved
  <1>6. i \in Nat /\ i - 1 \in 0..Len(heads) /\ i - 1 < i
    BY <1>1
  <1> QED BY <1>1, <1>3, <1>4, <1>5, <1>6

LEMMA ConsesOwned ==
  ASSUME NEW ms, NEW K, NEW z, NEW X,
         \A m \in ms : Owned(m, K) /\ Len(m.operands) >= 1 /\ Kept(z, m, X),
         NEW heads \in Seq(Cell), NEW shared \in BOOLEAN,
         shared \/ (IsInjective(heads) /\ Range(heads) \subseteq K),
         NEW r \in Conses(ms, heads, shared)
  PROVE  Owned(r, IF shared THEN K ELSE K \ Range(heads)) /\ Kept(z, r, X)
  <1> DEFINE n == Len(heads)
             f == CHOOSE g : IsConses(ms, heads, shared, g, n)
             left(i) == K \ Moved(heads, shared, i)
             fine(i) == \A m \in f[i] : Owned(m, left(i)) /\ Len(m.operands) >= 1 /\ Kept(z, m, X)
             T == {i \in Nat : i <= n /\ ~fine(i)}
  <1>1. n \in Nat /\ DOMAIN heads = 1..n
    BY LenProperties
  <1>2. IsConses(ms, heads, shared, f, n)
    BY <1>1, ConsesExist
  <1>3. r \in f[n]
    BY DEF Conses, IsConses, ConsesFrom, PutHead, PushHead
  <1> HIDE DEF f
  <1>4. \A i \in 0..n : f[i] = ConsesFrom(ms, heads, shared, f, i)
    <2> HIDE DEF n
    <2>1. f = [i \in 0..n |-> ConsesFrom(ms, heads, shared, f, i)]
      BY <1>2 DEF IsConses
    <2> DEFINE val(i) == ConsesFrom(ms, heads, shared, f, i)
    <2> HIDE DEF val
    <2>2. f = [i \in 0..n |-> val(i)]
      BY <2>1 DEF val
    <2>3. \A i \in 0..n : f[i] = val(i)
      BY <2>2
    <2> QED BY <2>3 DEF val
  <1>5. T = {}
    <2> SUFFICES ASSUME T # {} PROVE FALSE
      OBVIOUS
    <2>1. PICK i \in T : \A k \in T : i <= k
      <3> HIDE DEF fine
      <3>1. T \in SUBSET Nat
        OBVIOUS
      <3> HIDE DEF T
      <3> QED BY <3>1, Least
    <2>2. i \in 0..n /\ ~fine(i)
      <3> HIDE DEF fine, n
      <3> QED BY <1>1, <2>1
    <2>3. i # 0
      <3> SUFFICES ASSUME i = 0 PROVE FALSE
        OBVIOUS
      <3>1. f[i] = ms
        BY <1>4, <2>2 DEF ConsesFrom
      <3>2. left(i) = K
        <4>1. \A j \in 1..0 : FALSE
          OBVIOUS
        <4> QED BY <4>1 DEF Moved
      <3> HIDE DEF left
      <3> QED BY <2>2, <3>1, <3>2
    <2>4. i \in 1..n
      BY <1>1, <2>2, <2>3
    <2>5. /\ i \in Nat /\ i - 1 \in 0..n /\ i - 1 < i /\ heads[i] \in Cell
          /\ shared \/ heads[i] \notin Moved(heads, shared, i - 1)
          /\ shared => Moved(heads, shared, i) = Moved(heads, shared, i - 1)
          /\ ~shared => Moved(heads, shared, i) = Moved(heads, shared, i - 1) \cup {heads[i]}
      BY <2>4, MovedNext
    <2>6. fine(i - 1)
      <3> HIDE DEF fine
      <3>1. i - 1 \in Nat /\ i - 1 <= n /\ ~(i <= i - 1)
        BY <1>1, <2>5
      <3> QED BY <2>1, <3>1
    <2>7. f[i] = PutHead(f[i - 1], heads[i], shared)
      BY <1>4, <2>2, <2>3 DEF ConsesFrom
    <2>8. ASSUME NEW m \in f[i - 1], NEW p \in PushHead(m, heads[i], shared), NEW q \in MakeCons(p)
          PROVE  Owned(q, left(i)) /\ Len(q.operands) >= 1 /\ Kept(z, q, X)
      <3> DEFINE L == left(i - 1)
      <3>1. Owned(m, L) /\ Len(m.operands) >= 1 /\ Kept(z, m, X)
        BY <2>6
      <3>2. shared \/ heads[i] \in L
        BY <1>1, <2>4, <2>5 DEF Range
      <3>3. left(i) = IF shared THEN L ELSE L \ {heads[i]}
        BY <2>5
      <3> HIDE DEF L, left
      <3>4. Owned(q, IF shared THEN L ELSE L \ {heads[i]}) /\ Len(q.operands) >= 1
        BY <2>5, <2>8, <3>1, <3>2, PutHeadOwned
      <3>5. Kept(m, q, X)
        BY <2>5, <2>8, <3>1, <3>2, PutHeadKept
      <3> QED BY <3>1, <3>3, <3>4, <3>5, KeptTwice
    <2>9. fine(i)
      <3> SUFFICES ASSUME NEW q \in f[i]
                   PROVE  Owned(q, left(i)) /\ Len(q.operands) >= 1 /\ Kept(z, q, X)
        OBVIOUS
      <3> HIDE DEF left
      <3>1. PICK m \in f[i - 1] : q \in UNION {MakeCons(p) : p \in PushHead(m, heads[i], shared)}
        BY <2>7 DEF PutHead
      <3>2. PICK p \in PushHead(m, heads[i], shared) : q \in MakeCons(p)
        BY <3>1
      <3> QED BY <2>8, <3>2
    <2> QED BY <2>2, <2>9
  <1>6. Owned(r, left(n)) /\ Kept(z, r, X)
    <2>1. fine(n)
      <3> HIDE DEF fine
      <3> QED BY <1>1, <1>5
    <2> QED BY <1>3, <2>1
  <1>7. left(n) = IF shared THEN K ELSE K \ Range(heads)
    BY <1>1 DEF Moved, Range
  <1> HIDE DEF left
  <1> QED BY <1>6, <1>7

(* The items of a list, if f gives those of each tail. *)
ItemsFrom(m, f, c) ==
  IF Is(m, c, {"cons"}) THEN Append(f[Field(m, c, 2)], Field(m, c, 1)) ELSE <<>>
IsItems(m, f) == f = [c \in Cell |-> ItemsFrom(m, f, c)]

LEMMA ItemsExist ==
  ASSUME NEW m, Shape(m.heap)
  PROVE  \E f : IsItems(m, f)
  <1> DEFINE h == m.heap
             done(D, f) ==
               \A c \in D : /\ f[c] = ItemsFrom(m, f, c)
                            /\ Is(m, c, {"cons"}) => Field(m, c, 2) \in D
             Open == {U \in SUBSET Cell : \E f : done(Cell \ U, f)}
  <1>1. Cell \in Open
    OBVIOUS
  <1>2. Open \subseteq FiniteSubsetsOf(Cell)
    BY CellAssumption, FS_Subset DEF FiniteSubsetsOf
  <1>3. PICK U \in Open : \A V \in Open : ~(<<V, U>> \in StrictSubsetOrdering(Cell))
    <2> HIDE DEF Open
    <2> QED BY <1>1, <1>2, FS_StrictSubsetOrderingWellFounded, WFMin
  <1>4. PICK f : done(Cell \ U, f)
    BY <1>3
  <1>5. ASSUME NEW c \in U, Is(m, c, {"cons"}) => Field(m, c, 2) \notin U
        PROVE  FALSE
    <2> DEFINE g == [k \in Cell |-> IF k = c THEN ItemsFrom(m, f, c) ELSE f[k]]
               V == U \ {c}
    <2>1. c \in Cell /\ g[c] = ItemsFrom(m, f, c) /\ \A k \in Cell \ U : g[k] = f[k]
      BY <1>3, <1>5
    <2>2. Is(m, c, {"cons"}) => Field(m, c, 2) \in Cell \ U
      BY <1>5, ConsFields
    <2> HIDE DEF g
    <2>3. ASSUME NEW k \in Cell \ V
          PROVE  g[k] = ItemsFrom(m, g, k) /\ (Is(m, k, {"cons"}) => Field(m, k, 2) \in Cell \ V)
      <3>1. Is(m, k, {"cons"}) => Field(m, k, 2) \in Cell \ U
        BY <1>4, <2>2, <2>3
      <3>2. ItemsFrom(m, g, k) = ItemsFrom(m, f, k)
        BY <2>1, <3>1 DEF ItemsFrom
      <3>3. g[k] = ItemsFrom(m, f, k)
        BY <1>4, <2>1, <2>3
      <3> QED BY <3>1, <3>2, <3>3
    <2>4. done(Cell \ V, g)
      BY <2>3
    <2>5. V \in Open /\ <<V, U>> \in StrictSubsetOrdering(Cell)
      BY <1>3, <1>5, <2>4 DEF StrictSubsetOrdering
    <2> QED BY <1>3, <2>5
  <1>6. U = {}
    <2> SUFFICES ASSUME U # {} PROVE FALSE
      OBVIOUS
    <2> DEFINE S == {h.ref[c] : c \in U}
    <2>1. S \in SUBSET Live(h) /\ S # {}
      BY <1>5, ConsFields
    <2>2. PICK o \in S : \A k \in Cell : h.own[k] = o => h.ref[k] \notin S
      BY <2>1, Bottom
    <2>3. PICK c \in U : h.ref[c] = o
      BY <2>2
    <2>4. /\ Field(m, c, 2) \in U /\ Field(m, c, 2) \in Cell
          /\ h.own[Field(m, c, 2)] = h.ref[c]
      BY <1>5, <2>3, ConsFields
    <2> QED BY <2>2, <2>3, <2>4
  <1> DEFINE g == [c \in Cell |-> f[c]]
  <1>7. \A c \in Cell : g[c] = ItemsFrom(m, g, c)
    <2> SUFFICES ASSUME NEW c \in Cell PROVE g[c] = ItemsFrom(m, g, c)
      OBVIOUS
    <2>1. ItemsFrom(m, g, c) = ItemsFrom(m, f, c)
      <3>1. Is(m, c, {"cons"}) => g[Field(m, c, 2)] = f[Field(m, c, 2)]
        BY ConsFields
      <3> HIDE DEF g
      <3> QED BY <3>1 DEF ItemsFrom
    <2> QED BY <1>4, <1>6, <2>1
  <1>8. g = [c \in Cell |-> g[c]]
    OBVIOUS
  <1>9. IsItems(m, g)
    <2> HIDE DEF g
    <2> QED BY <1>7, <1>8 DEF IsItems
  <1> QED BY <1>9

LEMMA ItemsFacts ==
  ASSUME NEW m, Shape(m.heap), NEW list \in Cell
  PROVE  Items(m, list) \in Seq(Cell)
  <1> DEFINE h == m.heap
             f == CHOOSE g : IsItems(m, g)
             S == {h.ref[c] : c \in {k \in Cell : f[k] \notin Seq(Cell)}}
  <1>1. IsItems(m, f)
    BY ItemsExist
  <1>2. Items(m, list) = f[list]
    BY DEF Items, IsItems, ItemsFrom
  <1> HIDE DEF f
  <1>3. ASSUME NEW c \in Cell PROVE f[c] = ItemsFrom(m, f, c)
    <2> DEFINE val(k) == ItemsFrom(m, f, k)
    <2>1. f = [k \in Cell |-> val(k)]
      BY <1>1 DEF IsItems
    <2> HIDE DEF val
    <2>2. f[c] = val(c)
      BY <2>1
    <2> QED BY <2>2 DEF val
  <1>4. ASSUME NEW c \in Cell, f[c] \notin Seq(Cell)
        PROVE  Is(m, c, {"cons"}) /\ f[Field(m, c, 2)] \notin Seq(Cell)
    <2>1. f[c] = ItemsFrom(m, f, c)
      BY <1>3
    <2>2. Is(m, c, {"cons"})
      <3> SUFFICES ASSUME ~Is(m, c, {"cons"}) PROVE FALSE
        OBVIOUS
      <3>1. f[c] = <<>>
        BY <2>1 DEF ItemsFrom
      <3>2. <<>> \in Seq(Cell)
        OBVIOUS
      <3> QED BY <1>4, <3>1, <3>2
    <2>3. f[c] = Append(f[Field(m, c, 2)], Field(m, c, 1))
      BY <2>1, <2>2 DEF ItemsFrom
    <2>4. f[Field(m, c, 2)] \notin Seq(Cell)
      <3>1. Field(m, c, 1) \in Cell
        BY <2>2, ConsFields
      <3>2. ASSUME f[Field(m, c, 2)] \in Seq(Cell) PROVE f[c] \in Seq(Cell)
        BY <2>3, <3>1, <3>2, AppendProperties
      <3> QED BY <1>4, <3>2
    <2> QED BY <2>2, <2>4
  <1>5. S = {}
    <2> SUFFICES ASSUME S # {} PROVE FALSE
      OBVIOUS
    <2>1. S \in SUBSET Live(h)
      BY <1>4, ConsFields
    <2>2. PICK o \in S : \A k \in Cell : h.own[k] = o => h.ref[k] \notin S
      BY <2>1, Bottom
    <2>3. PICK c \in Cell : h.ref[c] = o /\ f[c] \notin Seq(Cell)
      BY <2>2
    <2>4. /\ Field(m, c, 2) \in Cell /\ h.own[Field(m, c, 2)] = o
          /\ f[Field(m, c, 2)] \notin Seq(Cell)
      BY <1>4, <2>3, ConsFields
    <2> QED BY <2>2, <2>4
  <1> QED BY <1>2, <1>5

LEMMA JoinedOwned ==
  ASSUME NEW m, NEW K, NEW a \in Cell, NEW b \in Cell, a # b, a \notin K, b \notin K,
         Owned(m, K \cup {a, b}), NEW r \in Joined(m, a, b), NEW X
  PROVE  Owned(r, K) /\ Kept(m, r, X)
  <1> DEFINE L == K \cup {a, b}
  <1>1. ASSUME NEW c, NEW d, {c, d} = {a, b}, c # d, r = PushCell(Drop(m, {c}), d)
        PROVE  Owned(r, K) /\ Kept(m, r, X)
    <2> DEFINE e == Give(m, {c}, "dropping")
    <2>1. Owned(e, L \ {c}) /\ Kept(m, e, X)
      BY <1>1, GiveOwned, GiveKept
    <2>2. d \in L \ {c}
      BY <1>1
    <2>3. r = PushCell(e, d)
      BY <1>1 DEF Drop
    <2>4. (L \ {c}) \ {d} = K
      BY <1>1
    <2> HIDE DEF e, L
    <2>5. Owned(r, (L \ {c}) \ {d})
      BY <2>1, <2>2, <2>3, PushOwned
    <2>6. Kept(e, r, X)
      <3>1. IsMemory(e)
        BY <2>1 DEF Owned
      <3> QED BY <2>3, <3>1, CellKept
    <2> QED BY <2>1, <2>4, <2>5, <2>6, KeptTwice
  <1>2. ASSUME r = PushCell(Drop(m, {a}), b) PROVE Owned(r, K) /\ Kept(m, r, X)
    BY <1>1, <1>2
  <1>3. ASSUME r = PushCell(Drop(m, {b}), a) PROVE Owned(r, K) /\ Kept(m, r, X)
    <2>1. {b, a} = {a, b} /\ b # a
      OBVIOUS
    <2> QED BY <1>1, <1>3, <2>1
  <1>4. ASSUME NEW q \in Conses({PushCell(m, b)}, Items(m, a), TRUE), r = Drop(q, {a})
        PROVE  Owned(r, K) /\ Kept(m, r, X)
    <2> DEFINE n == PushCell(m, b)
               heads == Items(m, a)
               M == K \cup {a}
               ms == {n}
    <2>1. b \in L /\ L \ {b} = M /\ M \ {a} = K /\ {a} \subseteq M \cup {Blank}
      OBVIOUS
    <2>2. Owned(n, M) /\ Len(n.operands) = Len(m.operands) + 1 /\ Kept(m, n, X)
      <3>1. IsMemory(m)
        BY DEF Owned
      <3> HIDE DEF L, n, M
      <3>2. Owned(n, L \ {b}) /\ Len(n.operands) = Len(m.operands) + 1 /\ Kept(m, n, X)
        BY <2>1, <3>1, PushOwned, CellKept DEF L, n
      <3> QED BY <2>1, <3>2
    <2>3. heads \in Seq(Cell)
      BY ItemsFacts DEF Owned
    <2>4. Len(n.operands) >= 1
      BY <2>2, LenProperties DEF Owned
    <2>5. \A x \in ms : Owned(x, M) /\ Len(x.operands) >= 1 /\ Kept(m, x, X)
      BY <2>2, <2>4
    <2>6. q \in Conses(ms, heads, TRUE)
      BY <1>4
    <2> HIDE DEF n, heads, M, ms
    <2>7. Owned(q, IF TRUE THEN M ELSE M \ Range(heads)) /\ Kept(m, q, X)
      BY <2>3, <2>5, <2>6, ConsesOwned
    <2> DEFINE e == Give(q, {a}, "dropping")
    <2>8. Owned(e, M \ {a}) /\ Kept(q, e, X)
      BY <2>1, <2>7, GiveOwned, GiveKept
    <2>9. Kept(m, e, X)
      BY <2>7, <2>8, KeptTwice
    <2> QED BY <1>4, <2>1, <2>8, <2>9 DEF Drop
  <1> QED BY <1>2, <1>3, <1>4, Zenon DEF Joined

-----------------------------------------------------------------------------
(* Call frames. *)

IsFrame(x) ==
  /\ x = [fn |-> x.fn, return_ip |-> x.return_ip, base |-> x.base, locals |-> x.locals]
  /\ x.locals \in [DOMAIN x.locals -> Cell \cup {Blank}]

OnceIn(fs) ==
  \A f, g \in DOMAIN fs :
    \A i \in DOMAIN fs[f].locals, j \in DOMAIN fs[g].locals :
      fs[f].locals[i] = fs[g].locals[j] => fs[f].locals[i] = Blank \/ (f = g /\ i = j)

Framed(fs) ==
  /\ \E S : fs \in Seq(S)
  /\ \A f \in DOMAIN fs : IsFrame(fs[f])
  /\ OnceIn(fs)

Cells(fs) == UNION {Stored(fs[f]) : f \in DOMAIN fs}

LEMMA FramesFacts ==
  ASSUME NEW fs, Framed(fs)
  PROVE  /\ Len(fs) \in Nat /\ DOMAIN fs = 1..Len(fs) /\ Cells(fs) \subseteq Cell
         /\ \A f \in DOMAIN fs : \A i \in DOMAIN fs[f].locals :
              fs[f].locals[i] \in Cell \cup {Blank}
         /\ \A c : c \in Cells(fs) <=>
              c # Blank /\ \E f \in DOMAIN fs : \E i \in DOMAIN fs[f].locals : c = fs[f].locals[i]
  <1>1. Len(fs) \in Nat /\ DOMAIN fs = 1..Len(fs)
    BY LenProperties DEF Framed
  <1>2. ASSUME NEW f \in DOMAIN fs, NEW i \in DOMAIN fs[f].locals
        PROVE  fs[f].locals[i] \in Cell \cup {Blank}
    BY DEF Framed, IsFrame
  <1>3. \A c : c \in Cells(fs) <=>
          c # Blank /\ \E f \in DOMAIN fs : \E i \in DOMAIN fs[f].locals : c = fs[f].locals[i]
    BY DEF Cells, Stored, Range
  <1> QED BY <1>1, <1>2, <1>3

LEMMA PushFrame ==
  ASSUME NEW fs, Framed(fs), NEW x, IsFrame(x), \A i \in DOMAIN x.locals : x.locals[i] = Blank
  PROVE  Framed(Append(fs, x)) /\ Cells(Append(fs, x)) = Cells(fs)
  <1> DEFINE gs == Append(fs, x)
             n == Len(fs)
  <1>1. PICK S : fs \in Seq(S)
    BY DEF Framed
  <1> DEFINE T == S \cup {x}
  <1>2. fs \in Seq(T)
    <2>1. fs \in [1..Len(fs) -> S] /\ Len(fs) \in Nat
      BY <1>1, LenProperties
    <2>2. fs \in [1..Len(fs) -> T]
      BY <2>1
    <2> QED BY <2>1, <2>2, SeqDef
  <1>3. /\ gs \in Seq(T) /\ n \in Nat /\ Len(gs) = n + 1 /\ gs[n + 1] = x
        /\ \A i \in 1..n : gs[i] = fs[i]
    BY <1>2, AppendProperties, LenProperties
  <1>4. DOMAIN fs = 1..n /\ DOMAIN gs = 1..n + 1 /\ 1..n + 1 = 1..n \cup {n + 1}
    BY <1>2, <1>3, LenProperties
  <1> HIDE DEF gs, n
  <1>5. \A f \in DOMAIN gs : gs[f] = x \/ (f \in DOMAIN fs /\ gs[f] = fs[f])
    BY <1>3, <1>4
  <1>6. \A f \in DOMAIN gs : IsFrame(gs[f])
    BY <1>5 DEF Framed
  <1>7. OnceIn(gs)
    BY <1>5 DEF Framed, OnceIn
  <1>8. Framed(gs)
    BY <1>3, <1>6, <1>7 DEF Framed
  <1>9. \A f \in DOMAIN fs : f \in DOMAIN gs /\ gs[f] = fs[f]
    BY <1>3, <1>4
  <1>10. \A c : c \in Cells(gs) <=> c \in Cells(fs)
    BY <1>5, <1>8, <1>9, FramesFacts
  <1> QED BY <1>8, <1>10 DEF gs

LEMMA PopFrame ==
  ASSUME NEW fs, Framed(fs), fs # <<>>
  PROVE  /\ Framed(Front(fs)) /\ Cells(Front(fs)) = Cells(fs) \ Stored(Last(fs))
         /\ Stored(Last(fs)) \subseteq Cells(fs)
  <1> DEFINE gs == Front(fs)
             n == Len(fs)
  <1>1. PICK S : fs \in Seq(S)
    BY DEF Framed
  <1>2. n \in Nat \ {0} /\ DOMAIN fs = 1..n
    BY <1>1, LenProperties, EmptySeq
  <1>3. gs \in Seq(S) /\ Len(gs) = n - 1 /\ \A i \in 1..n - 1 : gs[i] = fs[i]
    <2>1. \A i \in 1..n - 1 : fs[i] \in S
      BY <1>1, <1>2, ElementOfSeq
    <2>2. n - 1 \in Nat /\ 1 \in Int
      BY <1>2
    <2> HIDE DEF n
    <2>3. gs = SubSeq(fs, 1, n - 1)
      BY DEF Front, n
    <2>4. /\ SubSeq(fs, 1, n - 1) \in Seq(S)
          /\ Len(SubSeq(fs, 1, n - 1)) = IF 1 <= n - 1 THEN (n - 1) - 1 + 1 ELSE 0
          /\ \A i \in 1..(n - 1) - 1 + 1 : SubSeq(fs, 1, n - 1)[i] = fs[1 + i - 1]
      BY <2>1, <2>2, SubSeqProperties
    <2>5. /\ (IF 1 <= n - 1 THEN (n - 1) - 1 + 1 ELSE 0) = n - 1 /\ (n - 1) - 1 + 1 = n - 1
          /\ \A i \in 1..n - 1 : 1 + i - 1 = i
      BY <2>2
    <2> QED BY <2>3, <2>4, <2>5
  <1>4. DOMAIN gs = 1..n - 1 /\ 1..n = 1..n - 1 \cup {n} /\ n \notin 1..n - 1
    BY <1>2, <1>3, LenProperties
  <1>5. Last(fs) = fs[n]
    BY DEF Last
  <1> HIDE DEF gs, n
  <1>6. \A f \in DOMAIN gs : f \in DOMAIN fs /\ gs[f] = fs[f] /\ f # n
    BY <1>2, <1>3, <1>4
  <1>7. Framed(gs)
    BY <1>3, <1>6 DEF Framed, OnceIn
  <1>8. \A c : c \in Stored(Last(fs)) <=>
          c # Blank /\ \E i \in DOMAIN fs[n].locals : c = fs[n].locals[i]
    BY <1>5 DEF Stored, Range
  <1>9. n \in DOMAIN fs /\ \A f \in DOMAIN fs : f = n \/ (f \in DOMAIN gs /\ gs[f] = fs[f])
    BY <1>2, <1>3, <1>4
  <1>10. Stored(Last(fs)) \subseteq Cells(fs)
    BY <1>8, <1>9, FramesFacts
  <1>11. ASSUME NEW c \in Cells(gs) PROVE c \in Cells(fs) /\ c \notin Stored(Last(fs))
    <2>1. PICK f \in DOMAIN gs : c # Blank /\ \E i \in DOMAIN gs[f].locals : c = gs[f].locals[i]
      BY <1>7, FramesFacts
    <2>2. PICK i \in DOMAIN fs[f].locals : c = fs[f].locals[i]
      BY <1>6, <2>1
    <2>3. c \in Cells(fs)
      BY <1>6, <2>1, <2>2, FramesFacts
    <2>4. ASSUME NEW j \in DOMAIN fs[n].locals, c = fs[n].locals[j] PROVE FALSE
      <3>1. OnceIn(fs) /\ f \in DOMAIN fs /\ n \in DOMAIN fs /\ f # n /\ c # Blank
        BY <1>6, <1>9, <2>1 DEF Framed
      <3>2. fs[f].locals[i] = fs[n].locals[j] /\ fs[f].locals[i] # Blank
        BY <2>2, <2>4, <3>1
      <3> QED BY <3>1, <3>2, Zenon DEF OnceIn
    <2> QED BY <1>8, <2>3, <2>4
  <1>12. ASSUME NEW c \in Cells(fs), c \notin Stored(Last(fs)) PROVE c \in Cells(gs)
    <2>1. PICK f \in DOMAIN fs : c # Blank /\ \E i \in DOMAIN fs[f].locals : c = fs[f].locals[i]
      BY FramesFacts
    <2>2. f # n
      BY <1>8, <1>12, <2>1
    <2> QED BY <1>7, <1>9, <2>1, <2>2, FramesFacts
  <1> QED BY <1>7, <1>10, <1>11, <1>12 DEF gs

LEMMA StoreFrame ==
  ASSUME NEW fs, Framed(fs), fs # <<>>, NEW i \in DOMAIN Last(fs).locals,
         NEW c \in Cell, c \notin Cells(fs)
  PROVE  LET gs == [fs EXCEPT ![Len(fs)].locals[i] = c]
         IN /\ Framed(gs) /\ Last(fs).locals[i] \in Cells(fs) \cup {Blank}
            /\ Cells(gs) = (Cells(fs) \ {Last(fs).locals[i]}) \cup {c}
  <1> DEFINE n == Len(fs)
             x == fs[n]
             y == [x EXCEPT !.locals = [@ EXCEPT ![i] = c]]
             gs == [fs EXCEPT ![n] = y]
  <1>1. PICK S : fs \in Seq(S)
    BY DEF Framed
  <1>2. n \in Nat \ {0} /\ DOMAIN fs = 1..n /\ n \in DOMAIN fs
    BY <1>1, LenProperties, EmptySeq
  <1>3. Last(fs) = x /\ i \in DOMAIN x.locals
    BY DEF Last
  <1>4. IsFrame(x)
    <2> HIDE DEF n
    <2> QED BY <1>2 DEF Framed
  <1>5. /\ IsFrame(y) /\ DOMAIN y.locals = DOMAIN x.locals /\ y.locals[i] = c
        /\ \A j \in DOMAIN x.locals : j # i => y.locals[j] = x.locals[j]
    <2> DEFINE l == [x.locals EXCEPT ![i] = c]
    <2> HIDE DEF x
    <2>1. y = [fn |-> x.fn, return_ip |-> x.return_ip, base |-> x.base, locals |-> l]
      BY <1>4 DEF IsFrame
    <2>2. /\ l \in [DOMAIN x.locals -> Cell \cup {Blank}] /\ DOMAIN l = DOMAIN x.locals
          /\ l[i] = c /\ \A j \in DOMAIN x.locals : j # i => l[j] = x.locals[j]
      BY <1>3, <1>4 DEF IsFrame
    <2> HIDE DEF y, l
    <2> QED BY <2>1, <2>2 DEF IsFrame
  <1>6. gs \in Seq(S \cup {y}) /\ DOMAIN gs = DOMAIN fs /\ gs[n] = y
        /\ \A f \in DOMAIN fs : f # n => gs[f] = fs[f]
    <2>1. fs \in [1..n -> S] /\ n \in Nat
      BY <1>1, <1>2, LenProperties
    <2> HIDE DEF y, n
    <2>2. gs \in [1..n -> S \cup {y}] /\ DOMAIN gs = 1..n /\ gs[n] = y
          /\ \A f \in DOMAIN fs : f # n => gs[f] = fs[f]
      BY <1>2, <2>1
    <2> QED BY <1>2, <2>1, <2>2, SeqDef
  <1>7. gs = [fs EXCEPT ![Len(fs)].locals[i] = c]
    OBVIOUS
  <1> HIDE DEF gs, y, n
  <1>8. \A f \in DOMAIN fs : fs[f] = x \/ f # n
    BY DEF n
  <1> HIDE DEF x
  <1>9. /\ DOMAIN gs = DOMAIN fs /\ \A f \in DOMAIN fs : DOMAIN gs[f].locals = DOMAIN fs[f].locals
        /\ \A f \in DOMAIN fs : \A j \in DOMAIN fs[f].locals :
             gs[f].locals[j] = IF f = n /\ j = i THEN c ELSE fs[f].locals[j]
    BY <1>5, <1>6, <1>8
  <1>10. fs[n].locals[i] = x.locals[i] /\ i \in DOMAIN fs[n].locals
    BY <1>3 DEF x
  <1>11. \A f \in DOMAIN fs : \A j \in DOMAIN fs[f].locals : fs[f].locals[j] # c
    BY BlankAssumption, FramesFacts
  <1>12. OnceIn(fs)
    BY DEF Framed
  <1>13. OnceIn(gs)
    <2> SUFFICES ASSUME NEW f \in DOMAIN fs, NEW g \in DOMAIN fs,
                        NEW j \in DOMAIN fs[f].locals, NEW k \in DOMAIN fs[g].locals,
                        gs[f].locals[j] = gs[g].locals[k], gs[f].locals[j] # Blank
                 PROVE  f = g /\ j = k
      BY <1>9 DEF OnceIn
    <2>1. CASE f = n /\ j = i
      BY <1>9, <1>11, <2>1
    <2>2. CASE g = n /\ k = i
      BY <1>9, <1>11, <2>2
    <2>3. CASE ~(f = n /\ j = i) /\ ~(g = n /\ k = i)
      <3>1. fs[f].locals[j] = fs[g].locals[k] /\ fs[f].locals[j] # Blank
        BY <1>9, <2>3
      <3> QED BY <1>12, <3>1 DEF OnceIn
    <2> QED BY <2>1, <2>2, <2>3
  <1>14. Framed(gs)
    <2>1. \A f \in DOMAIN gs : IsFrame(gs[f])
      BY <1>5, <1>6 DEF Framed
    <2> QED BY <1>6, <1>13, <2>1 DEF Framed
  <1>15. x.locals[i] \in Cells(fs) \cup {Blank}
    BY <1>2, <1>10, FramesFacts
  <1>16. ASSUME NEW k \in Cells(gs) PROVE k = c \/ (k \in Cells(fs) /\ k # x.locals[i])
    <2>1. k # Blank /\ \E f \in DOMAIN gs : \E j \in DOMAIN gs[f].locals : k = gs[f].locals[j]
      BY <1>14, FramesFacts
    <2> PICK f \in DOMAIN fs : \E j \in DOMAIN fs[f].locals : k = gs[f].locals[j]
      BY <1>9, <2>1
    <2>2. PICK j \in DOMAIN fs[f].locals : k = gs[f].locals[j]
      OBVIOUS
    <2>3. CASE f = n /\ j = i
      BY <1>9, <2>2, <2>3
    <2>4. CASE ~(f = n /\ j = i)
      <3>1. k = fs[f].locals[j]
        BY <1>9, <2>2, <2>4
      <3>2. k \in Cells(fs)
        BY <2>1, <3>1, FramesFacts
      <3>3. fs[f].locals[j] # fs[n].locals[i]
        BY <1>2, <1>10, <1>12, <2>1, <2>4, <3>1 DEF OnceIn
      <3> QED BY <1>10, <3>1, <3>2, <3>3
    <2> QED BY <2>3, <2>4
  <1>17. ASSUME NEW k \in Cells(fs), k # x.locals[i] PROVE k \in Cells(gs)
    <2>1. k # Blank /\ \E f \in DOMAIN fs : \E j \in DOMAIN fs[f].locals : k = fs[f].locals[j]
      BY FramesFacts
    <2> PICK f \in DOMAIN fs : \E j \in DOMAIN fs[f].locals : k = fs[f].locals[j]
      BY <2>1
    <2>2. PICK j \in DOMAIN fs[f].locals : k = fs[f].locals[j]
      OBVIOUS
    <2>3. k = gs[f].locals[j]
      BY <1>9, <1>10, <1>17, <2>2
    <2> QED BY <1>9, <1>14, <2>1, <2>3, FramesFacts
  <1>18. c \in Cells(gs)
    <2>1. gs[n].locals[i] = c /\ c # Blank /\ n \in DOMAIN gs /\ i \in DOMAIN gs[n].locals
      BY <1>2, <1>9, <1>10, BlankAssumption
    <2> QED BY <1>14, <2>1, FramesFacts
  <1>19. Cells(gs) = (Cells(fs) \ {x.locals[i]}) \cup {c}
    BY <1>16, <1>17, <1>18
  <1> QED BY <1>3, <1>7, <1>14, <1>15, <1>19, Zenon

-----------------------------------------------------------------------------
(* The inductive invariant: the heap is whole, and unless a debug_assert   *)
(* has stopped an instruction half way, the HValues of the client are the  *)
(* operands, the locals and the module members, each one of them once.     *)

Rest == InFrames \cup InModules

Sound ==
  /\ IsMemory(mem) /\ Shape(mem.heap) /\ Framed(frames)
  /\ members \in [DOMAIN Extern -> Cell \cup {Blank}] /\ MembersOnce
  /\ status # "panic" => Owned(mem, Rest) /\ InFrames \cap InModules = {}
  /\ status = "freed" => mem.operands = <<>> /\ Rest = {}

(* MembersOnce, of any members. *)
Single(ms) == \A x, y \in DOMAIN ms : ms[x] = ms[y] => ms[x] = Blank \/ x = y

LEMMA AddMember ==
  ASSUME NEW ms \in [DOMAIN Extern -> Cell \cup {Blank}], Single(ms),
         NEW name \in DOMAIN Extern, ms[name] = Blank, NEW c \in Cell, c \notin Range(ms),
         NEW ns \in [DOMAIN Extern -> Cell \cup {Blank}], ns[name] = c,
         \A x \in DOMAIN Extern : x # name => ns[x] = ms[x]
  PROVE  Single(ns) /\ Range(ns) \ {Blank} = (Range(ms) \ {Blank}) \cup {c}
  <1>1. c # Blank /\ \A x \in DOMAIN ms : ms[x] # c
    BY BlankAssumption DEF Range
  <1>2. Single(ns)
    BY <1>1 DEF Single
  <1>3. Range(ns) \ {Blank} = (Range(ms) \ {Blank}) \cup {c}
    BY <1>1 DEF Range
  <1> QED BY <1>2, <1>3

(* The objects that the step may change. *)
Mutable == {o \in Live(mem.heap) : \E c \in InPlace : Refs(mem.heap, o) = {c}}

SoundStep == Sound' /\ Kept(mem, mem', Mutable)

LEMMA RunningFacts ==
  ASSUME Sound, status # "panic"
  PROVE  /\ Owned(mem, Rest) /\ Framed(frames) /\ InFrames = Cells(frames)
         /\ IsMemory(mem) /\ Shape(mem.heap)
         /\ members \in [DOMAIN Extern -> Cell \cup {Blank}] /\ MembersOnce
         /\ InFrames \cap InModules = {} /\ mem.operands \in Seq(Cell)
         /\ Len(mem.operands) \in Nat
         /\ Range(mem.operands) \cap Rest = {}
         /\ Range(mem.operands) \cup Rest = Held(mem.heap, "client")
  <1>1. Owned(mem, Rest) /\ InFrames = Cells(frames)
    BY DEF Sound, InFrames, Cells
  <1> QED BY <1>1, LenProperties DEF Sound, Owned

(* A step that leaves frames and members alone. *)
LEMMA KeepSound ==
  ASSUME Sound, status # "panic", Owned(mem', Rest), Kept(mem, mem', Mutable),
         frames' = frames, members' = members, status' # "freed"
  PROVE  SoundStep
  <1>1. InFrames' = InFrames /\ InModules' = InModules /\ MembersOnce' = MembersOnce
    BY DEF InFrames, InModules, MembersOnce
  <1>2. Rest' = Rest
    BY <1>1 DEF Rest
  <1> QED BY <1>1, <1>2 DEF SoundStep, Sound, Owned

(* A step that leaves the members alone. *)
LEMMA FramesSound ==
  ASSUME Sound, status # "panic", Framed(frames'), members' = members,
         Owned(mem', Cells(frames') \cup InModules), Cells(frames') \cap InModules = {},
         Kept(mem, mem', Mutable), status' # "freed"
  PROVE  SoundStep
  <1>1. InFrames' = Cells(frames') /\ InModules' = InModules /\ MembersOnce' = MembersOnce
    BY DEF InFrames, InModules, MembersOnce, Cells
  <1>2. Rest' = Cells(frames') \cup InModules
    BY <1>1 DEF Rest
  <1> QED BY <1>1, <1>2 DEF SoundStep, Sound, Owned

LEMMA StopSound ==
  ASSUME Sound, status # "panic", NEW how \in {"panic", "corrupted"}, Stop(how)
  PROVE  SoundStep
  <1>1. Owned(mem, Rest) /\ mem' = mem
    BY RunningFacts DEF Stop
  <1>2. Kept(mem, mem', Mutable)
    BY <1>1, KeptSame
  <1> QED BY <1>1, <1>2, KeepSound DEF Stop

LEMMA OperandsSound ==
  ASSUME Sound, NEW op, NEW ms, Operands(op, ms),
         \A m \in ms : Owned(m, Rest) /\ Kept(mem, m, Mutable)
  PROVE  SoundStep
  <1>1. /\ mem' \in ms /\ frames' = frames /\ members' = members
        /\ status = "running" /\ status' = "running"
    BY DEF Operands, At
  <1> QED BY <1>1, KeepSound

(* What Executable promises each instruction. *)
Takes1 == {"JUMPIF", "JUMPIFN", "STORE", "DUP", "POP", "YIELD", "LOADEXT", "CHKTUPLE",
           "CHKNIL", "CHKCONS", "TUPLEGET", "UNCONS"}

LEMMA NeedsFacts ==
  /\ Op.op \in Takes1 => Needs = 1
  /\ Op.op \in {"SWAP", "CONCAT", "EQ"} => Needs = 2
  /\ Op.op \in {"MAKETUPLE", "MAKELIST"} => Needs = Op.n
  /\ Op.op = "CALLVAL" => Needs = Op.n + 1
  /\ Op.op = "MAKECLS" => Needs = Func(Op.n).captures
  BY DEF Needs, Takes1

LEMMA OperandFacts ==
  ASSUME Sound, Executable, NEW op, At(op)
  PROVE  /\ status = "running" /\ Op.op = op
         /\ op \in Takes1 => Len(mem.operands) >= 1
         /\ op \in {"SWAP", "CONCAT", "EQ"} => 2 \in 0..Len(mem.operands)
         /\ op \in {"MAKETUPLE", "MAKELIST"} => Op.n \in 0..Len(mem.operands)
         /\ op = "CALLVAL" => Op.n \in Nat /\ Op.n + 1 \in 0..Len(mem.operands)
         /\ op = "MAKECLS" => Func(Op.n).captures \in 0..Len(mem.operands)
  <1>1. status = "running" /\ Op.op = op
    BY DEF At
  <1>2. Needs \in 0..Len(mem.operands) /\ Len(mem.operands) \in Nat
    BY <1>1, RunningFacts DEF Executable
  <1>3. op = "CALLVAL" => Op.n \in Nat
    BY <1>1 DEF Executable
  <1>4. op \in Takes1 => Len(mem.operands) >= 1
    BY <1>1, <1>2, NeedsFacts
  <1> QED BY <1>1, <1>2, <1>3, <1>4, NeedsFacts, Zenon

-----------------------------------------------------------------------------
(* The instructions, one by one. *)

LEMMA LocalFacts ==
  ASSUME Sound, Executable, NEW op \in {"LOAD", "STORE"}, At(op)
  PROVE  /\ frames # <<>> /\ Op.n \in DOMAIN Last(frames).locals /\ Locals = Last(frames).locals
         /\ Locals[Op.n] \in Cell \cup {Blank} /\ (op = "LOAD" => Locals[Op.n] \in Cell)
  <1>1. /\ frames # <<>> /\ Op.n \in DOMAIN Locals /\ (op = "LOAD" => Locals[Op.n] # Blank)
    BY DEF At, Executable
  <1>2. Framed(frames)
    BY DEF Sound
  <1>3. Len(frames) \in DOMAIN frames
    <2>1. PICK S : frames \in Seq(S)
      BY <1>2 DEF Framed
    <2>2. Len(frames) \in Nat /\ DOMAIN frames = 1..Len(frames) /\ Len(frames) # 0
      BY <1>1, <2>1, LenProperties, EmptySeq
    <2> QED BY <2>2
  <1>4. Locals = frames[Len(frames)].locals
    BY DEF Locals, Last
  <1>5. Locals[Op.n] \in Cell \cup {Blank}
    BY <1>1, <1>2, <1>3, <1>4, FramesFacts
  <1> QED BY <1>1, <1>5 DEF Locals

LEMMA LoadSound ==
  ASSUME Sound, Executable, Load
  PROVE  SoundStep
  <1>1. Operands("LOAD", PushRef(mem, Locals[Op.n])) /\ At("LOAD")
    BY DEF Load, Operands
  <1>2. Locals[Op.n] \in Cell
    BY <1>1, LocalFacts
  <1>3. \A m \in PushRef(mem, Locals[Op.n]) : Owned(m, Rest) /\ Kept(mem, m, Mutable)
    BY <1>1, <1>2, RunningFacts, PushRefOwned, PushRefKept DEF At
  <1> QED BY <1>1, <1>3, OperandsSound

(* An instruction that looks at its topmost operand, or takes it. *)
LEMMA TopFacts ==
  ASSUME Sound, Executable, NEW op \in Takes1, At(op)
  PROVE  /\ status = "running" /\ Op.op = op /\ Owned(mem, Rest)
         /\ Top(mem) \in Range(mem.operands) /\ Top(mem) \in Cell /\ Top(mem) \notin Rest
         /\ Owned(Below(mem, 1), Rest \cup {Top(mem)})
         /\ Below(mem, 1).heap = mem.heap /\ Kept(mem, Below(mem, 1), Mutable)
         /\ \A who \in {"dropping", "lost"} :
              /\ Owned(Give(Below(mem, 1), {Top(mem)}, who), Rest)
              /\ Kept(mem, Give(Below(mem, 1), {Top(mem)}, who), Mutable)
  <1>1. status = "running" /\ Op.op = op /\ Len(mem.operands) >= 1
    BY OperandFacts
  <1>2. Owned(mem, Rest)
    BY <1>1, RunningFacts
  <1>3. /\ Top(mem) \in Range(mem.operands) /\ Top(mem) \in Cell /\ Top(mem) \notin Rest
        /\ Owned(Below(mem, 1), Rest \cup {Top(mem)}) /\ Below(mem, 1).heap = mem.heap
    BY <1>1, <1>2, TopOwned
  <1>4. Kept(mem, Below(mem, 1), Mutable)
    BY <1>2, BelowKept DEF Owned
  <1>5. ASSUME NEW who \in {"dropping", "lost"}
        PROVE  /\ Owned(Give(Below(mem, 1), {Top(mem)}, who), Rest)
               /\ Kept(mem, Give(Below(mem, 1), {Top(mem)}, who), Mutable)
    <2> DEFINE c == Top(mem)
    <2>1. (Rest \cup {c}) \ {c} = Rest /\ {c} \subseteq (Rest \cup {c}) \cup {Blank}
      BY <1>3
    <2> HIDE DEF c
    <2> DEFINE e == Give(Below(mem, 1), {c}, who)
    <2>2. Owned(e, (Rest \cup {c}) \ {c}) /\ Kept(Below(mem, 1), e, Mutable)
      BY <1>3, <2>1, GiveOwned, GiveKept DEF c
    <2> HIDE DEF e
    <2>3. Kept(mem, e, Mutable)
      BY <1>4, <2>2, KeptTwice
    <2> QED BY <2>1, <2>2, <2>3 DEF c, e
  <1> QED BY <1>1, <1>2, <1>3, <1>4, <1>5

LEMMA DupSound ==
  ASSUME Sound, Executable, Dup
  PROVE  SoundStep
  <1>1. Operands("DUP", PushRef(mem, Top(mem))) /\ At("DUP")
    BY DEF Dup, Operands
  <1>2. \A m \in PushRef(mem, Top(mem)) : Owned(m, Rest) /\ Kept(mem, m, Mutable)
    BY <1>1, TopFacts, PushRefOwned, PushRefKept DEF Takes1
  <1> QED BY <1>1, <1>2, OperandsSound

LEMMA PopSound ==
  ASSUME Sound, Executable, Pop
  PROVE  SoundStep
  <1>1. Operands("POP", {Drop(Below(mem, 1), {Top(mem)})}) /\ At("POP")
    BY DEF Pop, Operands
  <1>2. LET e == Drop(Below(mem, 1), {Top(mem)})
        IN Owned(e, Rest) /\ Kept(mem, e, Mutable)
    BY <1>1, TopFacts DEF Takes1, Drop
  <1> QED BY <1>1, <1>2, OperandsSound

LEMMA SwapSound ==
  ASSUME Sound, Executable, Swap
  PROVE  SoundStep
  <1> DEFINE b == Below(mem, 2)
             row == Popped(mem, 2)
             m == [mem EXCEPT !.operands = b.operands \o row]
             n == [b EXCEPT !.operands = @ \o row]
             L == Rest \cup Range(row)
  <1>1. Operands("SWAP", {m}) /\ At("SWAP")
    BY DEF Swap, Operands
  <1>2. Owned(mem, Rest) /\ IsMemory(mem) /\ 2 \in 0..Len(mem.operands)
    BY <1>1, OperandFacts, RunningFacts
  <1>3. /\ Owned(b, L) /\ row \in Seq(Cell) /\ IsInjective(row) /\ Range(row) \cap Rest = {}
        /\ b = [mem EXCEPT !.operands = b.operands]
    <2>1. b = [mem EXCEPT !.operands = b.operands]
      <3>1. IsMemory(b) /\ b.heap = mem.heap
        BY <1>2, BelowParts
      <3>2. b.data = mem.data
        BY <1>2 DEF IsMemory, Below
      <3> HIDE DEF b
      <3> QED BY <1>2, <3>1, <3>2 DEF IsMemory
    <2> HIDE DEF b, row, L
    <2> QED BY <1>2, <2>1, BelowOwned DEF b, row, L
  <1> HIDE DEF b, row
  <1>4. m = n
    <2>1. IsMemory(mem) /\ IsMemory(b) /\ b = [mem EXCEPT !.operands = b.operands]
      BY <1>2, <1>3 DEF Owned
    <2> QED BY <2>1 DEF IsMemory
  <1>5. Owned(n, L \ Range(row)) /\ L \ Range(row) = Rest
    <2> HIDE DEF n
    <2>1. L \ Range(row) = Rest /\ Range(row) \subseteq L
      BY <1>3
    <2> HIDE DEF L
    <2> QED BY <1>3, <2>1, ConcatOwned DEF n
  <1>6. Kept(mem, m, Mutable)
    BY <1>2, OperandsKept
  <1> HIDE DEF m, n, L
  <1>7. Owned(m, Rest)
    BY <1>4, <1>5
  <1> QED BY <1>1, <1>6, <1>7, OperandsSound

LEMMA PushSound ==
  ASSUME Sound, Executable,
         NEW op, NEW w \in Word, Operands(op, PushWord(mem, w))
  PROVE  SoundStep
  <1>1. Owned(mem, Rest)
    BY RunningFacts DEF Operands, At
  <1>2. \A m \in PushWord(mem, w) : Owned(m, Rest) /\ Kept(mem, m, Mutable)
    BY <1>1, PushWordOwned, PushWordKept
  <1> QED BY <1>2, OperandsSound

LEMMA PushScalarSound ==
  ASSUME Sound, Executable, PushInt \/ PushTrue \/ PushFalse
  PROVE  SoundStep
  <1>1. CASE PushInt
    <2>1. HInt(Op.n) \in Word
      BY <1>1 DEF PushInt, Operands, At, Executable
    <2> QED BY <1>1, <2>1, PushSound DEF PushInt
  <1>2. CASE PushTrue
    BY <1>2, PushSound, ScalarAssumption DEF PushTrue
  <1>3. CASE PushFalse
    BY <1>3, PushSound, ScalarAssumption DEF PushFalse
  <1> QED BY <1>1, <1>2, <1>3

(* An instruction that makes an object of the n topmost operands. *)
LEMMA MakeSound ==
  ASSUME Sound, NEW op, NEW n \in 0..Len(mem.operands), NEW kind \in Kind \ {"free"},
         kind \notin Pairs, NEW data,
         Operands(op, PushNew(Below(mem, n), kind, data, Popped(mem, n)))
  PROVE  SoundStep
  <1> DEFINE b == Below(mem, n)
             row == Popped(mem, n)
             L == Rest \cup Range(row)
  <1>1. Owned(mem, Rest)
    BY RunningFacts DEF Operands, At
  <1>2. /\ Owned(b, L) /\ row \in Seq(Cell) /\ IsInjective(row) /\ L \ Range(row) = Rest
        /\ Range(row) \subseteq L /\ Kept(mem, b, Mutable)
    <2>1. /\ Owned(b, L) /\ row \in Seq(Cell) /\ IsInjective(row) /\ Range(row) \cap Rest = {}
      <3> HIDE DEF b, row, L
      <3> QED BY <1>1, BelowOwned DEF b, row, L
    <2> QED BY <1>1, <2>1, BelowKept DEF Owned
  <1> HIDE DEF b, row, L
  <1>3. ASSUME NEW m \in PushNew(b, kind, data, row)
        PROVE  Owned(m, Rest) /\ Kept(mem, m, Mutable)
    <2>1. Owned(m, L \ Range(row)) /\ Kept(b, m, Mutable)
      BY <1>2, PushNewOwned, PushNewKept
    <2> QED BY <1>2, <2>1, KeptTwice
  <1>4. Operands(op, PushNew(b, kind, data, row))
    BY DEF b, row
  <1> QED BY <1>3, <1>4, OperandsSound

LEMMA KindFacts ==
  /\ \A kind \in {"string", "tuple", "closure"} : kind \in Kind \ {"free"} /\ kind \notin Pairs
  /\ \A name \in DOMAIN Extern : name \in Native /\ name \in Kind \ {"free"} /\ name \notin Pairs
  <1>1. \A name \in Native : name \in Kind /\ name # "free" /\ name \notin Pairs
    BY KindAssumption DEF Kind, Pairs
  <1>2. "closure" \in Kind /\ "closure" # "free" /\ "closure" \notin Pairs
    BY ClosureAssumption DEF Kind, Pairs
  <1>3. \A kind \in {"string", "tuple"} : kind \in Kind /\ kind # "free" /\ kind \notin Pairs
    BY DEF Kind, Pairs
  <1> QED BY <1>1, <1>2, <1>3, ExternAssumption

LEMMA EmptyRow == <<>> \in Seq(Cell) /\ IsInjective(<<>>) /\ Range(<<>>) = {}
  <1>1. DOMAIN << >> = {}
    OBVIOUS
  <1>2. \A s : DOMAIN s = {} => IsInjective(s) /\ Range(s) = {}
    BY DEF IsInjective, Range
  <1> QED BY <1>1, <1>2

(* An object without fields. *)
LEMMA PushBareOwned ==
  ASSUME NEW m, NEW K, Owned(m, K), NEW kind \in Kind \ {"free"}, kind \notin Pairs, NEW data,
         NEW r \in PushNew(m, kind, data, <<>>), NEW X
  PROVE  Owned(r, K) /\ Pushed(m, r) /\ Kept(m, r, X)
  <1> DEFINE row == << >>
  <1>1. row \in Seq(Cell) /\ IsInjective(row) /\ Range(row) = {}
    BY EmptyRow
  <1>2. r \in PushNew(m, kind, data, row) /\ Range(row) \subseteq K /\ K \ Range(row) = K
    BY <1>1
  <1> HIDE DEF row
  <1>3. Owned(r, K \ Range(row)) /\ Pushed(m, r)
    BY <1>1, <1>2, PushNewOwned
  <1>4. Kept(m, r, X)
    BY <1>1, <1>2, PushNewKept
  <1> QED BY <1>2, <1>3, <1>4

LEMMA PushStrSound ==
  ASSUME Sound, Executable, PushStr
  PROVE  SoundStep
  <1> DEFINE kind == "string"
             data == Data(0, Op.s)
  <1>1. Operands("PUSHSTR", PushNew(mem, kind, data, <<>>))
    BY DEF PushStr
  <1>2. Owned(mem, Rest)
    BY <1>1, RunningFacts DEF Operands, At
  <1>3. kind \in Kind \ {"free"} /\ kind \notin Pairs
    BY KindFacts
  <1> HIDE DEF kind, data
  <1>4. \A m \in PushNew(mem, kind, data, <<>>) : Owned(m, Rest) /\ Kept(mem, m, Mutable)
    BY <1>2, <1>3, PushBareOwned
  <1> QED BY <1>1, <1>4, OperandsSound

LEMMA MakeClsSound ==
  ASSUME Sound, Executable, MakeCls
  PROVE  SoundStep
  <1> DEFINE n == Func(Op.n).captures
             kind == "closure"
             data == Data(Op.n, "")
  <1>1. Operands("MAKECLS", PushNew(Below(mem, n), kind, data, Popped(mem, n)))
    BY DEF MakeCls
  <1>2. n \in 0..Len(mem.operands)
    BY <1>1, OperandFacts DEF Operands
  <1>3. kind \in Kind \ {"free"} /\ kind \notin Pairs
    BY KindFacts
  <1> HIDE DEF n, kind, data
  <1> QED BY <1>1, <1>2, <1>3, MakeSound

LEMMA MakeTupleSound ==
  ASSUME Sound, Executable, MakeTuple
  PROVE  SoundStep
  <1> DEFINE n == Op.n
             kind == "tuple"
  <1>1. \/ Operands("MAKETUPLE", PushWord(mem, HTuple(<<>>)))
        \/ Operands("MAKETUPLE", PushNew(Below(mem, n), kind, NoData, Popped(mem, n)))
    BY DEF MakeTuple
  <1>2. CASE Operands("MAKETUPLE", PushWord(mem, HTuple(<<>>)))
    BY <1>2, PushSound, ScalarAssumption
  <1>3. CASE Operands("MAKETUPLE", PushNew(Below(mem, n), kind, NoData, Popped(mem, n)))
    <2>1. n \in 0..Len(mem.operands)
      BY <1>3, OperandFacts DEF Operands
    <2>2. kind \in Kind \ {"free"} /\ kind \notin Pairs
      BY KindFacts
    <2> HIDE DEF n, kind
    <2> QED BY <1>3, <2>1, <2>2, MakeSound
  <1> QED BY <1>1, <1>2, <1>3

LEMMA CheckSound ==
  ASSUME Sound, Executable, NEW op \in Takes1, NEW passes, Check(op, passes)
  PROVE  SoundStep
  <1> DEFINE e == Give(Below(mem, 1), {Top(mem)}, "dropping")
  <1>1. \/ Operands(op, PushWord(mem, HBool(TRUE)))
        \/ Operands(op, PushWord(e, HBool(FALSE)))
    BY DEF Check, Drop
  <1>2. HBool(TRUE) \in Word /\ HBool(FALSE) \in Word
    BY ScalarAssumption
  <1>3. CASE Operands(op, PushWord(mem, HBool(TRUE)))
    BY <1>2, <1>3, PushSound
  <1>4. CASE Operands(op, PushWord(e, HBool(FALSE)))
    <2>1. Owned(e, Rest) /\ Kept(mem, e, Mutable)
      BY <1>4, TopFacts DEF Operands
    <2> HIDE DEF e
    <2>2. \A m \in PushWord(e, HBool(FALSE)) : Owned(m, Rest) /\ Kept(mem, m, Mutable)
      BY <1>2, <2>1, PushWordOwned, PushWordKept, KeptTwice
    <2> QED BY <1>4, <2>2, OperandsSound
  <1> QED BY <1>1, <1>3, <1>4

LEMMA ChecksSound ==
  ASSUME Sound, Executable, ChkTuple \/ ChkNil \/ ChkCons
  PROVE  SoundStep
  BY CheckSound DEF ChkTuple, ChkNil, ChkCons, Takes1

LEMMA JumpIfSound ==
  ASSUME Sound, Executable, JumpIf
  PROVE  SoundStep
  <1>1. \/ /\ mem' = Drop(Below(mem, 1), {Top(mem)}) /\ status' = status
           /\ frames' = frames /\ members' = members
        \/ Stop("panic")
    BY DEF JumpIf
  <1>2. At("JUMPIF") \/ At("JUMPIFN")
    BY DEF JumpIf
  <1>3. /\ Owned(Give(Below(mem, 1), {Top(mem)}, "dropping"), Rest) /\ status = "running"
        /\ Kept(mem, Give(Below(mem, 1), {Top(mem)}, "dropping"), Mutable)
    BY <1>2, TopFacts DEF Takes1
  <1>4. CASE mem' = Drop(Below(mem, 1), {Top(mem)}) /\ status' = status
             /\ frames' = frames /\ members' = members
    BY <1>3, <1>4, KeepSound DEF Drop
  <1>5. CASE Stop("panic")
    BY <1>3, <1>5, StopSound
  <1> QED BY <1>1, <1>4, <1>5

LEMMA TupleGetSound ==
  ASSUME Sound, Executable, TupleGet
  PROVE  SoundStep
  <1> DEFINE o == mem.heap.ref[Top(mem)]
  <1>1. Operands("TUPLEGET", PushRef(mem, Field(mem, Top(mem), Op.n))) /\ At("TUPLEGET")
    BY DEF TupleGet, Operands
  <1>2. o \in Obj /\ mem.heap.kind[o] = "tuple" /\ Op.n \in 1..Count(mem, Top(mem))
    BY <1>1 DEF At, Executable, Is
  <1>3. Shape(mem.heap) /\ Owned(mem, Rest)
    BY <1>1, RunningFacts DEF At
  <1>4. mem.heap.kind[o] # "free"
    BY <1>2
  <1> HIDE DEF o
  <1>5. Field(mem, Top(mem), Op.n) \in Cell
    BY <1>2, <1>3, <1>4, ArgFacts DEF Field, Count, o
  <1>6. \A m \in PushRef(mem, Field(mem, Top(mem), Op.n)) :
          Owned(m, Rest) /\ Kept(mem, m, Mutable)
    BY <1>3, <1>5, PushRefOwned, PushRefKept
  <1> QED BY <1>1, <1>6, OperandsSound

LEMMA UnconsSound ==
  ASSUME Sound, Executable, Uncons
  PROVE  SoundStep
  <1> DEFINE c == Top(mem)
             b == Below(mem, 1)
             hd == Field(mem, c, 1)
             tl == Field(mem, c, 2)
             K == Rest \cup {c}
             ms == {Drop(m, {c}) : m \in UNION {PushRef(r, hd) : r \in PushRef(b, tl)}}
  <1>1. Operands("UNCONS", ms) /\ At("UNCONS")
    BY DEF Uncons, Operands
  <1>2. Is(mem, c, {"cons"}) /\ Shape(mem.heap)
    BY <1>1, RunningFacts DEF At, Executable
  <1>3. hd \in Cell /\ tl \in Cell
    <2> HIDE DEF c
    <2> QED BY <1>2, ConsFields
  <1>4. /\ Owned(b, K) /\ K \ {c} = Rest /\ {c} \subseteq K \cup {Blank}
        /\ Kept(mem, b, Mutable)
    <2>1. Owned(b, K) /\ c \notin Rest /\ Kept(mem, b, Mutable)
      BY <1>1, TopFacts DEF Takes1
    <2> QED BY <2>1
  <1> HIDE DEF c, b, hd, tl, K
  <1>5. ASSUME NEW r \in PushRef(b, tl), NEW m \in PushRef(r, hd)
        PROVE  Owned(Drop(m, {c}), Rest) /\ Kept(mem, Drop(m, {c}), Mutable)
    <2> DEFINE e == Give(m, {c}, "dropping")
    <2>1. Owned(r, K) /\ Kept(b, r, Mutable)
      BY <1>3, <1>4, PushRefOwned, PushRefKept
    <2>2. Owned(m, K) /\ Kept(r, m, Mutable)
      BY <1>3, <2>1, PushRefOwned, PushRefKept
    <2>3. Owned(e, K \ {c}) /\ Kept(m, e, Mutable)
      BY <1>4, <2>2, GiveOwned, GiveKept
    <2> HIDE DEF e
    <2>4. Kept(mem, e, Mutable)
      BY <1>4, <2>1, <2>2, <2>3, KeptTwice
    <2> QED BY <1>4, <2>3, <2>4 DEF Drop, e
  <1>6. \A n \in ms : Owned(n, Rest) /\ Kept(mem, n, Mutable)
    BY <1>5
  <1> HIDE DEF ms
  <1> QED BY <1>1, <1>6, OperandsSound

LEMMA MakeListSound ==
  ASSUME Sound, Executable, MakeList
  PROVE  SoundStep
  <1> DEFINE n == Op.n
             b == Below(mem, n)
             row == Popped(mem, n)
             L == Rest \cup Range(row)
             ms == PushWord(b, HNil)
             rs == Conses(ms, row, FALSE)
  <1>1. Operands("MAKELIST", rs) /\ At("MAKELIST")
    BY DEF MakeList, Operands
  <1>2. n \in 0..Len(mem.operands) /\ Owned(mem, Rest)
    BY <1>1, OperandFacts, RunningFacts
  <1>3. /\ Owned(b, L) /\ row \in Seq(Cell) /\ IsInjective(row) /\ L \ Range(row) = Rest
        /\ Range(row) \subseteq L /\ Len(b.operands) \in Nat /\ Kept(mem, b, Mutable)
    <2>1. /\ Owned(b, L) /\ row \in Seq(Cell) /\ IsInjective(row) /\ Range(row) \cap Rest = {}
      <3> HIDE DEF b, row, L, n
      <3> QED BY <1>2, BelowOwned DEF b, row, L
    <2>2. Kept(mem, b, Mutable)
      BY <1>2, BelowKept DEF Owned
    <2> HIDE DEF b
    <2> QED BY <2>1, <2>2, LenProperties DEF Owned
  <1> HIDE DEF n, b, row, L
  <1>4. \A m \in ms : Owned(m, L) /\ Len(m.operands) >= 1 /\ Kept(mem, m, Mutable)
    <2> SUFFICES ASSUME NEW m \in ms
                 PROVE  Owned(m, L) /\ Len(m.operands) >= 1 /\ Kept(mem, m, Mutable)
      OBVIOUS
    <2>1. Owned(m, L) /\ Len(m.operands) = Len(b.operands) + 1 /\ Kept(b, m, Mutable)
      BY <1>3, PushWordOwned, PushWordKept, ScalarAssumption
    <2> QED BY <1>3, <2>1, KeptTwice
  <1> HIDE DEF ms
  <1>5. ASSUME NEW r \in rs PROVE Owned(r, Rest) /\ Kept(mem, r, Mutable)
    <2>1. Owned(r, IF FALSE THEN L ELSE L \ Range(row)) /\ Kept(mem, r, Mutable)
      BY <1>3, <1>4, ConsesOwned
    <2> QED BY <1>3, <2>1
  <1> HIDE DEF rs
  <1> QED BY <1>1, <1>5, OperandsSound

(* The two topmost operands. *)
LEMMA PairPopped ==
  ASSUME NEW m, NEW K, Owned(m, K), 2 \in 0..Len(m.operands)
  PROVE  LET a == Popped(m, 2)[2]
             b == Popped(m, 2)[1]
         IN /\ a \in Cell /\ b \in Cell /\ a # b /\ a \notin K /\ b \notin K
            /\ Range(Popped(m, 2)) = {a, b} /\ Owned(Below(m, 2), K \cup {a, b})
            /\ Below(m, 2).heap = m.heap
  <1> DEFINE row == Popped(m, 2)
             b == row[1]
             a == row[2]
  <1>1. /\ Owned(Below(m, 2), K \cup Range(row)) /\ Below(m, 2).heap = m.heap
        /\ row \in Seq(Cell) /\ IsInjective(row) /\ Len(row) = 2 /\ Range(row) \cap K = {}
    BY BelowOwned
  <1> HIDE DEF row
  <1>2. DOMAIN row = 1..2 /\ 1..2 = {1, 2} /\ 1 # 2
    BY <1>1, LenProperties
  <1>3. Range(row) = {a, b} /\ a # b
    BY <1>1, <1>2 DEF Range, IsInjective
  <1>4. a \in Cell /\ b \in Cell
    BY <1>1, <1>2, ElementOfSeq
  <1> QED BY <1>1, <1>3, <1>4 DEF row

LEMMA ConcatSound ==
  ASSUME Sound, Executable, Concat
  PROVE  SoundStep
  <1> DEFINE b == Popped(mem, 2)[1]
             a == Popped(mem, 2)[2]
             n == Below(mem, 2)
  <1>1. At("CONCAT") /\ (Stop("panic") \/ Operands("CONCAT", Joined(n, a, b)))
    BY DEF Concat
  <1>2. status = "running" /\ Owned(mem, Rest) /\ 2 \in 0..Len(mem.operands)
    BY <1>1, OperandFacts, RunningFacts
  <1>3. /\ a \in Cell /\ b \in Cell /\ a # b /\ a \notin Rest /\ b \notin Rest
        /\ Owned(n, Rest \cup {a, b}) /\ Kept(mem, n, Mutable)
    BY <1>2, PairPopped, BelowKept DEF Owned
  <1> HIDE DEF a, b, n
  <1>4. \A r \in Joined(n, a, b) : Owned(r, Rest) /\ Kept(mem, r, Mutable)
    BY <1>3, JoinedOwned, KeptTwice
  <1> QED BY <1>1, <1>2, <1>4, StopSound, OperandsSound

LEMMA EqSound ==
  ASSUME Sound, Executable, Eq
  PROVE  SoundStep
  <1> DEFINE vs == Popped(mem, 2)
             n == Below(mem, 2)
             equal == EqualCells(mem, vs[1], vs[2])
             K == Rest \cup Range(vs)
  <1>1. Operands("EQ", {Drop(m, Range(vs)) : m \in PushWord(n, HBool(equal))}) /\ At("EQ")
    BY DEF Eq, Operands
  <1>2. status = "running" /\ Owned(mem, Rest) /\ 2 \in 0..Len(mem.operands)
    BY <1>1, OperandFacts, RunningFacts
  <1>3. /\ Owned(n, K) /\ K \ Range(vs) = Rest /\ Range(vs) \subseteq K \cup {Blank}
        /\ Kept(mem, n, Mutable)
    <2>1. Owned(n, K) /\ Range(vs) \cap Rest = {}
      <3> HIDE DEF n, vs, K
      <3> QED BY <1>2, BelowOwned DEF n, vs, K
    <2> QED BY <1>2, <2>1, BelowKept DEF Owned
  <1>4. HBool(equal) \in Word
    <2> HIDE DEF equal
    <2>1. HBool(equal) = HBool(TRUE) \/ HBool(equal) = HBool(FALSE)
      BY DEF HBool
    <2> QED BY <2>1, ScalarAssumption
  <1> HIDE DEF vs, n, equal, K
  <1>5. ASSUME NEW m \in PushWord(n, HBool(equal))
        PROVE  Owned(Drop(m, Range(vs)), Rest) /\ Kept(mem, Drop(m, Range(vs)), Mutable)
    <2> DEFINE e == Give(m, Range(vs), "dropping")
    <2>1. Owned(m, K) /\ Kept(n, m, Mutable)
      BY <1>3, <1>4, PushWordOwned, PushWordKept
    <2>2. Owned(e, K \ Range(vs)) /\ Kept(m, e, Mutable)
      BY <1>3, <2>1, GiveOwned, GiveKept
    <2> HIDE DEF e
    <2>3. Kept(mem, e, Mutable)
      BY <1>3, <2>1, <2>2, KeptTwice
    <2> QED BY <1>3, <2>2, <2>3 DEF Drop, e
  <1> DEFINE ms == {Drop(m, Range(vs)) : m \in PushWord(n, HBool(equal))}
  <1>6. \A r \in ms : Owned(r, Rest) /\ Kept(mem, r, Mutable)
    BY <1>5
  <1> HIDE DEF ms
  <1> QED BY <1>1, <1>6, OperandsSound DEF ms

LEMMA StaySound ==
  ASSUME Sound, status = "running", mem' = mem, frames' = frames, members' = members,
         status' # "freed"
  PROVE  SoundStep
  <1>1. Owned(mem, Rest)
    BY RunningFacts
  <1>2. Kept(mem, mem', Mutable)
    BY KeptSame
  <1> QED BY <1>1, <1>2, KeepSound

LEMMA JumpSound ==
  ASSUME Sound, Executable, Jump \/ Halt
  PROVE  SoundStep
  <1>1. CASE Jump
    BY <1>1, StaySound DEF Jump, At
  <1>2. CASE Halt
    BY <1>2, StaySound DEF Halt, Leave, At
  <1> QED BY <1>1, <1>2

LEMMA YieldSound ==
  ASSUME Sound, Executable, Yield
  PROVE  SoundStep
  <1> DEFINE e == Give(Below(mem, 1), {Top(mem)}, "lost")
  <1>1. At("YIELD") /\ mem' = e /\ status' = "yielded" /\ frames' = frames /\ members' = members
    BY DEF Yield, Leave, Lose
  <1>2. Owned(e, Rest) /\ status = "running" /\ Kept(mem, e, Mutable)
    BY <1>1, TopFacts DEF Takes1
  <1> HIDE DEF e
  <1>3. Owned(mem', Rest) /\ Kept(mem, mem', Mutable)
    BY <1>1, <1>2
  <1> QED BY <1>1, <1>2, <1>3, KeepSound

LEMMA PushFrameSound ==
  ASSUME Sound, status = "running", NEW f, NEW m, NEW next, push_frame(f, m, next),
         Owned(m, Rest), Kept(mem, m, Mutable)
  PROVE  SoundStep
  <1> DEFINE l == [i \in 1..Func(f).locals |-> Blank]
             x == [fn |-> f, return_ip |-> next,
                   base |-> Len(m.operands) - Func(f).captures - Func(f).args, locals |-> l]
  <1>1. /\ mem' = m /\ frames' = Append(frames, x) /\ status' = "running" /\ members' = members
    BY DEF push_frame
  <1>2. /\ Framed(frames) /\ InFrames = Cells(frames) /\ InFrames \cap InModules = {}
    BY RunningFacts
  <1>3. l \in [DOMAIN l -> Cell \cup {Blank}] /\ \A i \in DOMAIN l : l[i] = Blank
    OBVIOUS
  <1> HIDE DEF l
  <1>4. IsFrame(x) /\ \A i \in DOMAIN x.locals : x.locals[i] = Blank
    BY <1>3 DEF IsFrame
  <1> HIDE DEF x
  <1>5. Framed(frames') /\ Cells(frames') = Cells(frames)
    BY <1>1, <1>2, <1>4, PushFrame
  <1>6. Owned(mem', Cells(frames') \cup InModules)
    BY <1>1, <1>2, <1>5 DEF Rest
  <1> QED BY <1>1, <1>2, <1>5, <1>6, FramesSound

LEMMA CallSound ==
  ASSUME Sound, Executable, Call
  PROVE  SoundStep
  <1>1. push_frame(Op.n, mem, ip + 1) /\ status = "running"
    BY DEF Call, At
  <1>2. Owned(mem, Rest) /\ Kept(mem, mem, Mutable)
    BY <1>1, RunningFacts, KeptSame
  <1> QED BY <1>1, <1>2, PushFrameSound

LEMMA ReturnSound ==
  ASSUME Sound, Executable, Return
  PROVE  SoundStep
  <1> DEFINE cs == Stored(Last(frames))
             e == Give(mem, cs, "dropping")
  <1>1. /\ status = "running"
        /\ \/ mem' = e /\ frames' = Front(frames) /\ status' = status /\ members' = members
           \/ Stop("corrupted")
    BY DEF Return, At, Drop
  <1>2. CASE Stop("corrupted")
    BY <1>1, <1>2, StopSound
  <1>3. CASE mem' = e /\ frames' = Front(frames) /\ status' = status /\ members' = members
    <2>1. /\ Framed(frames) /\ InFrames = Cells(frames) /\ InFrames \cap InModules = {}
          /\ Owned(mem, Rest)
      BY <1>1, RunningFacts
    <2>2. frames # <<>>
      BY DEF Return, At, Executable
    <2>3. /\ Framed(Front(frames)) /\ Cells(Front(frames)) = Cells(frames) \ cs
          /\ cs \subseteq Cells(frames)
      BY <2>1, <2>2, PopFrame
    <2> HIDE DEF cs
    <2>4. Owned(e, Rest \ cs) /\ Kept(mem, e, Mutable)
      <3>1. cs \subseteq Rest \cup {Blank}
        BY <2>1, <2>3 DEF Rest
      <3> QED BY <2>1, <3>1, GiveOwned, GiveKept
    <2>5. /\ Rest \ cs = Cells(Front(frames)) \cup InModules
          /\ Cells(Front(frames)) \cap InModules = {}
      BY <2>1, <2>3 DEF Rest
    <2> HIDE DEF e
    <2>6. /\ Owned(mem', Cells(frames') \cup InModules) /\ Cells(frames') \cap InModules = {}
          /\ Kept(mem, mem', Mutable)
      BY <1>3, <2>4, <2>5
    <2> QED BY <1>1, <1>3, <2>3, <2>6, FramesSound
  <1> QED BY <1>1, <1>2, <1>3

LEMMA StoreLocalSound ==
  ASSUME Sound, Executable, StoreLocal
  PROVE  SoundStep
  <1> DEFINE c == Top(mem)
             x == Locals[Op.n]
             b == Below(mem, 1)
             gs == [frames EXCEPT ![Len(frames)].locals[Op.n] = c]
             L == Rest \cup {c}
  <1>1. /\ At("STORE") /\ mem' = Give(b, {x}, "lost") /\ frames' = gs /\ members' = members
        /\ status' = status
    BY DEF StoreLocal, Lose
  <1>2. status = "running" /\ c \in Cell /\ c \notin Rest /\ Owned(b, L)
        /\ Kept(mem, b, Mutable)
    BY <1>1, TopFacts DEF Takes1
  <1>3. /\ Framed(frames) /\ InFrames = Cells(frames) /\ InFrames \cap InModules = {}
    BY <1>2, RunningFacts
  <1>4. frames # <<>> /\ Op.n \in DOMAIN Last(frames).locals /\ x = Last(frames).locals[Op.n]
    BY <1>1, LocalFacts
  <1>5. c \notin Cells(frames)
    BY <1>2, <1>3 DEF Rest
  <1>6. /\ Framed(gs) /\ x \in Cells(frames) \cup {Blank}
        /\ Cells(gs) = (Cells(frames) \ {x}) \cup {c}
    <2> HIDE DEF c, x
    <2> QED BY <1>2, <1>3, <1>4, <1>5, StoreFrame
  <1>7. x \notin InModules /\ c # x /\ c \notin InModules
    BY <1>2, <1>3, <1>6, BlankAssumption DEF Rest, InModules
  <1> HIDE DEF c, x, b, gs
  <1>8. {x} \subseteq L \cup {Blank} /\ L \ {x} = Cells(gs) \cup InModules
        /\ Cells(gs) \cap InModules = {}
    BY <1>3, <1>6, <1>7 DEF Rest
  <1> HIDE DEF L
  <1> DEFINE e == Give(b, {x}, "lost")
  <1>9. Owned(e, L \ {x}) /\ Kept(b, e, Mutable)
    BY <1>2, <1>8, GiveOwned, GiveKept
  <1>10. /\ Owned(mem', Cells(frames') \cup InModules) /\ Cells(frames') \cap InModules = {}
         /\ Kept(mem, mem', Mutable)
    <2> HIDE DEF e
    <2> QED BY <1>1, <1>2, <1>8, <1>9, KeptTwice DEF e
  <1> QED BY <1>1, <1>2, <1>6, <1>10, FramesSound

(* A step that leaves the frames alone. *)
LEMMA MembersSound ==
  ASSUME Sound, status # "panic", frames' = frames, status' # "freed",
         NEW K, K = Range(members') \ {Blank}, Owned(mem', InFrames \cup K), InFrames \cap K = {},
         members' \in [DOMAIN Extern -> Cell \cup {Blank}], Single(members'),
         Kept(mem, mem', Mutable)
  PROVE  SoundStep
  <1>1. InFrames' = InFrames /\ InModules' = K /\ MembersOnce'
    BY DEF InFrames, InModules, MembersOnce, Single
  <1>2. Rest' = InFrames \cup K
    BY <1>1 DEF Rest
  <1> QED BY <1>1, <1>2 DEF SoundStep, Sound, Owned

(* module_get: the module member is there, in a cell of its own. *)
LEMMA MadeFacts ==
  ASSUME Sound, status # "panic", NEW name \in DOMAIN Extern, NEW made \in Made(name)
  PROVE  LET ms == [members EXCEPT ![name] = made.c]
             K == InFrames \cup (Range(ms) \ {Blank})
         IN /\ ms \in [DOMAIN Extern -> Cell \cup {Blank}]
            /\ Single(ms)
            /\ InFrames \cap (Range(ms) \ {Blank}) = {}
            /\ Owned(made.m, K) /\ made.m.operands = mem.operands /\ made.c \in Cell
            /\ Kept(mem, made.m, Mutable)
  <1> DEFINE c == made.c
             ms == [members EXCEPT ![name] = c]
             K == InFrames \cup (Range(ms) \ {Blank})
  <1>1. /\ Owned(mem, Rest) /\ InFrames \cap InModules = {}
        /\ members \in [DOMAIN Extern -> Cell \cup {Blank}] /\ MembersOnce
    BY RunningFacts
  <1>2. Single(members)
    BY <1>1 DEF MembersOnce, Single
  <1>3. CASE members[name] # Blank
    <2>1. made = [m |-> mem, c |-> members[name]]
      BY <1>3 DEF Made
    <2>2. made.m = mem /\ c = members[name] /\ c \in Cell /\ Kept(mem, mem, Mutable)
      BY <1>1, <1>3, <2>1, KeptSame
    <2>3. ms = members
      BY <1>1, <2>2
    <2> HIDE DEF ms, c
    <2>4. K = Rest
      BY <2>3 DEF Rest, InModules
    <2> QED BY <1>1, <1>2, <2>2, <2>3, <2>4 DEF InModules, ms, c
  <1>4. CASE members[name] = Blank
    <2> DEFINE data == Data(Extern[name].n, name)
    <2>1. PICK r \in PushNew(mem, name, data, <<>>) :
            made = [m |-> [r EXCEPT !.operands = mem.operands], c |-> Top(r)]
      BY <1>4 DEF Made
    <2> HIDE DEF data
    <2> DEFINE g == [r EXCEPT !.operands = mem.operands]
    <2>2. made.m = g /\ c = Top(r)
      BY <2>1
    <2>3. Owned(r, Rest) /\ Pushed(mem, r) /\ Kept(mem, r, Mutable)
      BY <1>1, KindFacts, PushBareOwned
    <2>4. PICK k \in Cell : r.operands = Append(mem.operands, k)
      BY <2>3 DEF Pushed
    <2>5. Owned(g, Rest \cup {k}) /\ Top(r) = k /\ k \notin Rest /\ g.operands = mem.operands
      BY <1>1, <2>3, <2>4, KeepOwned
    <2>10. Kept(mem, g, Mutable)
      <3>1. Kept(r, g, Mutable)
        BY <2>3, OperandsKept DEF Owned
      <3> QED BY <2>3, <3>1, KeptTwice
    <2> HIDE DEF g, c
    <2>6. c = k /\ c \in Cell /\ c \notin Rest
      BY <2>2, <2>5
    <2>7. c \notin Range(members)
      BY <2>6, BlankAssumption DEF Rest, InModules
    <2>8. /\ ms \in [DOMAIN Extern -> Cell \cup {Blank}] /\ Single(ms)
          /\ Range(ms) \ {Blank} = (Range(members) \ {Blank}) \cup {c}
      <3>1. /\ ms \in [DOMAIN Extern -> Cell \cup {Blank}] /\ ms[name] = c
            /\ \A x \in DOMAIN Extern : x # name => ms[x] = members[x]
        BY <1>1, <2>6
      <3> HIDE DEF ms
      <3>2. Single(ms) /\ Range(ms) \ {Blank} = (Range(members) \ {Blank}) \cup {c}
        BY <1>1, <1>2, <1>4, <2>6, <2>7, <3>1, AddMember
      <3> QED BY <3>1, <3>2
    <2> HIDE DEF ms
    <2>9. K = Rest \cup {k} /\ InFrames \cap (Range(ms) \ {Blank}) = {}
      BY <1>1, <2>6, <2>8 DEF Rest, InModules
    <2> QED BY <2>2, <2>5, <2>6, <2>8, <2>9, <2>10 DEF ms, c
  <1> QED BY <1>3, <1>4

LEMMA LoadExtSound ==
  ASSUME Sound, Executable, LoadExt
  PROVE  SoundStep
  <1> DEFINE name == mem.data[mem.heap.ref[Top(mem)]].s
             c == Top(mem)
  <1>1. /\ At("LOADEXT")
        /\ \/ Stop("panic")
           \/ \E made \in Made(name) :
                /\ name \in DOMAIN Extern
                /\ \E m \in PushRef(Below(made.m, 1), made.c) : mem' = Drop(m, {c})
                /\ members' = [members EXCEPT ![name] = made.c]
                /\ frames' = frames /\ status' = status
    BY DEF LoadExt
  <1>2. status = "running" /\ Len(mem.operands) >= 1
    BY <1>1, OperandFacts DEF Takes1
  <1>3. CASE Stop("panic")
    BY <1>2, <1>3, StopSound
  <1> HIDE DEF name
  <1>4. ASSUME NEW made \in Made(name), name \in DOMAIN Extern,
               NEW m \in PushRef(Below(made.m, 1), made.c), mem' = Drop(m, {c}),
               members' = [members EXCEPT ![name] = made.c],
               frames' = frames, status' = status
        PROVE  SoundStep
    <2> DEFINE ms == [members EXCEPT ![name] = made.c]
               L == Range(ms) \ {Blank}
               K == InFrames \cup L
               b == Below(made.m, 1)
    <2>1. /\ ms \in [DOMAIN Extern -> Cell \cup {Blank}]
          /\ Single(ms)
          /\ InFrames \cap L = {}
          /\ Owned(made.m, K) /\ made.m.operands = mem.operands /\ made.c \in Cell
          /\ Kept(mem, made.m, Mutable)
      BY <1>2, <1>4, MadeFacts
    <2>2. Top(made.m) = c
      BY <2>1 DEF Top
    <2> HIDE DEF ms, K, c
    <2>3. Owned(b, K \cup {c}) /\ c \notin K
      BY <1>2, <2>1, <2>2, TopOwned
    <2>11. Kept(made.m, b, Mutable)
      BY <2>1, BelowKept DEF Owned
    <2> HIDE DEF b
    <2>4. Owned(m, K \cup {c}) /\ Kept(b, m, Mutable)
      BY <1>4, <2>1, <2>3, PushRefOwned, PushRefKept DEF b
    <2>5. {c} \subseteq (K \cup {c}) \cup {Blank} /\ (K \cup {c}) \ {c} = K
      BY <2>3
    <2> DEFINE e == Give(m, {c}, "dropping")
    <2>6. Owned(e, (K \cup {c}) \ {c}) /\ Kept(m, e, Mutable)
      BY <2>4, <2>5, GiveOwned, GiveKept
    <2>12. mem' = e
      BY <1>4 DEF Drop
    <2> HIDE DEF e
    <2>7. Owned(mem', K) /\ Kept(mem, mem', Mutable)
      BY <2>1, <2>4, <2>5, <2>6, <2>11, <2>12, KeptTwice
    <2>8. members' = ms /\ K = InFrames \cup L
      BY <1>4 DEF ms, K
    <2>9. /\ L = Range(members') \ {Blank} /\ Owned(mem', InFrames \cup L)
          /\ members' \in [DOMAIN Extern -> Cell \cup {Blank}]
          /\ Single(members') /\ Kept(mem, mem', Mutable)
      BY <2>1, <2>7, <2>8
    <2>10. frames' = frames /\ status # "panic" /\ status' # "freed"
      BY <1>2, <1>4
    <2> HIDE DEF L
    <2> QED BY <2>1, <2>9, <2>10, MembersSound
  <1> QED BY <1>1, <1>3, <1>4

LEMMA DropFieldSound ==
  ASSUME Sound, DropField
  PROVE  SoundStep
  <1>1. PICK c \in UNION Fresh(Held(mem.heap, "dropping"), 1) :
          mem' = On(mem, hvalue_drop(mem.heap, c))
    BY DEF DropField
  <1>2. c \in Cell /\ mem.heap.own[c] = "dropping"
    BY DEF Fresh, Held
  <1>3. frames' = frames /\ members' = members /\ status' = status
    BY DEF DropField
  <1>4. /\ InFrames' = InFrames /\ InModules' = InModules /\ MembersOnce' = MembersOnce
    BY <1>3 DEF InFrames, InModules, MembersOnce
  <1>5. Rest' = Rest
    BY <1>4 DEF Rest
  <1>6. IsMemory(mem') /\ Shape(mem'.heap) /\ mem'.operands = mem.operands
    <2> DEFINE g == hvalue_drop(mem.heap, c)
    <2>2. Shape(g)
      <3>1. mem.heap.own[c] \notin Obj
        BY <1>2, HolderAssumption DEF Holder
      <3> QED BY <1>2, <3>1, DropShape DEF Sound
    <2> HIDE DEF g
    <2>3. IsMemory(On(mem, g)) /\ On(mem, g).heap = g /\ On(mem, g).operands = mem.operands
      BY OnParts DEF Sound
    <2> QED BY <1>1, <2>2, <2>3 DEF g
  <1>7. Owned(mem, Rest) => Owned(mem', Rest)
    BY <1>1, <1>2, DropOwned
  <1>8. Kept(mem, mem', Mutable)
    <2> DEFINE h == mem.heap
               g == hvalue_drop(h, c)
    <2>1. Shape(h) /\ IsMemory(mem) /\ h.own[c] \notin Obj
      BY <1>2, HolderAssumption DEF Sound, Holder
    <2>2. c \in InPlace
      BY <1>2 DEF InPlace, Held
    <2>3. \A o \in Obj : h.rc[o] > 1 \/ h.ref[c] # o => Untouched(h, g, o)
      BY <1>2, <2>1, DropShape
    <2> HIDE DEF g
    <2>4. ASSUME NEW o \in Live(h) \ Mutable PROVE Untouched(h, g, o)
      <3>1. o \in Obj /\ o \in Live(h)
        BY DEF Live
      <3>2. Refs(h, o) # {c}
        BY <2>2, <3>1 DEF Mutable
      <3>3. ~(h.rc[o] > 1 \/ h.ref[c] # o) => FALSE
        <4> SUFFICES ASSUME ~(h.rc[o] > 1), h.ref[c] = o PROVE FALSE
          OBVIOUS
        <4>1. h.rc[o] <= 1
          BY <2>1, <3>1 DEF Shape, Good, Heap
        <4>2. \A k \in Cell : h.ref[k] = o => k = c
          BY <1>2, <2>1, <3>1, <4>1, OneReference DEF Shape
        <4>3. Refs(h, o) = {c}
          BY <1>2, <4>2 DEF Refs
        <4> QED BY <3>2, <4>3
      <3> QED BY <2>3, <3>1, <3>3
    <2> HIDE DEF h
    <2> QED BY <1>1, <2>1, <2>4, OnKept DEF g, h
  <1> QED BY <1>3, <1>4, <1>5, <1>6, <1>7, <1>8 DEF SoundStep, Sound

LEMMA NoFrames == Framed(<<>>) /\ Cells(<<>>) = {}
  <1>1. <<>> \in Seq({}) /\ DOMAIN << >> = {}
    OBVIOUS
  <1>2. \A fs : DOMAIN fs = {} => OnceIn(fs) /\ Cells(fs) = {} /\ \A f \in DOMAIN fs : IsFrame(fs[f])
    BY DEF OnceIn, Cells
  <1> QED BY <1>1, <1>2 DEF Framed

LEMMA BlankMembers ==
  LET ms == [name \in DOMAIN Extern |-> Blank]
  IN /\ ms \in [DOMAIN Extern -> Cell \cup {Blank}] /\ Single(ms) /\ Range(ms) \ {Blank} = {}
  BY DEF Single, Range

(* Nothing is left but what is on its way to be dropped, or lost. *)
LEMMA FreeSound ==
  ASSUME Sound, status # "panic", Free(InFrames \cup InOperands \cup InModules)
  PROVE  SoundStep
  <1> DEFINE cs == InFrames \cup InOperands \cup InModules
             g == Given(mem.heap, cs, "dropping")
             n == On(mem, g)
  <1>1. /\ Owned(mem, Rest) /\ Shape(mem.heap) /\ IsMemory(mem)
    BY RunningFacts
  <1>2. cs = Held(mem.heap, "client")
    BY <1>1 DEF Owned, Rest, InOperands
  <1>3. Shape(g) /\ Held(g, "client") = {}
    <2> HIDE DEF cs
    <2> QED BY <1>1, <1>2, GivenShape
  <1>11. \A o \in Live(mem.heap) \ Mutable : Untouched(mem.heap, g, o)
    <2>1. /\ g.ref = mem.heap.ref /\ g.kind = mem.heap.kind /\ g.slot = mem.heap.slot
          /\ \A k \in Cell : g.own[k] = IF k \in cs THEN "dropping" ELSE mem.heap.own[k]
      BY <1>1 DEF Shape, Good, Heap, Given
    <2>2. \A k \in Cell : k \in cs => mem.heap.own[k] = "client"
      BY <1>2 DEF Held
    <2> HIDE DEF g, cs
    <2> QED BY <2>1, <2>2, HolderAssumption DEF Untouched, SameFields, Held, Holder, Live
  <1> HIDE DEF g
  <1>4. IsMemory(n) /\ n.heap = g /\ Kept(mem, n, Mutable)
    BY <1>1, <1>11, OnParts, OnKept
  <1>5. /\ mem' = [n EXCEPT !.operands = <<>>] /\ frames' = <<>> /\ status' = "freed"
        /\ members' = [name \in DOMAIN Extern |-> Blank]
    BY DEF Free, Drop, Give, Given, g
  <1> HIDE DEF n
  <1>6. IsMemory(mem') /\ mem'.heap = g /\ mem'.operands = <<>> /\ Kept(mem, mem', Mutable)
    BY <1>4, <1>5, OperandsParts, OperandsKept, KeptTwice
  <1>7. /\ Framed(frames') /\ Cells(frames') = {} /\ Single(members')
        /\ members' \in [DOMAIN Extern -> Cell \cup {Blank}] /\ Range(members') \ {Blank} = {}
    BY <1>5, NoFrames, BlankMembers
  <1>8. InFrames' = {} /\ InModules' = {} /\ MembersOnce'
    BY <1>7 DEF InFrames, Cells, InModules, MembersOnce, Single
  <1>9. Rest' = {}
    BY <1>8 DEF Rest
  <1>10. Owned(mem', {})
    <2>1. /\ mem'.operands \in Seq(Cell) /\ IsInjective(mem'.operands) /\ Range(mem'.operands) = {}
      BY <1>6, EmptyRow
    <2> QED BY <1>3, <1>6, <2>1 DEF Owned
  <1> QED BY <1>3, <1>5, <1>6, <1>7, <1>8, <1>9, <1>10 DEF SoundStep, Sound

LEMMA MachineFreeSound ==
  ASSUME Sound, machine_free
  PROVE  SoundStep
  <1>1. status # "panic"
    BY DEF machine_free, Finished
  <1> QED BY <1>1, FreeSound, StopSound DEF machine_free

(* A native with all its arguments is called and dropped, or forgotten. *)
LEMMA NativeSound ==
  ASSUME Sound, status = "running", NEW m, NEW d \in Cell, d \notin Rest, Owned(m, Rest \cup {d}),
         m.heap.ref[d] \in Obj, m.heap.kind[m.heap.ref[d]] \in Native,
         m.heap.kind[m.heap.ref[d]] # "free",
         Count(m, d) = NativeMeta[m.heap.kind[m.heap.ref[d]]].argc, hvalue_native_call(m, d),
         Kept(mem, m, Mutable)
  PROVE  SoundStep
  <1> DEFINE K == Rest \cup {d}
             native == m.heap.kind[m.heap.ref[d]]
             result == NativeOutcome(native, Term(m, d).args)
             Returns(ms) == /\ \E r \in ms : mem' = Drop(r, {d})
                            /\ UNCHANGED <<loaded, status, outcome, frames, members>>
  <1>1. K \ {d} = Rest /\ {d} \subseteq K \cup {Blank}
    OBVIOUS
  <1>2. Shape(m.heap) /\ IsMemory(m)
    BY DEF Owned
  <1>3. \/ NativeMeta[native].call = "arg" /\ Returns(PushRef(m, Field(m, d, 1)))
        \/ result \in Word /\ Returns(PushWord(m, result))
        \/ \E failed \in PushNew(m, "string", NoData, <<>>) :
             Leave("error", Lose([failed EXCEPT !.operands = m.operands], {d, Top(failed)}), result)
        \/ Leave("panic", m, result)
    BY DEF hvalue_native_call
  <1>4. ASSUME NEW ms, Returns(ms), \A r \in ms : Owned(r, K) /\ Kept(m, r, Mutable)
        PROVE  SoundStep
    <2>1. PICK r \in ms : mem' = Give(r, {d}, "dropping")
      BY <1>4 DEF Drop
    <2>2. Owned(r, K) /\ Kept(m, r, Mutable)
      BY <1>4
    <2> DEFINE e == Give(r, {d}, "dropping")
    <2> HIDE DEF K
    <2>3. Owned(e, K \ {d}) /\ Kept(r, e, Mutable)
      BY <1>1, <2>2, GiveOwned, GiveKept
    <2>6. mem' = e
      BY <2>1
    <2> HIDE DEF e
    <2>4. Owned(mem', Rest) /\ Kept(mem, mem', Mutable)
      BY <1>1, <2>2, <2>3, <2>6, KeptTwice
    <2>5. frames' = frames /\ members' = members /\ status' = "running"
      BY <1>4
    <2> QED BY <2>4, <2>5, KeepSound
  <1>5. CASE NativeMeta[native].call = "arg" /\ Returns(PushRef(m, Field(m, d, 1)))
    <2> DEFINE o == m.heap.ref[d]
    <2>1. Count(m, d) \in Nat /\ Count(m, d) > 0
      BY <1>5, ArgcAssumption
    <2>2. 1 \in 1..Count(m, d)
      BY <2>1
    <2>3. Field(m, d, 1) \in Cell
      BY <1>2, <2>2, ArgFacts DEF Field, Count
    <2> HIDE DEF K
    <2>4. \A r \in PushRef(m, Field(m, d, 1)) : Owned(r, K) /\ Kept(m, r, Mutable)
      BY <2>3, PushRefOwned, PushRefKept DEF K
    <2> QED BY <1>4, <1>5, <2>4
  <1>6. CASE result \in Word /\ Returns(PushWord(m, result))
    <2> HIDE DEF K, result
    <2>1. \A r \in PushWord(m, result) : Owned(r, K) /\ Kept(m, r, Mutable)
      BY <1>6, PushWordOwned, PushWordKept DEF K
    <2> QED BY <1>4, <1>6, <2>1
  <1>7. ASSUME NEW failed \in PushNew(m, "string", NoData, <<>>),
               Leave("error", Lose([failed EXCEPT !.operands = m.operands], {d, Top(failed)}), result)
        PROVE  SoundStep
    <2> DEFINE n == [failed EXCEPT !.operands = m.operands]
               kind == "string"
               c == Top(failed)
               cs == {d, c}
               L == K \cup {c}
    <2>1. kind \in Kind \ {"free"} /\ kind \notin Pairs /\ failed \in PushNew(m, kind, NoData, <<>>)
      BY KindFacts
    <2> HIDE DEF kind, K, c
    <2>2. Owned(m, K)
      BY DEF K
    <2>3. Owned(failed, K) /\ Pushed(m, failed) /\ Kept(m, failed, Mutable)
      BY <2>1, <2>2, PushBareOwned
    <2>4. PICK k \in Cell : failed.operands = Append(m.operands, k)
      BY <2>3 DEF Pushed
    <2>5. Owned(n, K \cup {k}) /\ Top(failed) = k /\ k \notin K
      BY <2>2, <2>3, <2>4, KeepOwned
    <2>10. Kept(failed, n, Mutable)
      BY <2>3, OperandsKept DEF Owned
    <2>6. Owned(n, L) /\ L \ cs = Rest /\ cs \subseteq L \cup {Blank}
      BY <2>5 DEF c, K
    <2>7. /\ mem' = Give(n, cs, "lost") /\ status' = "error"
          /\ frames' = frames /\ members' = members
      BY <1>7 DEF Leave, Lose, c
    <2> HIDE DEF n, cs, L
    <2> DEFINE e == Give(n, cs, "lost")
    <2>8. Owned(e, L \ cs) /\ Kept(n, e, Mutable)
      BY <2>6, GiveOwned, GiveKept
    <2>11. mem' = e
      BY <2>7
    <2> HIDE DEF e
    <2>9. Owned(mem', Rest) /\ Kept(mem, mem', Mutable)
      BY <2>3, <2>6, <2>8, <2>10, <2>11, KeptTwice
    <2> QED BY <2>7, <2>9, KeepSound
  <1>8. CASE Leave("panic", m, result)
    <2>1. mem' = m /\ status' = "panic" /\ frames' = frames /\ members' = members
      BY <1>8 DEF Leave
    <2>2. InFrames' = InFrames /\ InModules' = InModules /\ MembersOnce' = MembersOnce
      BY <2>1 DEF InFrames, InModules, MembersOnce
    <2> QED BY <1>2, <2>1, <2>2 DEF SoundStep, Sound
  <1> HIDE DEF Returns
  <1> QED BY <1>3, <1>5, <1>6, <1>7, <1>8

LEMMA CallableFacts ==
  \A kind \in Fn \cup Native : kind \notin Pairs
  BY KindAssumption DEF Pairs

(* An object that is new, or that may change anyway, need not be excepted. *)
LEMMA KeptNew ==
  ASSUME NEW m, NEW g, NEW X, NEW o, Kept(m, g, X \cup {o}), o \in Live(m.heap) => o \in X
  PROVE  Kept(m, g, X)
  BY DEF Kept

LEMMA KeptLess ==
  ASSUME NEW m, NEW g, NEW X, NEW Y, Kept(m, g, X), X \subseteq Y
  PROVE  Kept(m, g, Y)
  BY DEF Kept

(* The copy or the reference that hvalue_uniq gives takes the arguments, and *)
(* is kept, entered or called.                                             *)
LEMMA AppliedSound ==
  ASSUME Sound, status = "running", NEW n \in Nat,
         NEW m, NEW d \in Cell, d \notin Rest, Owned(m, Rest \cup {d}), n <= Len(m.operands),
         m.heap.ref[d] \in Obj, m.heap.kind[m.heap.ref[d]] \in Fn \cup Native,
         m.heap.kind[m.heap.ref[d]] # "free",
         \A k \in Cell : m.heap.ref[k] = m.heap.ref[d] => k = d,
         Kept(mem, m, Mutable), m.heap.ref[d] \in Live(mem.heap) => m.heap.ref[d] \in Mutable,
         LET left == ArgsLeft(m, d)
             full == WithArgs(Below(m, n), d, Popped(m, n))
         IN IF n > left THEN Stop("panic")
            ELSE \/ /\ mem' = PushCell(full, d)
                    /\ UNCHANGED <<loaded, status, outcome, frames, members>>
                 \/ push_frame(m.data[m.heap.ref[d]].n, EnterClosure(m, d), ip + 1)
                 \/ /\ n = left /\ Is(m, d, Native)
                    /\ hvalue_native_call(full, d)
  PROVE  SoundStep
  <1> DEFINE o == m.heap.ref[d]
             left == ArgsLeft(m, d)
             row == Popped(m, n)
             b == Below(m, n)
             full == WithArgs(b, d, row)
             K == Rest \cup {d}
             L == K \cup Range(row)
             X == Mutable \cup {o}
  <1>1. /\ Owned(m, K) /\ d \in K /\ K \ {d} = Rest /\ n \in 0..Len(m.operands)
        /\ m.heap.kind[o] \notin Pairs
    <2>1. Len(m.operands) \in Nat
      BY LenProperties DEF Owned
    <2> QED BY <2>1, CallableFacts
  <1>2. /\ Owned(b, L) /\ b.heap = m.heap /\ Range(row) \cap K = {}
        /\ row \in Seq(Cell) /\ IsInjective(row) /\ Len(row) = n
        /\ Kept(m, b, X)
    <2>1. IsMemory(m)
      BY DEF Owned
    <2> HIDE DEF K, L, b, row, X
    <2> QED BY <1>1, <2>1, BelowOwned, BelowKept DEF L, b, row
  <1>3. d \in L /\ Range(row) \subseteq L \ {d} /\ L \ Range(row) = K
    BY <1>2
  <1>4. /\ Owned(full, K) /\ full.heap.ref = m.heap.ref /\ full.heap.kind = m.heap.kind
        /\ Count(full, d) = Count(m, d) + n /\ Kept(mem, full, Mutable)
    <2>1. Count(b, d) = Count(m, d)
      BY <1>2 DEF Count
    <2>2. /\ b.heap.ref[d] \in Obj /\ b.heap.kind[b.heap.ref[d]] # "free"
          /\ b.heap.kind[b.heap.ref[d]] \notin Pairs
          /\ \A k \in Cell : b.heap.ref[k] = b.heap.ref[d] => k = d
      BY <1>1, <1>2
    <2> HIDE DEF b, row, L, K
    <2>3. PutIn(b, L, d, row, full)
      BY <1>2, <1>3, <2>2, PutOwned
    <2>4. o \in X /\ b.heap.ref[d] \in X /\ Kept(mem, m, X)
      BY <1>2, KeptLess
    <2> HIDE DEF full, X
    <2>5. Kept(b, full, X)
      BY <2>3, <2>4, PutKept
    <2>6. Kept(mem, full, X)
      BY <1>2, <2>4, <2>5, KeptTwice
    <2>7. Kept(mem, full, Mutable)
      BY <2>6, KeptNew DEF X
    <2> QED BY <1>2, <1>3, <2>1, <2>3, <2>7 DEF PutIn
  <1>5. \/ Stop("panic")
        \/ mem' = PushCell(full, d) /\ frames' = frames /\ members' = members /\ status' = status
        \/ push_frame(m.data[o].n, EnterClosure(m, d), ip + 1)
        \/ n = left /\ Is(m, d, Native) /\ hvalue_native_call(full, d)
    OBVIOUS
  <1>6. CASE Stop("panic")
    BY <1>6, StopSound
  <1> HIDE DEF full
  <1>7. CASE mem' = PushCell(full, d) /\ frames' = frames /\ members' = members /\ status' = status
    <2> HIDE DEF K
    <2>1. Owned(PushCell(full, d), K \ {d})
      BY <1>1, <1>4, PushOwned
    <2>3. Kept(mem, PushCell(full, d), Mutable)
      <3>1. Kept(full, PushCell(full, d), Mutable)
        BY <1>4, CellKept DEF Owned
      <3> QED BY <1>4, <3>1, KeptTwice
    <2>2. /\ Owned(mem', Rest) /\ status' # "freed" /\ status # "panic"
          /\ Kept(mem, mem', Mutable)
      BY <1>1, <1>7, <2>1, <2>3
    <2> QED BY <1>7, <2>2, KeepSound
  <1>8. CASE push_frame(m.data[o].n, EnterClosure(m, d), ip + 1)
    <2> HIDE DEF K
    <2>1. Owned(EnterClosure(m, d), K \ {d})
      BY <1>1, EnterOwned
    <2>2. Owned(EnterClosure(m, d), Rest)
      BY <1>1, <2>1
    <2>3. Kept(mem, m, X) /\ o \in X
      BY KeptLess
    <2>4. Kept(m, EnterClosure(m, d), X)
      <3> HIDE DEF X
      <3> QED BY <1>1, <2>3, EnterKept
    <2>5. Kept(mem, EnterClosure(m, d), X)
      BY <2>3, <2>4, KeptTwice
    <2>6. Kept(mem, EnterClosure(m, d), Mutable)
      BY <2>5, KeptNew
    <2> QED BY <1>8, <2>2, <2>6, PushFrameSound
  <1>9. CASE n = left /\ Is(m, d, Native) /\ hvalue_native_call(full, d)
    <2> DEFINE native == m.heap.kind[o]
    <2>1. native \in Native /\ native # "closure"
      BY <1>9, ClosureAssumption DEF Is
    <2>2. left = NativeMeta[native].argc - Count(m, d)
      BY <2>1 DEF ArgsLeft, Arity
    <2>3. Count(m, d) \in Nat
      <3>1. Shape(m.heap)
        BY DEF Owned
      <3> HIDE DEF o
      <3>2. o \in Obj /\ m.heap.kind[o] # "free"
        BY DEF o
      <3> QED BY <3>1, <3>2, ArgFacts DEF Count, o
    <2>4. NativeMeta[native].argc \in Nat
      BY <2>1, ArgcAssumption
    <2> HIDE DEF native
    <2>5. Count(full, d) = NativeMeta[native].argc
      BY <1>4, <1>9, <2>2, <2>3, <2>4
    <2>6. /\ full.heap.ref[d] \in Obj /\ full.heap.kind[full.heap.ref[d]] = native
          /\ native # "free"
      BY <1>4 DEF native
    <2> HIDE DEF left
    <2> QED BY <1>4, <1>9, <2>1, <2>5, <2>6, NativeSound
  <1> QED BY <1>5, <1>6, <1>7, <1>8, <1>9

LEMMA CallValSound ==
  ASSUME CloneContract, Sound, Executable, CallVal
  PROVE  SoundStep
  <1> DEFINE c == Top(mem)
             m == Below(mem, 1)
             n == Op.n
             K == Rest \cup {c}
  <1>1. /\ At("CALLVAL")
        /\ IF Is(mem, c, Fn \cup Native) THEN Apply(m, c, n) ELSE Stop("panic")
    BY DEF CallVal
  <1>2. status = "running" /\ n \in Nat /\ n + 1 \in 0..Len(mem.operands) /\ Owned(mem, Rest)
        /\ Len(mem.operands) \in Nat
    BY <1>1, OperandFacts, RunningFacts
  <1>3. Len(mem.operands) >= 1
    BY <1>2
  <1>4. /\ Owned(m, K) /\ m.heap = mem.heap /\ Len(m.operands) = Len(mem.operands) - 1
        /\ c \in Cell /\ c \notin Rest
    <2> HIDE DEF n
    <2> QED BY <1>2, <1>3, TopOwned
  <1>5. n <= Len(m.operands) /\ c \in K /\ K \ {c} = Rest
    BY <1>2, <1>4
  <1>8. c \in InPlace /\ Kept(mem, m, Mutable)
    BY <1>1, <1>2, BelowKept DEF InPlace, Owned
  <1> HIDE DEF c, m, n, K
  <1>6. CASE Stop("panic")
    BY <1>2, <1>6, StopSound
  <1>7. CASE Is(mem, c, Fn \cup Native) /\ Apply(m, c, n)
    <2>1. m.heap.ref[c] \in Obj /\ m.heap.kind[m.heap.ref[c]] \in Fn \cup Native
      BY <1>4, <1>7 DEF Is
    <2>2. PICK u \in Unique(m, c) :
            LET left == ArgsLeft(u.m, u.c)
                full == WithArgs(Below(u.m, n), u.c, Popped(m, n))
            IN IF n > left THEN Stop("panic")
               ELSE \/ /\ mem' = PushCell(full, u.c)
                       /\ UNCHANGED <<loaded, status, outcome, frames, members>>
                    \/ push_frame(u.m.data[u.m.heap.ref[u.c]].n, EnterClosure(u.m, u.c), ip + 1)
                    \/ /\ n = left /\ Is(u.m, u.c, Native)
                       /\ hvalue_native_call(full, u.c)
      BY <1>7 DEF Apply
    <2>3. Uniquely(m, K, c, u)
      BY <1>4, <1>5, <2>1, UniqueOwned
    <2>4. /\ Owned(u.m, Rest \cup {u.c}) /\ u.m.operands = m.operands
          /\ u.c \in Cell /\ u.c \notin Rest
          /\ u.m.heap.ref[u.c] \in Obj /\ u.m.heap.kind[u.m.heap.ref[u.c]] # "free"
          /\ u.m.heap.kind[u.m.heap.ref[u.c]] \in Fn \cup Native
          /\ \A k \in Cell : u.m.heap.ref[k] = u.m.heap.ref[u.c] => k = u.c
      BY <1>5, <2>1, <2>3 DEF Uniquely
    <2>8. /\ Kept(mem, u.m, Mutable)
          /\ u.m.heap.ref[u.c] \in Live(mem.heap) => u.m.heap.ref[u.c] \in Mutable
      <3>1. u \in Unique(m, c)
        BY <2>2
      <3>2. /\ Kept(m, u.m, Mutable)
            /\ u.m.heap.ref[u.c] \in Live(m.heap) => Refs(m.heap, u.m.heap.ref[u.c]) = {c}
        BY <1>4, <1>5, <2>1, <3>1, UniqueKept
      <3> QED BY <1>4, <1>8, <3>2, KeptTwice DEF Mutable
    <2>5. Popped(m, n) = Popped(u.m, n) /\ n <= Len(u.m.operands)
      BY <1>5, <2>4 DEF Popped
    <2> DEFINE w == u.m
               d == u.c
    <2>6. LET left == ArgsLeft(w, d)
              full == WithArgs(Below(w, n), d, Popped(w, n))
          IN IF n > left THEN Stop("panic")
             ELSE \/ /\ mem' = PushCell(full, d)
                     /\ UNCHANGED <<loaded, status, outcome, frames, members>>
                  \/ push_frame(w.data[w.heap.ref[d]].n, EnterClosure(w, d), ip + 1)
                  \/ /\ n = left /\ Is(w, d, Native)
                     /\ hvalue_native_call(full, d)
      BY <2>2, <2>5, Zenon
    <2> HIDE DEF w, d
    <2>7. /\ Owned(w, Rest \cup {d}) /\ d \in Cell /\ d \notin Rest /\ n <= Len(w.operands)
          /\ w.heap.ref[d] \in Obj /\ w.heap.kind[w.heap.ref[d]] # "free"
          /\ w.heap.kind[w.heap.ref[d]] \in Fn \cup Native
          /\ \A k \in Cell : w.heap.ref[k] = w.heap.ref[d] => k = d
          /\ Kept(mem, w, Mutable)
          /\ w.heap.ref[d] \in Live(mem.heap) => w.heap.ref[d] \in Mutable
      BY <2>4, <2>5, <2>8 DEF w, d
    <2> QED BY <1>2, <2>6, <2>7, AppliedSound
  <1> QED BY <1>1, <1>6, <1>7

-----------------------------------------------------------------------------
(* The machine. *)

LEMMA InitSound ==
  ASSUME machine_init
  PROVE  Sound
  <1> DEFINE h == EmptyHeap
             data == [o \in Obj |-> NoData]
  <1>1. /\ mem = [heap |-> h, data |-> data, operands |-> <<>>] /\ frames = <<>>
        /\ members = [name \in DOMAIN Extern |-> Blank] /\ status = "running"
    BY DEF machine_init
  <1>2. Shape(h) /\ Held(h, "client") = {}
    BY EmptyShape DEF EmptyHeap, Held
  <1> HIDE DEF h
  <1>3. IsMemory(mem) /\ mem.heap = h /\ mem.operands = <<>>
    <2>1. data = [o \in Obj |-> data[o]]
      OBVIOUS
    <2> HIDE DEF data
    <2> QED BY <1>1, <2>1 DEF IsMemory
  <1>4. /\ Framed(frames) /\ Cells(frames) = {} /\ Single(members)
        /\ members \in [DOMAIN Extern -> Cell \cup {Blank}] /\ Range(members) \ {Blank} = {}
    BY <1>1, NoFrames, BlankMembers
  <1>5. InFrames = {} /\ InModules = {} /\ Rest = {} /\ MembersOnce
    BY <1>4 DEF InFrames, Cells, InModules, Rest, MembersOnce, Single
  <1>6. Owned(mem, Rest)
    <2>1. /\ mem.operands \in Seq(Cell) /\ IsInjective(mem.operands) /\ Range(mem.operands) = {}
      BY <1>3, EmptyRow
    <2> QED BY <1>2, <1>3, <1>5, <2>1 DEF Owned
  <1> QED BY <1>1, <1>2, <1>3, <1>4, <1>5, <1>6 DEF Sound

LEMMA StepSound ==
  ASSUME CloneContract, Sound, Executable, machine_step
  PROVE  SoundStep
  <1>1. CASE Jump \/ Halt
    BY <1>1, JumpSound
  <1>2. CASE JumpIf
    BY <1>2, JumpIfSound
  <1>3. CASE Call
    BY <1>3, CallSound
  <1>4. CASE Return
    BY <1>4, ReturnSound
  <1>5. CASE Load
    BY <1>5, LoadSound
  <1>6. CASE StoreLocal
    BY <1>6, StoreLocalSound
  <1>7. CASE Dup
    BY <1>7, DupSound
  <1>8. CASE Pop
    BY <1>8, PopSound
  <1>9. CASE Swap
    BY <1>9, SwapSound
  <1>10. CASE PushInt \/ PushTrue \/ PushFalse
    BY <1>10, PushScalarSound
  <1>11. CASE PushStr
    BY <1>11, PushStrSound
  <1>12. CASE MakeCls
    BY <1>12, MakeClsSound
  <1>13. CASE CallVal
    BY <1>13, CallValSound
  <1>14. CASE ChkTuple \/ ChkNil \/ ChkCons
    BY <1>14, ChecksSound
  <1>15. CASE TupleGet
    BY <1>15, TupleGetSound
  <1>16. CASE MakeTuple
    BY <1>16, MakeTupleSound
  <1>17. CASE MakeList
    BY <1>17, MakeListSound
  <1>18. CASE Uncons
    BY <1>18, UnconsSound
  <1>19. CASE Concat
    BY <1>19, ConcatSound
  <1>20. CASE Eq
    BY <1>20, EqSound
  <1>21. CASE LoadExt
    BY <1>21, LoadExtSound
  <1>22. CASE Yield
    BY <1>22, YieldSound
  <1> QED BY <1>1, <1>2, <1>3, <1>4, <1>5, <1>6, <1>7, <1>8, <1>9, <1>10, <1>11, <1>12, <1>13,
             <1>14, <1>15, <1>16, <1>17, <1>18, <1>19, <1>20, <1>21, <1>22 DEF machine_step

LEMMA NextSound ==
  ASSUME CloneContract, Sound, Executable, [Next]_vars
  PROVE  SoundStep
  <1>1. CASE machine_step
    BY <1>1, StepSound
  <1>2. CASE DropField
    BY <1>2, DropFieldSound
  <1>3. CASE machine_free
    BY <1>3, MachineFreeSound
  <1>4. CASE UNCHANGED vars
    <2>1. /\ mem' = mem /\ frames' = frames /\ members' = members /\ status' = status
      BY <1>4 DEF vars
    <2>2. /\ InFrames' = InFrames /\ InModules' = InModules /\ MembersOnce' = MembersOnce
      BY <2>1 DEF InFrames, InModules, MembersOnce
    <2>3. Rest' = Rest
      BY <2>2 DEF Rest
    <2>4. Kept(mem, mem', Mutable)
      BY <2>1, KeptSame
    <2> QED BY <2>1, <2>2, <2>3, <2>4 DEF SoundStep, Sound
  <1> QED BY <1>1, <1>2, <1>3, <1>4 DEF Next, Stopped

(* Whatever program the machine runs: while its instructions find the       *)
(* operands, locals and fields they take, the memory is sound.             *)
THEOREM AlwaysSound == CloneContract /\ Spec /\ []Executable => []Sound
  <1>1. machine_init => Sound
    BY InitSound
  <1>2. CloneContract /\ Sound /\ Executable /\ [Next]_vars => Sound'
    BY NextSound DEF SoundStep
  <1>3. CloneContract => CloneContract'
    OBVIOUS
  <1> QED BY <1>1, <1>2, <1>3, PTL DEF Spec

(* The counts of the HValues in machine.c and value.c are exact after every *)
(* instruction and every free of any program: no path of machine_step       *)
(* forgets a reference, or counts one twice.                               *)
THEOREM MachineCounts == CloneContract /\ Spec /\ []Executable => []CountsExact
  <1>1. Sound => CountsExact
    BY DEF Sound, Shape, Good, Counted, CountsExact
  <1> QED BY <1>1, AlwaysSound, PTL

(* Every HValue that the machine has and has not forgotten is in exactly    *)
(* one operand, local or module member, in every state of any program.     *)
THEOREM MachineHoldings == CloneContract /\ Spec /\ []Executable => []HoldsEachOnce
  <1>1. ASSUME Sound PROVE HoldsEachOnce
    <2> SUFFICES ASSUME status # "panic" PROVE HoldsEachOnce
      BY DEF HoldsEachOnce
    <2>1. Owned(mem, Rest) /\ InFrames \cap InModules = {} /\ MembersOnce /\ OnceIn(frames)
      BY <1>1 DEF Sound, Framed
    <2>2. LocalsOnce
      BY <2>1 DEF LocalsOnce, OnceIn
    <2> QED BY <2>1, <2>2 DEF HoldsEachOnce, Owned, Rest, InOperands
  <1> QED BY <1>1, AlwaysSound, PTL

(* machine_free gives back every object of any program that has forgotten   *)
(* none: what is left would have an object that no field refers to, and so  *)
(* a count of zero.                                                        *)
THEOREM MachineMemory == CloneContract /\ Spec /\ []Executable => []MemoryReturned
  <1>1. ASSUME Sound PROVE MemoryReturned
    <2> DEFINE h == mem.heap
    <2> SUFFICES ASSUME status = "freed", Idle,
                        \A c \in Held(h, "lost") : h.ref[c] \notin Obj, Live(h) # {}
                 PROVE  FALSE
      BY DEF MemoryReturned
    <2>1. Shape(h) /\ Held(h, "client") = {} /\ Held(h, "dropping") = {}
      <3>1. Owned(mem, {}) /\ mem.operands = <<>>
        BY <1>1 DEF Sound
      <3> QED BY <3>1, EmptyRow DEF Owned, Idle
    <2> HIDE DEF h
    <2>2. PICK o \in Live(h) : \A c \in Cell : h.own[c] \in Live(h) => h.ref[c] # o
      BY <2>1 DEF Shape, AcyclicIn
    <2>3. o \in Obj /\ h.rc[o] # 0
      BY <2>1 DEF Shape, Good, FreedAtZero, Live
    <2>4. Refs(h, o) # {}
      BY <2>1, <2>3, FS_EmptySet DEF Shape, Good, Counted
    <2>5. PICK c \in Cell : h.ref[c] = o
      BY <2>4 DEF Refs
    <2>6. h.own[c] \in Obj \cup Holder
      BY <2>1 DEF Shape, Good, Heap
    <2>7. h.own[c] # "unused"
      BY <2>1, <2>3, <2>5, WordAssumption DEF Shape, Good, UnusedEmpty
    <2>8. h.own[c] # "client" /\ h.own[c] # "dropping" /\ h.own[c] # "lost"
      BY <2>1, <2>3, <2>5 DEF Held
    <2>9. h.own[c] \in Live(h)
      BY <2>1, <2>6, <2>7, <2>8 DEF Shape, Good, OwnersLive, Live, Holder
    <2> QED BY <2>2, <2>5, <2>9
  <1> QED BY <1>1, AlwaysSound, PTL
(* Whatever program runs: what a step changes or frees, nobody refers to    *)
(* but the callee or the HValue that is dropped.  hvalue_uniq copies when   *)
(* it must, and OP_CALLVAL changes nothing that a local, a field, a module  *)
(* or another operand still has.                                           *)
THEOREM MachineChanges == CloneContract /\ Spec /\ []Executable => ChangedAlone
  <1> DEFINE Alone == \A o \in Live(mem.heap) :
                        \/ Content(mem', o) = Content(mem, o)
                        \/ \E c \in InPlace : Refs(mem.heap, o) = {c}
  <1>1. ASSUME Kept(mem, mem', Mutable) PROVE Alone
    <2> SUFFICES ASSUME NEW o \in Live(mem.heap), o \notin Mutable
                 PROVE  Content(mem', o) = Content(mem, o)
      BY DEF Mutable
    <2>1. Untouched(mem.heap, mem'.heap, o) /\ mem'.data[o] = mem.data[o]
      BY <1>1 DEF Kept
    <2>2. /\ mem'.heap.kind[o] = mem.heap.kind[o]
          /\ Held(mem'.heap, o) = Held(mem.heap, o)
          /\ \A k \in Held(mem.heap, o) : /\ mem'.heap.slot[k] = mem.heap.slot[k]
                                           /\ mem'.heap.ref[k] = mem.heap.ref[k]
      BY <2>1 DEF Untouched, SameFields
    <2> QED BY <2>1, <2>2 DEF Content
  <1>2. CloneContract /\ Sound /\ Executable /\ [Next]_vars => [Alone]_vars
    BY <1>1, NextSound DEF SoundStep
  <1>3. CloneContract => CloneContract'
    OBVIOUS
  <1> HIDE DEF Alone
  <1>4. CloneContract /\ Spec /\ []Executable => [][Alone]_vars
    BY <1>2, <1>3, AlwaysSound, PTL DEF Spec
  <1> QED BY <1>4 DEF ChangedAlone, Alone
=============================================================================
