--------------------------- MODULE BytecodeProofs ---------------------------
(* Whatever the visitors leave, its bytes are read back as the program that *)
(* the linker makes of it, and the machine stays on its instructions.       *)
EXTENDS Bytecode, SequenceTheorems, WellFoundedInduction, TLAPS

-----------------------------------------------------------------------------
(* Recursive functions over an interval exist, and smallest numbers.        *)

(* A set of natural numbers that is not empty has a smallest member. *)
LEMMA Least ==
  ASSUME NEW T \in SUBSET Nat, T # {}
  PROVE  \E x \in T : \A y \in T : x <= y
  <1> DEFINE R == {p \in Nat \X Nat : p[1] < p[2]}
  <1>1. IsWellFoundedOn(R, Nat)
    BY NatLessThanWellFounded DEF OpToRel
  <1>2. PICK x \in T : \A y \in T : <<y, x>> \notin R
    BY <1>1, WFMin
  <1>3. \A y \in T : <<y, x>> \in Nat \X Nat /\ <<y, x>>[1] = y /\ <<y, x>>[2] = x
    OBVIOUS
  <1>4. \A y \in T : ~(y < x)
    BY <1>2, <1>3
  <1>5. \A y \in T : x <= y
    BY <1>4
  <1> QED BY <1>5

(* f begins with first at a and goes on by g up to b. *)
Steps(f, a, b, first, g) ==
  f = [i \in a..b |-> IF i = a THEN first ELSE g[<<i, f[i - 1]>>]]

(* There is such a function, and its values stay in S. *)
LEMMA StepsExist ==
  ASSUME NEW a \in Nat, NEW b \in Nat, NEW S, NEW first \in S,
         NEW g, \A i \in (a + 1)..b : \A x \in S : g[<<i, x>>] \in S
  PROVE  \E f \in [a..b -> S] : Steps(f, a, b, first, g)
  <1> DEFINE has(l) == \E f \in [a..l -> S] : Steps(f, a, l, first, g)
             T == {l \in Nat : l <= b /\ ~has(l)}
  <1> SUFFICES ASSUME T # {} PROVE FALSE
    OBVIOUS
  <1>0. T \in SUBSET Nat
    OBVIOUS
  <1> HIDE DEF T
  <1>1. PICK l \in T : \A k \in T : l <= k
    BY <1>0, Least
  <1>2. l \in Nat /\ l <= b /\ ~has(l)
    BY <1>1 DEF T
  <1>3. CASE l < a
    <2> DEFINE f == [i \in a..l |-> first]
    <2>1. a..l = {}
      BY <1>2, <1>3
    <2>2. f \in [a..l -> S] /\ Steps(f, a, l, first, g)
      BY <2>1 DEF Steps
    <2> QED BY <1>2, <2>2
  <1>4. CASE l = a
    <2> DEFINE f == [i \in a..l |-> first]
    <2>1. a..l = {a}
      BY <1>2, <1>4
    <2>2. f \in [a..l -> S] /\ Steps(f, a, l, first, g)
      BY <2>1 DEF Steps
    <2> QED BY <1>2, <2>2
  <1>5. CASE l > a
    <2>1. l - 1 \in Nat /\ l - 1 >= a /\ l - 1 <= b /\ ~(l <= l - 1)
      BY <1>2, <1>5
    <2>2. has(l - 1)
      BY <1>1, <2>1 DEF T
    <2>3. PICK f \in [a..(l - 1) -> S] : Steps(f, a, l - 1, first, g)
      BY <2>2
    <2>4. g[<<l, f[l - 1]>>] \in S
      BY <1>2, <1>5, <2>1, <2>3
    <2> DEFINE h == [i \in a..l |-> IF i = l THEN g[<<l, f[l - 1]>>] ELSE f[i]]
    <2>5. h \in [a..l -> S]
      BY <1>2, <2>1, <2>3, <2>4
    <2>6. \A i \in a..(l - 1) : f[i] = IF i = a THEN first ELSE g[<<i, f[i - 1]>>]
      BY <2>3 DEF Steps
    <2>7. ASSUME NEW i \in a..l
          PROVE  h[i] = IF i = a THEN first ELSE g[<<i, h[i - 1]>>]
      <3>1. CASE i = l
        BY <1>2, <1>5, <2>1, <3>1
      <3>2. CASE i # l
        <4>1. i \in a..(l - 1) /\ i \in a..l
          BY <1>2, <3>2
        <4>2. i # a => i - 1 \in a..l /\ i - 1 # l
          BY <1>2, <4>1
        <4>3. h[i] = f[i] /\ (i # a => h[i - 1] = f[i - 1])
          BY <3>2, <4>1, <4>2
        <4> HIDE DEF h
        <4> QED BY <2>6, <4>1, <4>3
      <3> QED BY <3>1, <3>2
    <2>8. Steps(h, a, l, first, g)
      <3> DEFINE step(i) == IF i = a THEN first ELSE g[<<i, h[i - 1]>>]
      <3>1. h = [i \in a..l |-> h[i]]
        BY <2>5
      <3>2. \A i \in a..l : h[i] = step(i)
        BY <2>7
      <3> HIDE DEF h, step
      <3>3. h = [i \in a..l |-> step(i)]
        BY <3>1, <3>2
      <3> QED BY <3>3 DEF Steps, step
    <2> QED BY <1>2, <2>5, <2>8
  <1> QED BY <1>2, <1>3, <1>4, <1>5

-----------------------------------------------------------------------------
(* Pieces that follow one another.                                          *)

ArePlaces(p, sizes) ==
  /\ p \in [1..Len(sizes) + 1 -> Nat]
  /\ p[1] = 0
  /\ \A n \in 1..Len(sizes) : p[n + 1] = p[n] + sizes[n]

(* Places begins at 0 and goes on by the sizes. *)
LEMMA PlacesFacts ==
  ASSUME NEW sizes \in Seq(Nat)
  PROVE  ArePlaces(Places(sizes), sizes)
  <1> DEFINE m == Len(sizes) + 1
             g == [e \in (2..m) \X Nat |-> e[2] + sizes[e[1] - 1]]
             ok(f) == f = [n \in 1..m |-> IF n = 1 THEN 0 ELSE f[n - 1] + sizes[n - 1]]
  <1>1. m \in Nat /\ 1 \in Nat /\ 1 + 1 = 2 /\ m = Len(sizes) + 1 /\ m >= 1
    OBVIOUS
  <1>2. \A i \in 2..m : \A x \in Nat : g[<<i, x>>] = x + sizes[i - 1] /\ sizes[i - 1] \in Nat
    <2> TAKE i \in 2..m
    <2>1. i - 1 \in 1..Len(sizes)
      BY <1>1
    <2> QED BY <2>1
  <1>3. \E f \in [1..m -> Nat] : Steps(f, 1, m, 0, g)
    <2> HIDE DEF g, m
    <2>1. ASSUME NEW i \in (1 + 1)..m, NEW x \in Nat PROVE g[<<i, x>>] \in Nat
      <3>1. g[<<i, x>>] = x + sizes[i - 1] /\ sizes[i - 1] \in Nat
        BY <1>1, <1>2
      <3> QED BY <3>1
    <2> QED BY <1>1, <2>1, StepsExist
  <1>4. PICK f \in [1..m -> Nat] : Steps(f, 1, m, 0, g)
    BY <1>3
  <1>5. ok(f)
    <2>1. \A i \in 1..m : i # 1 => g[<<i, f[i - 1]>>] = f[i - 1] + sizes[i - 1]
      <3> SUFFICES ASSUME NEW i \in 1..m, i # 1
                   PROVE  g[<<i, f[i - 1]>>] = f[i - 1] + sizes[i - 1]
        OBVIOUS
      <3>1. i \in 2..m /\ i - 1 \in 1..m
        BY <1>1
      <3>2. f[i - 1] \in Nat
        BY <1>4, <3>1
      <3> HIDE DEF g
      <3> QED BY <1>2, <3>1, <3>2
    <2> HIDE DEF g, m
    <2> QED BY <1>4, <2>1 DEF Steps
  <1> DEFINE p == Places(sizes)
  <1>6. ok(p)
    <2> HIDE DEF m
    <2> QED BY <1>5 DEF Places, m
  <1>7. \A n \in 1..m : p[n] = IF n = 1 THEN 0 ELSE p[n - 1] + sizes[n - 1]
    <2> HIDE DEF p, m
    <2> QED BY <1>6
  <1>8. \A n \in 1..m : p[n] = f[n]
    <2> DEFINE T == {n \in Nat : n \in 1..m /\ p[n] # f[n]}
    <2> SUFFICES ASSUME T # {} PROVE FALSE
      OBVIOUS
    <2>1. T \in SUBSET Nat
      OBVIOUS
    <2> HIDE DEF T, p, m
    <2>2. PICK n \in T : \A k \in T : n <= k
      BY <2>1, Least
    <2>3. n \in 1..m /\ p[n] # f[n] /\ n \in Nat
      BY <2>2 DEF T
    <2>4. f[n] = IF n = 1 THEN 0 ELSE f[n - 1] + sizes[n - 1]
      BY <1>5, <2>3
    <2>5. n # 1
      BY <1>7, <2>3, <2>4
    <2>6. n - 1 \in 1..m /\ n - 1 \in Nat /\ ~(n <= n - 1)
      BY <1>1, <2>3, <2>5
    <2>7. p[n - 1] = f[n - 1]
      BY <2>2, <2>6 DEF T
    <2> QED BY <1>7, <2>3, <2>4, <2>5, <2>7
  <1>9. p \in [1..m -> Nat]
    <2> HIDE DEF p, m
    <2>1. p = [n \in 1..m |-> p[n]]
      BY <1>6
    <2> QED BY <1>4, <1>8, <2>1
  <1>10. \A n \in 1..Len(sizes) : p[n + 1] = p[n] + sizes[n]
    <2> TAKE n \in 1..Len(sizes)
    <2>1. n + 1 \in 1..m /\ n + 1 # 1 /\ (n + 1) - 1 = n
      BY <1>1
    <2> HIDE DEF p, m
    <2> QED BY <1>7, <2>1
  <1>11. p[1] = 0
    BY <1>1, <1>7
  <1> HIDE DEF p
  <1> QED BY <1>9, <1>10, <1>11 DEF ArePlaces, p

(* One piece further. *)
LEMMA PlacesStep ==
  ASSUME NEW p, NEW sizes \in Seq(Nat), ArePlaces(p, sizes), NEW l \in 1..Len(sizes)
  PROVE  p[l] \in Nat /\ sizes[l] \in Nat /\ p[l + 1] \in Nat /\ p[l + 1] = p[l] + sizes[l]
  <1>1. l \in 1..Len(sizes) + 1 /\ l + 1 \in 1..Len(sizes) + 1
    OBVIOUS
  <1>2. sizes[l] \in Nat
    OBVIOUS
  <1> QED BY <1>1, <1>2 DEF ArePlaces

(* The last place is where the pieces end. *)
LEMMA PlacesLast ==
  ASSUME NEW p, NEW sizes \in Seq(Nat), ArePlaces(p, sizes)
  PROVE  Last(p) = p[Len(sizes) + 1] /\ Last(p) \in Nat
  <1>1. Len(sizes) + 1 \in Nat /\ Len(sizes) + 1 \in 1..Len(sizes) + 1
    OBVIOUS
  <1>2. p \in Seq(Nat) /\ Len(p) = Len(sizes) + 1
    BY <1>1, LenProperties, IsASeq DEF ArePlaces
  <1> QED BY <1>1, <1>2 DEF Last, ArePlaces

(* Later pieces begin no earlier. *)
LEMMA PlacesGrow ==
  ASSUME NEW p, NEW sizes \in Seq(Nat), ArePlaces(p, sizes),
         NEW i \in 1..Len(sizes) + 1, NEW j \in 1..Len(sizes) + 1, i <= j
  PROVE  p[i] <= p[j]
  <1> DEFINE T == {k \in Nat : k \in 1..Len(sizes) + 1 /\ i <= k /\ ~(p[i] <= p[k])}
  <1> SUFFICES ASSUME T # {} PROVE FALSE
    OBVIOUS
  <1>1. T \in SUBSET Nat
    OBVIOUS
  <1> HIDE DEF T
  <1>2. PICK k \in T : \A l \in T : k <= l
    BY <1>1, Least
  <1>3. k \in 1..Len(sizes) + 1 /\ i <= k /\ ~(p[i] <= p[k]) /\ p[i] \in Nat
    BY <1>2 DEF T, ArePlaces
  <1>4. k # i
    BY <1>3
  <1>5. k - 1 \in 1..Len(sizes) /\ k - 1 \in 1..Len(sizes) + 1 /\ i <= k - 1 /\ ~(k <= k - 1)
        /\ k - 1 \in Nat /\ (k - 1) + 1 = k
    BY <1>3, <1>4
  <1>6. p[i] <= p[k - 1]
    BY <1>2, <1>5 DEF T
  <1>7. p[k] = p[k - 1] + sizes[k - 1] /\ sizes[k - 1] \in Nat /\ p[k - 1] \in Nat
    BY <1>5 DEF ArePlaces
  <1> QED BY <1>3, <1>6, <1>7

(* Every position lies in a piece. *)
LEMMA PlacesCover ==
  ASSUME NEW p, NEW sizes \in Seq(Nat), ArePlaces(p, sizes),
         NEW x \in 1..p[Len(sizes) + 1]
  PROVE  \E i \in 1..Len(sizes) : \E k \in 1..sizes[i] : x = p[i] + k
  <1> DEFINE T == {n \in Nat : n \in 1..Len(sizes) + 1 /\ x <= p[n]}
  <1>1. T \in SUBSET Nat /\ T # {}
    <2>1. Len(sizes) + 1 \in 1..Len(sizes) + 1 /\ Len(sizes) + 1 \in Nat
      OBVIOUS
    <2>2. p[Len(sizes) + 1] \in Nat
      BY <2>1 DEF ArePlaces
    <2>3. Len(sizes) + 1 \in T
      BY <2>1, <2>2
    <2> QED BY <2>3
  <1> HIDE DEF T
  <1>2. PICK n \in T : \A l \in T : n <= l
    BY <1>1, Least
  <1>3. n \in 1..Len(sizes) + 1 /\ x <= p[n] /\ n \in Nat
    BY <1>2 DEF T
  <1>4. n # 1
    BY <1>3 DEF ArePlaces
  <1>5. n - 1 \in 1..Len(sizes) /\ n - 1 \in 1..Len(sizes) + 1 /\ n - 1 \in Nat
        /\ ~(n <= n - 1) /\ (n - 1) + 1 = n
    BY <1>3, <1>4
  <1>6. ~(x <= p[n - 1])
    BY <1>2, <1>5 DEF T
  <1>7. p[n] = p[n - 1] + sizes[n - 1] /\ sizes[n - 1] \in Nat /\ p[n - 1] \in Nat
    BY <1>5 DEF ArePlaces
  <1>8. p[Len(sizes) + 1] \in Nat
    <2>1. Len(sizes) + 1 \in 1..Len(sizes) + 1
      OBVIOUS
    <2> QED BY <2>1 DEF ArePlaces
  <1> DEFINE k == x - p[n - 1]
  <1>9. k \in 1..sizes[n - 1] /\ x = p[n - 1] + k
    BY <1>3, <1>6, <1>7, <1>8
  <1> QED BY <1>5, <1>9
-----------------------------------------------------------------------------
(* What FlattenSeq makes of sequences whose lengths are sizes.              *)

Lengths(seqs, sizes) ==
  /\ sizes \in Seq(Nat) /\ Len(sizes) = Len(seqs)
  /\ \A i \in 1..Len(seqs) : sizes[i] = Len(seqs[i])

IsFlat(flat, seqs, p) ==
  \A i \in 1..Len(seqs) : \A k \in 1..Len(seqs[i]) : flat[p[i] + k] = seqs[i][k]

(* FlattenSeq, by the recursion that defines it. *)
LEMMA FlattenRecursion ==
  ASSUME NEW T, NEW seqs \in Seq(Seq(T)), Len(seqs) # 0
  PROVE  \E h : /\ FlattenSeq(seqs) = h[Len(seqs)]
                /\ h[1] = seqs[1]
                /\ \A i \in 2..Len(seqs) : h[i] = h[i - 1] \o seqs[i]
  <1> DEFINE m == Len(seqs)
             g == [e \in (2..m) \X Seq(T) |-> e[2] \o seqs[e[1]]]
             ok(f) == f = [i \in 1..m |-> IF i = 1 THEN seqs[i] ELSE f[i - 1] \o seqs[i]]
             h == CHOOSE f : ok(f)
  <1>1. m \in Nat /\ 1 \in Nat /\ 1 + 1 = 2 /\ m >= 1 /\ seqs[1] \in Seq(T)
    OBVIOUS
  <1>2. ASSUME NEW i \in 2..m, NEW x \in Seq(T)
        PROVE  g[<<i, x>>] = x \o seqs[i] /\ seqs[i] \in Seq(T)
    <2>1. <<i, x>> \in (2..m) \X Seq(T) /\ <<i, x>>[1] = i /\ <<i, x>>[2] = x
      <3> HIDE DEF m
      <3> QED OBVIOUS
    <2>2. g[<<i, x>>] = <<i, x>>[2] \o seqs[<<i, x>>[1]]
      <3> HIDE DEF m
      <3> QED BY <2>1
    <2>3. seqs[i] \in Seq(T)
      OBVIOUS
    <2> QED BY <2>1, <2>2, <2>3
  <1>3. \E f \in [1..m -> Seq(T)] : Steps(f, 1, m, seqs[1], g)
    <2> HIDE DEF g, m
    <2>1. ASSUME NEW i \in (1 + 1)..m, NEW x \in Seq(T) PROVE g[<<i, x>>] \in Seq(T)
      <3>1. g[<<i, x>>] = x \o seqs[i] /\ seqs[i] \in Seq(T)
        BY <1>1, <1>2
      <3> QED BY <3>1, ConcatProperties
    <2> QED BY <1>1, <2>1, StepsExist
  <1>4. PICK f \in [1..m -> Seq(T)] : Steps(f, 1, m, seqs[1], g)
    BY <1>3
  <1>5. ok(f)
    <2>1. \A i \in 1..m : i # 1 => g[<<i, f[i - 1]>>] = f[i - 1] \o seqs[i]
      <3> SUFFICES ASSUME NEW i \in 1..m, i # 1
                   PROVE  g[<<i, f[i - 1]>>] = f[i - 1] \o seqs[i]
        OBVIOUS
      <3> HIDE DEF g, m
      <3>1. i \in 2..m /\ i - 1 \in 1..m
        BY <1>1
      <3>2. f[i - 1] \in Seq(T)
        BY <1>4, <3>1
      <3> QED BY <1>2, <3>1, <3>2
    <2> HIDE DEF g, m
    <2> QED BY <1>4, <2>1 DEF Steps
  <1>6. ok(h)
    <2> HIDE DEF m
    <2> QED BY <1>5
  <1>7. FlattenSeq(seqs) = h[m]
    BY DEF FlattenSeq
  <1>8. h[1] = seqs[1] /\ \A i \in 2..m : h[i] = h[i - 1] \o seqs[i]
    <2> HIDE DEF h, m
    <2>1. \A i \in 1..m : h[i] = IF i = 1 THEN seqs[i] ELSE h[i - 1] \o seqs[i]
      BY <1>6
    <2>2. \A i \in 2..m : i \in 1..m /\ i # 1
      OBVIOUS
    <2>3. 1 \in 1..m
      BY <1>1
    <2>4. h[1] = seqs[1]
      BY <2>1, <2>3
    <2>5. ASSUME NEW i \in 2..m PROVE h[i] = h[i - 1] \o seqs[i]
      BY <2>1, <2>2
    <2> QED BY <2>4, <2>5
  <1> HIDE DEF h
  <1> QED BY <1>7, <1>8

(* Each sequence lies in the flat one at the place of its length. *)
LEMMA Flatten ==
  ASSUME NEW T, NEW seqs \in Seq(Seq(T)), NEW sizes, Lengths(seqs, sizes),
         NEW p, ArePlaces(p, sizes)
  PROVE  /\ FlattenSeq(seqs) \in Seq(T)
         /\ Len(FlattenSeq(seqs)) = p[Len(seqs) + 1]
         /\ IsFlat(FlattenSeq(seqs), seqs, p)
  <1>1. CASE Len(seqs) = 0
    <2>1. seqs = <<>>
      BY <1>1, EmptySeq
    <2>2. FlattenSeq(seqs) = <<>>
      BY <1>1, <2>1 DEF FlattenSeq
    <2>3. p[1] = 0
      BY DEF ArePlaces
    <2>4. <<>> \in Seq(T) /\ Len(<<>>) = 0
      BY EmptySeq
    <2>5. 1..Len(seqs) = {} /\ Len(seqs) + 1 = 1
      BY <1>1
    <2> QED BY <2>2, <2>3, <2>4, <2>5 DEF IsFlat
  <1>2. CASE Len(seqs) # 0
    <2>1. PICK h : /\ FlattenSeq(seqs) = h[Len(seqs)]
                   /\ h[1] = seqs[1]
                   /\ \A i \in 2..Len(seqs) : h[i] = h[i - 1] \o seqs[i]
      BY <1>2, FlattenRecursion
    <2> DEFINE good(i) ==
                 /\ h[i] \in Seq(T)
                 /\ Len(h[i]) = p[i + 1]
                 /\ \A j \in 1..i : \A k \in 1..Len(seqs[j]) : h[i][p[j] + k] = seqs[j][k]
               N == Len(seqs)
               bad == {i \in Nat : i \in 1..N /\ ~good(i)}
    <2>0. N \in Nat /\ N >= 1 /\ N \in 1..N /\ 1 \in 1..N
      BY <1>2
    <2>2. \A i \in 1..N : /\ seqs[i] \in Seq(T) /\ Len(seqs[i]) \in Nat
                          /\ p[i] \in Nat /\ p[i + 1] = p[i] + Len(seqs[i])
      <3> TAKE i \in 1..N
      <3>1. i \in 1..Len(sizes) /\ i \in 1..Len(sizes) + 1
        BY DEF Lengths
      <3>2. seqs[i] \in Seq(T) /\ Len(seqs[i]) \in Nat
        OBVIOUS
      <3>3. p[i] \in Nat /\ p[i + 1] = p[i] + sizes[i]
        BY <3>1 DEF ArePlaces
      <3> QED BY <3>2, <3>3 DEF Lengths
    <2>3. p[1] = 0
      BY DEF ArePlaces
    <2>4. good(1)
      <3>1. \A j \in 1..1 : j = 1
        OBVIOUS
      <3> QED BY <2>0, <2>1, <2>2, <2>3, <3>1
    <2>5. ASSUME NEW i \in 2..N, good(i - 1) PROVE good(i)
      <3>1. i \in 1..N /\ (i - 1) + 1 = i /\ i \in 2..Len(seqs)
        OBVIOUS
      <3> DEFINE a == h[i - 1]
                 b == seqs[i]
      <3>2. h[i] = a \o b /\ a \in Seq(T) /\ b \in Seq(T) /\ Len(a) = p[i]
        BY <2>1, <2>2, <2>5, <3>1
      <3>3. h[i] \in Seq(T) /\ Len(h[i]) = p[i + 1]
        <4> HIDE DEF a, b
        <4>1. Len(a \o b) = Len(a) + Len(b) /\ a \o b \in Seq(T)
          BY <3>2, ConcatProperties
        <4> QED BY <2>2, <3>1, <3>2, <4>1 DEF b
      <3>4. ASSUME NEW j \in 1..i, NEW k \in 1..Len(seqs[j])
            PROVE  h[i][p[j] + k] = seqs[j][k]
        <4>1. j \in 1..N /\ k \in Nat /\ k >= 1 /\ k <= Len(seqs[j])
          BY <2>2
        <4>2. CASE j = i
          <5>1. p[i] + k = Len(a) + k /\ k \in 1..Len(b)
            BY <3>2, <4>2
          <5>2. (a \o b)[Len(a) + k] = b[k]
            <6> HIDE DEF a, b
            <6>1. Len(a) \in Nat /\ Len(b) \in Nat
              BY <3>2
            <6>2. Len(a) + k \in 1..Len(a) + Len(b) /\ ~(Len(a) + k <= Len(a))
                  /\ Len(a) + k - Len(a) = k
              BY <5>1, <6>1
            <6>3. \A x \in 1..Len(a) + Len(b) : (a \o b)[x] = IF x <= Len(a) THEN a[x] ELSE b[x - Len(a)]
              BY <3>2, ConcatProperties
            <6>4. (a \o b)[Len(a) + k] = b[Len(a) + k - Len(a)]
              BY <6>2, <6>3
            <6> QED BY <6>2, <6>4
          <5> QED BY <3>2, <4>2, <5>1, <5>2
        <4>3. CASE j # i
          <5>1. j \in 1..(i - 1) /\ j + 1 \in 1..N
            BY <4>1, <4>3
          <5>2. h[i - 1][p[j] + k] = seqs[j][k]
            BY <2>5, <5>1
          <5>3. p[j + 1] <= p[i]
            <6>1. j + 1 \in 1..Len(sizes) + 1 /\ i \in 1..Len(sizes) + 1 /\ j + 1 <= i
              BY <5>1 DEF Lengths
            <6> QED BY <6>1, PlacesGrow DEF Lengths
          <5>4. p[j] + k \in 1..Len(a)
            <6>1. p[j] \in Nat /\ p[j + 1] = p[j] + Len(seqs[j]) /\ Len(seqs[j]) \in Nat
              BY <2>2, <4>1
            <6>2. p[i] \in Nat /\ Len(a) = p[i]
              BY <2>2, <3>1, <3>2
            <6> HIDE DEF a
            <6> QED BY <4>1, <5>3, <6>1, <6>2
          <5>5. (a \o b)[p[j] + k] = a[p[j] + k]
            <6> HIDE DEF a, b
            <6> QED BY <3>2, <5>4
          <5> QED BY <3>2, <5>2, <5>5
        <4> QED BY <4>2, <4>3
      <3> QED BY <3>3, <3>4
    <2> HIDE DEF good
    <2>6. ASSUME bad # {} PROVE FALSE
      <3>1. bad \in SUBSET Nat
        OBVIOUS
      <3> HIDE DEF bad, N
      <3>2. PICK i \in bad : \A l \in bad : i <= l
        BY <2>6, <3>1, Least
      <3>3. i \in Nat /\ i \in 1..N /\ ~good(i)
        BY <3>2 DEF bad
      <3>4. i \in 2..N /\ i - 1 \in 1..N /\ i - 1 \in Nat /\ ~(i <= i - 1)
        BY <2>0, <2>4, <3>3
      <3>5. good(i - 1)
        BY <3>2, <3>4 DEF bad
      <3> QED BY <2>5, <3>3, <3>4, <3>5
    <2>7. good(N)
      BY <2>0, <2>6
    <2> QED BY <2>1, <2>7 DEF good, IsFlat
  <1> QED BY <1>1, <1>2
-----------------------------------------------------------------------------
(* The pieces of the pieces.                                                *)

(* Arithmetic of the pieces, by itself. *)
LEMMA Within ==
  ASSUME NEW a \in Nat, NEW b \in Nat, NEW c \in Nat, a + b <= c, NEW k \in 1..b
  PROVE  a + k \in 1..c
  OBVIOUS

(* The same. *)
LEMMA Regroup ==
  ASSUME NEW a \in Nat, NEW b \in Nat, NEW c \in Nat, NEW d, d = b + c
  PROVE  a + d = (a + b) + c
  OBVIOUS

(* sizes holds those of the pieces one after the other. *)
PiecesLie(pieces, lens, p, sizes, a, q, totals, o) ==
  /\ pieces \in Seq(Seq(Nat)) /\ Lengths(pieces, lens) /\ ArePlaces(p, lens)
  /\ sizes \in Seq(Nat) /\ Len(sizes) = p[Len(pieces) + 1]
  /\ IsFlat(sizes, pieces, p) /\ ArePlaces(a, sizes)
  /\ \A i \in 1..Len(pieces) : ArePlaces(q[i], pieces[i])
  /\ totals \in Seq(Nat) /\ Len(totals) = Len(pieces) /\ ArePlaces(o, totals)
  /\ \A i \in 1..Len(pieces) : totals[i] = q[i][Len(pieces[i]) + 1]

(* The places among the pieces of all pieces, from those of the pieces and those in each. *)
LEMMA PlacesOfPieces ==
  ASSUME NEW pieces, NEW lens, NEW p, NEW sizes, NEW a, NEW q, NEW totals, NEW o,
         PiecesLie(pieces, lens, p, sizes, a, q, totals, o)
  PROVE  /\ \A i \in 1..Len(pieces) : \A k \in 1..Len(pieces[i]) + 1 :
              a[p[i] + k] = o[i] + q[i][k]
         /\ a[Len(sizes) + 1] = o[Len(pieces) + 1]
  <1> SUFFICES ASSUME pieces \in Seq(Seq(Nat)), Lengths(pieces, lens), ArePlaces(p, lens),
                      sizes \in Seq(Nat), Len(sizes) = p[Len(pieces) + 1],
                      IsFlat(sizes, pieces, p), ArePlaces(a, sizes),
                      \A i \in 1..Len(pieces) : ArePlaces(q[i], pieces[i]),
                      totals \in Seq(Nat), Len(totals) = Len(pieces), ArePlaces(o, totals),
                      \A i \in 1..Len(pieces) : totals[i] = q[i][Len(pieces[i]) + 1]
               PROVE  /\ \A i \in 1..Len(pieces) : \A k \in 1..Len(pieces[i]) + 1 :
                           a[p[i] + k] = o[i] + q[i][k]
                      /\ a[Len(sizes) + 1] = o[Len(pieces) + 1]
    BY Zenon DEF PiecesLie
  <1> DEFINE N == Len(pieces)
             n(i) == Len(pieces[i])
             at(i, k) == a[p[i] + k] = o[i] + q[i][k]
  <1>1. ASSUME NEW i \in 1..N
        PROVE  /\ n(i) \in Nat /\ p[i] \in Nat /\ p[i + 1] = p[i] + n(i)
               /\ o[i] \in Nat /\ o[i + 1] = o[i] + q[i][n(i) + 1]
               /\ q[i][1] = 0
               /\ p[i + 1] <= Len(sizes)
    <2>1. N \in Nat /\ Len(lens) = N /\ lens \in Seq(Nat)
      BY DEF Lengths
    <2>2. i \in 1..Len(lens) /\ i \in 1..Len(lens) + 1 /\ i + 1 \in 1..Len(lens) + 1
          /\ Len(lens) + 1 \in 1..Len(lens) + 1 /\ i + 1 <= Len(lens) + 1
      BY <2>1
    <2>3. n(i) \in Nat /\ lens[i] = n(i)
      BY DEF Lengths
    <2>4. p[i] \in Nat /\ p[i + 1] = p[i] + n(i)
      BY <2>2, <2>3 DEF ArePlaces
    <2>5. o[i] \in Nat /\ o[i + 1] = o[i] + totals[i]
      BY <2>1, <2>2 DEF ArePlaces
    <2>6. q[i][1] = 0
      BY DEF ArePlaces
    <2>7. p[i + 1] <= p[N + 1]
      BY <2>1, <2>2, PlacesGrow
    <2> QED BY <2>3, <2>4, <2>5, <2>6, <2>7
  <1>2. ASSUME NEW i \in 1..N, at(i, 1), NEW k \in 1..n(i) + 1
        PROVE  at(i, k)
    <2> DEFINE bad == {l \in Nat : l \in 1..n(i) + 1 /\ ~at(i, l)}
    <2> SUFFICES ASSUME ~at(i, k) PROVE FALSE
      OBVIOUS
    <2>1. bad \in SUBSET Nat /\ bad # {}
      <3>1. k \in Nat
        BY <1>1
      <3> QED BY <3>1
    <2> HIDE DEF bad
    <2>2. PICK l \in bad : \A x \in bad : l <= x
      BY <2>1, Least
    <2>3. l \in Nat /\ l \in 1..n(i) + 1 /\ ~at(i, l)
      BY <2>2 DEF bad
    <2>4. l # 1
      BY <1>2, <2>3
    <2>5. l - 1 \in Nat /\ l - 1 \in 1..n(i) /\ l - 1 \in 1..n(i) + 1 /\ ~(l <= l - 1)
          /\ (l - 1) + 1 = l
      BY <1>1, <2>3, <2>4
    <2>6. at(i, l - 1)
      BY <2>2, <2>5 DEF bad
    <2>7. q[i][l] = q[i][l - 1] + pieces[i][l - 1] /\ q[i][l - 1] \in Nat /\ pieces[i][l - 1] \in Nat
      <3>1. ArePlaces(q[i], pieces[i]) /\ pieces[i] \in Seq(Nat) /\ l - 1 \in 1..Len(pieces[i])
        BY <2>5
      <3>2. q[i][(l - 1) + 1] = q[i][l - 1] + pieces[i][l - 1] /\ q[i][l - 1] \in Nat
            /\ pieces[i][l - 1] \in Nat
        BY <3>1, PlacesStep
      <3> QED BY <2>5, <3>2
    <2>8. a[p[i] + l] = a[p[i] + (l - 1)] + pieces[i][l - 1]
      <3>1. p[i] + (l - 1) \in 1..Len(sizes)
        <4>1. /\ n(i) \in Nat /\ p[i] \in Nat /\ p[i + 1] = p[i] + n(i)
              /\ p[i + 1] <= Len(sizes)
          BY <1>1
        <4>2. Len(sizes) \in Nat
          OBVIOUS
        <4> HIDE DEF n
        <4>3. p[i] + n(i) <= Len(sizes)
          BY <4>1
        <4>4. l - 1 \in 1..n(i)
          BY <2>5
        <4> QED BY <4>1, <4>2, <4>3, <4>4, Within
      <3>2. (p[i] + (l - 1)) + 1 = p[i] + l
        BY <1>1, <2>3
      <3>3. a[(p[i] + (l - 1)) + 1] = a[p[i] + (l - 1)] + sizes[p[i] + (l - 1)]
        BY <3>1 DEF ArePlaces
      <3>4. sizes[p[i] + (l - 1)] = pieces[i][l - 1]
        BY <2>5 DEF IsFlat
      <3> QED BY <3>2, <3>3, <3>4
    <2>9. p[i] \in Nat /\ o[i] \in Nat
      BY <1>1
    <2>10. a[p[i] + l] = (o[i] + q[i][l - 1]) + pieces[i][l - 1]
      BY <2>6, <2>8
    <2>11. o[i] + q[i][l] = (o[i] + q[i][l - 1]) + pieces[i][l - 1]
      <3> DEFINE A == q[i][l - 1]
                 B == pieces[i][l - 1]
                 C == o[i]
                 D == q[i][l]
      <3>1. A \in Nat /\ B \in Nat /\ C \in Nat /\ D = A + B
        BY <2>7, <2>9
      <3> HIDE DEF A, B, C, D
      <3>2. C + D = (C + A) + B
        BY <3>1, Regroup
      <3> QED BY <3>2 DEF A, B, C, D
    <2> QED BY <2>3, <2>10, <2>11
  <1>3. \A i \in 1..N : at(i, 1)
    <2> DEFINE bad == {i \in Nat : i \in 1..N /\ ~at(i, 1)}
    <2> SUFFICES ASSUME bad # {} PROVE FALSE
      <3>1. \A i \in 1..N : i \in Nat
        OBVIOUS
      <3> HIDE DEF at, N
      <3> QED BY <3>1
    <2>1. bad \in SUBSET Nat
      OBVIOUS
    <2> HIDE DEF bad
    <2>2. PICK i \in bad : \A x \in bad : i <= x
      BY <2>1, Least
    <2>3. i \in Nat /\ i \in 1..N /\ ~at(i, 1)
      BY <2>2 DEF bad
    <2>4. i # 1
      <3>1. a[1] = 0 /\ o[1] = 0 /\ p[1] = 0
        BY DEF ArePlaces
      <3>2. 1 \in 1..N => q[1][1] = 0
        BY <1>1
      <3> HIDE DEF N
      <3> QED BY <2>3, <3>1, <3>2
    <2>5. i - 1 \in Nat /\ i - 1 \in 1..N /\ ~(i <= i - 1) /\ (i - 1) + 1 = i
      <3>1. N \in Nat
        OBVIOUS
      <3> HIDE DEF N, at
      <3> QED BY <2>3, <2>4, <3>1
    <2>6. at(i - 1, 1)
      BY <2>2, <2>5 DEF bad
    <2>7. at(i - 1, n(i - 1) + 1)
      <3>1. n(i - 1) + 1 \in 1..n(i - 1) + 1
        BY <1>1, <2>5
      <3> HIDE DEF at
      <3> QED BY <1>2, <2>5, <2>6, <3>1
    <2>8. p[i] = p[i - 1] + n(i - 1) /\ o[i] = o[i - 1] + q[i - 1][n(i - 1) + 1] /\ q[i][1] = 0
          /\ n(i - 1) \in Nat /\ p[i - 1] \in Nat /\ o[i] \in Nat
      <3>1. p[(i - 1) + 1] = p[i - 1] + n(i - 1) /\ o[(i - 1) + 1] = o[i - 1] + q[i - 1][n(i - 1) + 1]
            /\ n(i - 1) \in Nat /\ p[i - 1] \in Nat
        BY <1>1, <2>5
      <3>2. q[i][1] = 0 /\ o[i] \in Nat
        BY <1>1, <2>3
      <3> QED BY <2>5, <3>1, <3>2
    <2>9. p[i] + 1 = p[i - 1] + (n(i - 1) + 1)
      BY <2>8
    <2> QED BY <2>3, <2>7, <2>8, <2>9
  <1>4. \A i \in 1..N : \A k \in 1..n(i) + 1 : at(i, k)
    <2> HIDE DEF at
    <2> QED BY <1>2, <1>3
  <1>5. a[Len(sizes) + 1] = o[N + 1]
    <2>1. CASE N = 0
      <3>1. p[1] = 0 /\ a[1] = 0 /\ o[1] = 0
        BY DEF ArePlaces
      <3> QED BY <2>1, <3>1
    <2>2. CASE N # 0
      <3>1. N \in 1..N
        BY <2>2
      <3>2. n(N) + 1 \in 1..n(N) + 1
        BY <1>1, <3>1
      <3>3. at(N, n(N) + 1)
        <4> HIDE DEF at, n
        <4> QED BY <1>4, <3>1, <3>2
      <3>4. p[N] + (n(N) + 1) = Len(sizes) + 1
        <4>1. n(N) \in Nat /\ p[N] \in Nat /\ p[N + 1] = p[N] + n(N)
          BY <1>1, <3>1
        <4> QED BY <4>1
      <3> QED BY <1>1, <3>1, <3>3, <3>4
    <2> QED BY <2>1, <2>2
  <1> QED BY <1>4, <1>5

-----------------------------------------------------------------------------
(* Numbers as bytes.                                                        *)

(* A longer function of this kind goes on where a shorter one ends. *)
LEMMA StepsAgree ==
  ASSUME NEW a \in Nat, NEW b \in Nat, NEW c \in Nat, b <= c, NEW first, NEW g,
         NEW f, NEW h, Steps(f, a, b, first, g), Steps(h, a, c, first, g)
  PROVE  \A i \in a..b : f[i] = h[i]
  <1> DEFINE bad == {i \in Nat : i \in a..b /\ f[i] # h[i]}
  <1> SUFFICES ASSUME bad # {} PROVE FALSE
    OBVIOUS
  <1>1. bad \in SUBSET Nat
    OBVIOUS
  <1> HIDE DEF bad
  <1>2. PICK i \in bad : \A x \in bad : i <= x
    BY <1>1, Least
  <1>3. i \in Nat /\ i \in a..b /\ i \in a..c /\ f[i] # h[i]
    BY <1>2 DEF bad
  <1>4. f[i] = IF i = a THEN first ELSE g[<<i, f[i - 1]>>]
    BY <1>3 DEF Steps
  <1>5. h[i] = IF i = a THEN first ELSE g[<<i, h[i - 1]>>]
    BY <1>3 DEF Steps
  <1>6. i # a
    BY <1>3, <1>4, <1>5
  <1>7. i - 1 \in Nat /\ i - 1 \in a..b /\ ~(i <= i - 1)
    BY <1>3, <1>6
  <1>8. f[i - 1] = h[i - 1]
    BY <1>2, <1>7 DEF bad
  <1> QED BY <1>3, <1>4, <1>5, <1>6, <1>8

(* Shifted takes one byte off at a time. *)
LEMMA ShiftedSteps ==
  ASSUME NEW n \in Int, NEW w \in Nat
  PROVE  /\ Shifted(n, 0) = n
         /\ \A i \in 0..w : Shifted(n, i) \in Int
         /\ \A i \in 1..w : Shifted(n, i) = Shifted(n, i - 1) \div 256
  <1> DEFINE g == [e \in (1..w) \X Int |-> e[2] \div 256]
  <1>1. ASSUME NEW i \in 1..w, NEW x \in Int PROVE g[<<i, x>>] = x \div 256
    <2>1. <<i, x>> \in (1..w) \X Int /\ <<i, x>>[2] = x
      OBVIOUS
    <2> QED BY <2>1, Zenon
  <1>2. ASSUME NEW l \in 0..w
        PROVE  \E f \in [0..l -> Int] : Steps(f, 0, l, n, g) /\ Shifted(n, l) = f[l]
    <2>1. l \in Nat /\ 0 \in Nat /\ \A i \in (0 + 1)..l : i \in 1..w
      OBVIOUS
    <2>2. \A i \in (0 + 1)..l : \A x \in Int : g[<<i, x>>] \in Int
      <3> HIDE DEF g
      <3>1. ASSUME NEW i \in (0 + 1)..l, NEW x \in Int PROVE g[<<i, x>>] \in Int
        <4>1. g[<<i, x>>] = x \div 256
          BY <1>1, <2>1
        <4>2. x \div 256 \in Int
          OBVIOUS
        <4> QED BY <4>1, <4>2
      <3> QED BY <3>1
    <2>3. PICK f \in [0..l -> Int] : Steps(f, 0, l, n, g)
      <3> HIDE DEF g
      <3> QED BY <2>1, <2>2, StepsExist
    <2> DEFINE ok(F) == F = [i \in 0..l |-> IF i = 0 THEN n ELSE F[i - 1] \div 256]
               h == CHOOSE F : ok(F)
    <2>4. ok(f)
      <3>1. \A i \in 0..l : i # 0 => g[<<i, f[i - 1]>>] = f[i - 1] \div 256
        <4> SUFFICES ASSUME NEW i \in 0..l, i # 0
                     PROVE  g[<<i, f[i - 1]>>] = f[i - 1] \div 256
          OBVIOUS
        <4>1. i \in 1..w /\ i - 1 \in 0..l
          BY <2>1
        <4>2. f[i - 1] \in Int
          BY <2>3, <4>1
        <4> HIDE DEF g
        <4> QED BY <1>1, <4>1, <4>2
      <3> HIDE DEF g
      <3> QED BY <2>3, <3>1 DEF Steps
    <2>5. ok(h) /\ Shifted(n, l) = h[l]
      BY <2>4 DEF Shifted
    <2>6. ASSUME NEW F, ok(F) PROVE \A i \in 0..l : F[i] = f[i]
      <3> DEFINE bad == {i \in Nat : i \in 0..l /\ F[i] # f[i]}
      <3> SUFFICES ASSUME bad # {} PROVE FALSE
        OBVIOUS
      <3>1. bad \in SUBSET Nat
        OBVIOUS
      <3> HIDE DEF bad
      <3>2. PICK i \in bad : \A x \in bad : i <= x
        BY <3>1, Least
      <3>3. i \in Nat /\ i \in 0..l /\ F[i] # f[i]
        BY <3>2 DEF bad
      <3>4. F[i] = IF i = 0 THEN n ELSE F[i - 1] \div 256
        BY <2>6, <3>3
      <3>5. f[i] = IF i = 0 THEN n ELSE f[i - 1] \div 256
        BY <2>4, <3>3
      <3>6. i # 0
        BY <3>3, <3>4, <3>5
      <3>7. i - 1 \in Nat /\ i - 1 \in 0..l /\ ~(i <= i - 1)
        BY <3>3, <3>6
      <3>8. F[i - 1] = f[i - 1]
        BY <3>2, <3>7 DEF bad
      <3> QED BY <3>3, <3>4, <3>5, <3>6, <3>8
    <2>7. h[l] = f[l]
      <3> HIDE DEF h, ok
      <3> QED BY <2>1, <2>5, <2>6
    <2> QED BY <2>3, <2>5, <2>7
  <1>3. Shifted(n, 0) = n
    <2>1. 0 \in 0..w
      OBVIOUS
    <2>2. PICK f \in [0..0 -> Int] : Steps(f, 0, 0, n, g) /\ Shifted(n, 0) = f[0]
      <3> HIDE DEF g
      <3> QED BY <1>2, <2>1
    <2>3. 0 \in 0..0
      OBVIOUS
    <2> HIDE DEF g
    <2> QED BY <2>2, <2>3 DEF Steps
  <1>4. \A i \in 0..w : Shifted(n, i) \in Int
    <2> TAKE i \in 0..w
    <2> HIDE DEF g
    <2>1. PICK f \in [0..i -> Int] : Shifted(n, i) = f[i]
      BY <1>2
    <2>2. i \in 0..i
      OBVIOUS
    <2> QED BY <2>1, <2>2
  <1>5. ASSUME NEW i \in 1..w PROVE Shifted(n, i) = Shifted(n, i - 1) \div 256
    <2>1. i \in 0..w /\ i - 1 \in 0..w /\ i \in Nat /\ i - 1 \in Nat /\ i - 1 <= i /\ 0 \in Nat
      OBVIOUS
    <2> HIDE DEF g
    <2>2. PICK f \in [0..i -> Int] : Steps(f, 0, i, n, g) /\ Shifted(n, i) = f[i]
      BY <1>2, <2>1
    <2>3. PICK h \in [0..(i - 1) -> Int] : Steps(h, 0, i - 1, n, g) /\ Shifted(n, i - 1) = h[i - 1]
      BY <1>2, <2>1
    <2>4. h[i - 1] = f[i - 1]
      <3>1. i - 1 \in 0..(i - 1)
        OBVIOUS
      <3> QED BY <2>1, <2>2, <2>3, <3>1, StepsAgree
    <2>5. i \in 0..i /\ i - 1 \in 0..i /\ i # 0
      OBVIOUS
    <2>6. f[i] = g[<<i, f[i - 1]>>]
      BY <2>2, <2>5 DEF Steps
    <2>7. f[i - 1] \in Int
      BY <2>2, <2>5
    <2> QED BY <1>1, <2>2, <2>3, <2>4, <2>6, <2>7
  <1> QED BY <1>3, <1>4, <1>5

(* read_be shifts one byte in at a time. *)
LEMMA ReadSteps ==
  ASSUME NEW bytes \in Seq(Int), NEW first \in Int
  PROVE  \E r : /\ r[0] = first /\ read_be(bytes, first) = r[Len(bytes)]
                /\ \A i \in 1..Len(bytes) : r[i] = 256 * r[i - 1] + bytes[i]
  <1> DEFINE w == Len(bytes)
             g == [e \in (1..w) \X Int |-> 256 * e[2] + bytes[e[1]]]
             ok(f) == f = [i \in 0..w |-> IF i = 0 THEN first ELSE 256 * f[i - 1] + bytes[i]]
             r == CHOOSE f : ok(f)
  <1>1. w \in Nat /\ 0 \in Nat
    OBVIOUS
  <1>2. ASSUME NEW i \in 1..w, NEW x \in Int
        PROVE  g[<<i, x>>] = 256 * x + bytes[i] /\ bytes[i] \in Int
    <2>1. <<i, x>> \in (1..w) \X Int /\ <<i, x>>[1] = i /\ <<i, x>>[2] = x
      OBVIOUS
    <2>2. g[<<i, x>>] = 256 * <<i, x>>[2] + bytes[<<i, x>>[1]]
      BY <2>1, Zenon
    <2> QED BY <2>1, <2>2
  <1>3. \E f \in [0..w -> Int] : Steps(f, 0, w, first, g)
    <2> HIDE DEF g, w
    <2>1. ASSUME NEW i \in (0 + 1)..w, NEW x \in Int PROVE g[<<i, x>>] \in Int
      <3>1. g[<<i, x>>] = 256 * x + bytes[i] /\ bytes[i] \in Int
        BY <1>1, <1>2
      <3> QED BY <3>1
    <2> QED BY <1>1, <2>1, StepsExist
  <1>4. PICK f \in [0..w -> Int] : Steps(f, 0, w, first, g)
    BY <1>3
  <1>5. ok(f)
    <2>1. \A i \in 0..w : i # 0 => g[<<i, f[i - 1]>>] = 256 * f[i - 1] + bytes[i]
      <3> SUFFICES ASSUME NEW i \in 0..w, i # 0
                   PROVE  g[<<i, f[i - 1]>>] = 256 * f[i - 1] + bytes[i]
        OBVIOUS
      <3> HIDE DEF g, w
      <3>1. i \in 1..w /\ i - 1 \in 0..w
        BY <1>1
      <3>2. f[i - 1] \in Int
        BY <1>4, <3>1
      <3> QED BY <1>2, <3>1, <3>2
    <2> HIDE DEF g, w
    <2> QED BY <1>4, <2>1 DEF Steps
  <1>6. ok(r) /\ read_be(bytes, first) = r[w]
    BY <1>5 DEF read_be
  <1>7. \A i \in 0..w : r[i] = IF i = 0 THEN first ELSE 256 * r[i - 1] + bytes[i]
    <2> HIDE DEF r, w
    <2> QED BY <1>6
  <1>8. r[0] = first
    <2>1. 0 \in 0..w
      BY <1>1
    <2> HIDE DEF r, w
    <2> QED BY <1>7, <2>1
  <1>9. ASSUME NEW i \in 1..w PROVE r[i] = 256 * r[i - 1] + bytes[i]
    <2>1. i \in 0..w /\ i # 0
      BY <1>1
    <2> HIDE DEF r, w
    <2> QED BY <1>7, <2>1
  <1> HIDE DEF r
  <1> QED BY <1>6, <1>8, <1>9

(* The division of a number by 256 loses nothing but the last byte. *)
LEMMA Digits ==
  ASSUME NEW x \in Int
  PROVE  x % 256 \in 0..255 /\ x = 256 * (x \div 256) + (x % 256)
  <1>1. x % 256 \in 0..255
    OBVIOUS
  <1>2. x = 256 * (x \div 256) + (x % 256)
    OBVIOUS
  <1> QED BY <1>1, <1>2

(* The bytes of a number, read after what is left of it above them, give it again. *)
LEMMA Bigendian ==
  ASSUME NEW n \in Int, NEW w \in Nat
  PROVE  /\ write_be(n, w) \in Seq(0..255)
         /\ Len(write_be(n, w)) = w
         /\ \A i \in 1..w : write_be(n, w)[i] = Shifted(n, w - i) % 256
         /\ read_be(write_be(n, w), Shifted(n, w)) = n
  <1> DEFINE bytes == write_be(n, w)
  <1>1. \A i \in 1..w : w - i \in 0..w
    OBVIOUS
  <1>2. \A i \in 1..w : bytes[i] = Shifted(n, w - i) % 256 /\ bytes[i] \in 0..255
    <2> TAKE i \in 1..w
    <2>1. Shifted(n, w - i) \in Int
      BY <1>1, ShiftedSteps
    <2>2. bytes[i] = Shifted(n, w - i) % 256
      BY DEF write_be
    <2> HIDE DEF bytes
    <2> QED BY <2>1, <2>2, Digits
  <1>3. bytes = [i \in 1..w |-> bytes[i]]
    BY DEF write_be
  <1>4. bytes \in [1..w -> 0..255]
    <2> HIDE DEF bytes
    <2> QED BY <1>2, <1>3
  <1>5. bytes \in Seq(0..255) /\ Len(bytes) = w
    <2> HIDE DEF bytes
    <2> QED BY <1>4, IsASeq, LenProperties
  <1>6. read_be(bytes, Shifted(n, w)) = n
    <2> HIDE DEF bytes
    <2>1. bytes \in Seq(Int) /\ Shifted(n, w) \in Int
      <3>1. w \in 0..w
        OBVIOUS
      <3>2. 0..255 \subseteq Int
        OBVIOUS
      <3>3. bytes \in [1..w -> Int]
        BY <1>4, <3>2
      <3>4. bytes \in Seq(Int)
        BY <3>3, IsASeq
      <3> QED BY <3>1, <3>4, ShiftedSteps
    <2>2. PICK r : /\ r[0] = Shifted(n, w) /\ read_be(bytes, Shifted(n, w)) = r[Len(bytes)]
                   /\ \A i \in 1..Len(bytes) : r[i] = 256 * r[i - 1] + bytes[i]
      BY <2>1, ReadSteps
    <2> DEFINE bad == {i \in Nat : i \in 0..w /\ r[i] # Shifted(n, w - i)}
    <2>3. ASSUME bad # {} PROVE FALSE
      <3>1. bad \in SUBSET Nat
        OBVIOUS
      <3> HIDE DEF bad
      <3>2. PICK i \in bad : \A x \in bad : i <= x
        BY <2>3, <3>1, Least
      <3>3. i \in Nat /\ i \in 0..w /\ r[i] # Shifted(n, w - i)
        BY <3>2 DEF bad
      <3>4. i # 0
        BY <2>2, <3>3
      <3>5. i - 1 \in Nat /\ i - 1 \in 0..w /\ i \in 1..w /\ ~(i <= i - 1)
            /\ w - i \in 0..w /\ w - (i - 1) \in 1..w /\ (w - (i - 1)) - 1 = w - i
        BY <3>3, <3>4
      <3>6. r[i - 1] = Shifted(n, w - (i - 1))
        BY <3>2, <3>5 DEF bad
      <3>7. r[i] = 256 * r[i - 1] + (Shifted(n, w - i) % 256)
        <4>1. r[i] = 256 * r[i - 1] + bytes[i]
          BY <1>5, <2>2, <3>5
        <4>2. bytes[i] = Shifted(n, w - i) % 256
          BY <1>2, <3>5
        <4> QED BY <4>1, <4>2
      <3>8. Shifted(n, w - (i - 1)) = Shifted(n, w - i) \div 256
        <4>1. Shifted(n, w - (i - 1)) = Shifted(n, (w - (i - 1)) - 1) \div 256
          BY <3>5, ShiftedSteps
        <4> QED BY <3>5, <4>1
      <3>9. Shifted(n, w - i) \in Int
        BY <3>5, ShiftedSteps
      <3>10. Shifted(n, w - i) = 256 * (Shifted(n, w - i) \div 256) + (Shifted(n, w - i) % 256)
        BY <3>9, Digits
      <3> QED BY <3>3, <3>6, <3>7, <3>8, <3>10
    <2>4. r[w] = Shifted(n, w - w)
      <3>1. w \in 0..w
        OBVIOUS
      <3> QED BY <2>3, <3>1
    <2>5. w - w = 0 /\ Shifted(n, 0) = n
      BY ShiftedSteps
    <2> QED BY <1>5, <2>2, <2>4, <2>5
  <1> HIDE DEF bytes
  <1> QED BY <1>2, <1>5, <1>6 DEF bytes

(* What fits an unsigned width is read back as it was. *)
LEMMA UnsignedBack ==
  ASSUME NEW n, NEW w \in Nat, IsUnsigned(n, w)
  PROVE  read_ube(write_be(n, w)) = n
  BY Bigendian DEF IsUnsigned, read_ube

(* What fits a signed width is read back with its sign. *)
LEMMA SignedBack ==
  ASSUME NEW n, NEW w \in Nat \ {0}, IsSigned(n, w)
  PROVE  read_ibe(write_be(n, w)) = n
  <1>1. w \in 1..w /\ 1 \in 1..w /\ w - 1 \in 0..w /\ n \in Int /\ w \in Nat
    BY DEF IsSigned
  <1> DEFINE top == Shifted(n, w - 1)
  <1>2. top \in -128..127
    BY DEF IsSigned
  <1>3. Shifted(n, w) = top \div 256
    BY <1>1, ShiftedSteps
  <1>4. write_be(n, w)[1] = top % 256
    BY <1>1, Bigendian
  <1>5. top \div 256 = IF top % 256 >= 128 THEN -1 ELSE 0
    <2> HIDE DEF top
    <2> QED BY <1>2
  <1> HIDE DEF top
  <1>6. read_be(write_be(n, w), IF write_be(n, w)[1] >= 128 THEN -1 ELSE 0) = n
    BY <1>1, <1>3, <1>4, <1>5, Bigendian
  <1> QED BY <1>6 DEF read_ibe

(* Below a number that fits, every other fits. *)
LEMMA SmallerFits ==
  ASSUME NEW n, NEW w \in Nat, IsUnsigned(n, w), NEW m \in Nat, m <= n
  PROVE  IsUnsigned(m, w)
  <1> DEFINE ok(i) == 0 <= Shifted(m, i) /\ Shifted(m, i) <= Shifted(n, i)
             bad == {i \in Nat : i \in 0..w /\ ~ok(i)}
  <1>1. n \in Int /\ m \in Int
    BY DEF IsUnsigned
  <1>2. ASSUME bad # {} PROVE FALSE
    <2>1. bad \in SUBSET Nat
      OBVIOUS
    <2> HIDE DEF bad
    <2>2. PICK i \in bad : \A x \in bad : i <= x
      BY <1>2, <2>1, Least
    <2>3. i \in Nat /\ i \in 0..w /\ ~ok(i)
      BY <2>2 DEF bad
    <2>4. i # 0
      BY <1>1, <2>3, ShiftedSteps
    <2>5. i - 1 \in Nat /\ i - 1 \in 0..w /\ i \in 1..w /\ ~(i <= i - 1)
      BY <2>3, <2>4
    <2>6. ok(i - 1)
      BY <2>2, <2>5 DEF bad
    <2>7. Shifted(m, i) = Shifted(m, i - 1) \div 256 /\ Shifted(m, i - 1) \in Int
      BY <1>1, <2>5, ShiftedSteps
    <2>8. Shifted(n, i) = Shifted(n, i - 1) \div 256 /\ Shifted(n, i - 1) \in Int
      BY <1>1, <2>5, ShiftedSteps
    <2>9. \A x, y \in Int : 0 <= x /\ x <= y => 0 <= x \div 256 /\ x \div 256 <= y \div 256
      OBVIOUS
    <2> QED BY <2>3, <2>6, <2>7, <2>8, <2>9
  <1>3. ok(w)
    <2>1. w \in 0..w
      OBVIOUS
    <2> HIDE DEF ok
    <2> QED BY <1>2, <2>1
  <1>4. Shifted(m, w) \in Int
    <2>1. w \in 0..w
      OBVIOUS
    <2> QED BY <1>1, <2>1, ShiftedSteps
  <1> QED BY <1>1, <1>3, <1>4 DEF IsUnsigned
-----------------------------------------------------------------------------
(* Slices.                                                                  *)

(* Functions over 1..m are sequences. *)
LEMMA FunctionIsSeq ==
  ASSUME NEW S, NEW m \in Nat, NEW f \in [1..m -> S]
  PROVE  f \in Seq(S) /\ Len(f) = m
  BY IsASeq, LenProperties

(* Sequences are equal that are so at every index. *)
LEMMA SameSeq ==
  ASSUME NEW S, NEW a \in Seq(S), NEW b \in Seq(S), Len(a) = Len(b),
         \A i \in 1..Len(a) : a[i] = b[i]
  PROVE  a = b
  OBVIOUS

(* A slice inside a sequence, by its members. *)
LEMMA SliceIs ==
  ASSUME NEW S, NEW s \in Seq(S), NEW o \in Nat, NEW l \in Nat, o + l <= Len(s)
  PROVE  /\ Slice(s, o, l) \in Seq(S)
         /\ Len(Slice(s, o, l)) = l
         /\ \A x \in 1..l : Slice(s, o, l)[x] = s[o + x]
  <1> DEFINE t == SubSeq(s, o + 1, o + l)
  <1>1. t = [x \in 1..l |-> s[o + x]]
    <2>1. (o + l) - (o + 1) + 1 = l /\ \A x \in 1..l : x + (o + 1) - 1 = o + x
      OBVIOUS
    <2> QED BY <2>1
  <1>2. \A x \in 1..l : s[o + x] \in S
    OBVIOUS
  <1>3. t \in [1..l -> S]
    BY <1>1, <1>2
  <1>4. t \in Seq(S) /\ Len(t) = l
    <2> HIDE DEF t
    <2> QED BY <1>3, IsASeq, LenProperties
  <1>5. \A x \in 1..l : t[x] = s[o + x]
    <2> HIDE DEF t
    <2> QED BY <1>1
  <1> HIDE DEF t
  <1> QED BY <1>4, <1>5 DEF Slice, t

(* A slice is what it agrees with, byte by byte. *)
LEMMA SliceEquals ==
  ASSUME NEW S, NEW s \in Seq(S), NEW o \in Nat, NEW t \in Seq(S), o + Len(t) <= Len(s),
         \A x \in 1..Len(t) : s[o + x] = t[x]
  PROVE  Slice(s, o, Len(t)) = t
  <1>1. Len(t) \in Nat
    OBVIOUS
  <1>2. /\ Slice(s, o, Len(t)) \in Seq(S)
        /\ Len(Slice(s, o, Len(t))) = Len(t)
        /\ \A x \in 1..Len(t) : Slice(s, o, Len(t))[x] = s[o + x]
    BY <1>1, SliceIs
  <1> HIDE DEF Slice
  <1> QED BY <1>2, SameSeq

(* The slice of what comes first. *)
LEMMA SlicePrefix ==
  ASSUME NEW S, NEW a \in Seq(S), NEW b \in Seq(S), NEW o \in Nat, NEW l \in Nat, o + l <= Len(a)
  PROVE  Slice(a \o b, o, l) = Slice(a, o, l)
  <1>1. a \o b \in Seq(S) /\ Len(a \o b) = Len(a) + Len(b)
        /\ \A x \in 1..Len(a) + Len(b) : (a \o b)[x] = IF x <= Len(a) THEN a[x] ELSE b[x - Len(a)]
    BY ConcatProperties
  <1>2. Len(a) \in Nat /\ Len(b) \in Nat
    OBVIOUS
  <1> DEFINE t == Slice(a, o, l)
  <1>3. t \in Seq(S) /\ Len(t) = l /\ \A x \in 1..l : t[x] = a[o + x]
    BY SliceIs
  <1>4. \A x \in 1..l : o + x \in 1..Len(a) + Len(b) /\ o + x <= Len(a)
    BY <1>2
  <1>5. o + Len(t) <= Len(a \o b)
    BY <1>1, <1>2, <1>3
  <1> HIDE DEF t
  <1>6. \A x \in 1..Len(t) : (a \o b)[o + x] = t[x]
    BY <1>1, <1>3, <1>4
  <1>7. Slice(a \o b, o, Len(t)) = t
    BY <1>1, <1>3, <1>5, <1>6, SliceEquals
  <1> QED BY <1>3, <1>7 DEF t

(* The slice of what comes last. *)
LEMMA SliceLast ==
  ASSUME NEW S, NEW a \in Seq(S), NEW b \in Seq(S)
  PROVE  Slice(a \o b, Len(a), Len(b)) = b
  <1>1. a \o b \in Seq(S) /\ Len(a \o b) = Len(a) + Len(b)
        /\ \A x \in 1..Len(a) + Len(b) : (a \o b)[x] = IF x <= Len(a) THEN a[x] ELSE b[x - Len(a)]
    BY ConcatProperties
  <1>2. Len(a) \in Nat /\ Len(b) \in Nat
    OBVIOUS
  <1>3. \A x \in 1..Len(b) : Len(a) + x \in 1..Len(a) + Len(b) /\ ~(Len(a) + x <= Len(a))
                              /\ Len(a) + x - Len(a) = x
    BY <1>2
  <1>4. \A x \in 1..Len(b) : (a \o b)[Len(a) + x] = b[x]
    BY <1>1, <1>3
  <1>5. Len(a) + Len(b) <= Len(a \o b)
    BY <1>1, <1>2
  <1> DEFINE s == a \o b
             o == Len(a)
  <1>6. s \in Seq(S) /\ o \in Nat /\ o + Len(b) <= Len(s) /\ \A x \in 1..Len(b) : s[o + x] = b[x]
    BY <1>1, <1>2, <1>4, <1>5
  <1> HIDE DEF s, o
  <1>7. Slice(s, o, Len(b)) = b
    BY <1>6, SliceEquals
  <1> QED BY <1>7 DEF s, o

(* The slice of a flat sequence at the place of a piece is the piece. *)
LEMMA SliceFlat ==
  ASSUME NEW S, NEW flat \in Seq(S), NEW seqs \in Seq(Seq(S)), NEW sizes, Lengths(seqs, sizes),
         NEW p, ArePlaces(p, sizes), IsFlat(flat, seqs, p), Len(flat) = p[Len(seqs) + 1],
         NEW i \in 1..Len(seqs)
  PROVE  /\ p[i] + Len(seqs[i]) <= Len(flat)
         /\ Slice(flat, p[i], Len(seqs[i])) = seqs[i]
  <1>1. seqs[i] \in Seq(S) /\ Len(seqs[i]) \in Nat /\ i \in 1..Len(sizes) /\ sizes \in Seq(Nat)
    BY DEF Lengths
  <1>2. p[i] \in Nat /\ p[i + 1] = p[i] + Len(seqs[i])
    BY <1>1, PlacesStep DEF Lengths
  <1>3. p[i + 1] <= Len(flat)
    <2>1. i + 1 \in 1..Len(sizes) + 1 /\ Len(sizes) + 1 \in 1..Len(sizes) + 1
          /\ i + 1 <= Len(sizes) + 1 /\ Len(sizes) = Len(seqs)
      BY <1>1 DEF Lengths
    <2> QED BY <1>1, <2>1, PlacesGrow
  <1>4. \A x \in 1..Len(seqs[i]) : flat[p[i] + x] = seqs[i][x]
    BY DEF IsFlat
  <1>5. p[i] + Len(seqs[i]) <= Len(flat)
    BY <1>2, <1>3
  <1>6. Slice(flat, p[i], Len(seqs[i])) = seqs[i]
    BY <1>1, <1>2, <1>4, <1>5, SliceEquals
  <1> QED BY <1>5, <1>6

-----------------------------------------------------------------------------
(* Instructions.                                                            *)

(* The operands of each kind of instruction. *)
LEMMA WidthsFacts ==
  ASSUME NEW op
  PROVE  /\ Widths(op) \in {<<>>, <<1>>, <<2>>, <<4>>, <<8>>, <<4, 4>>}
         /\ op \in Jumps => Widths(op) = <<2>>
         /\ op = "PUSHSTR" <=> Widths(op) = <<4, 4>>
         /\ op = "PUSHINT" => Widths(op) = <<8>>
         /\ op \in {"CALL", "MAKECLS"} => Widths(op) = <<4>>
         /\ op \in {"LOAD", "STORE"} => Widths(op) = <<1>>
         /\ op = "TUPLEGET" => Widths(op) = <<2>>
         /\ Widths(op) = <<>> \/ op \in Jumps \/ op \in Counted
             \/ op \in {"PUSHSTR", "PUSHINT", "CALLVAL", "CHKTUPLE", "MAKETUPLE", "MAKELIST"}
  BY DEF Widths, Jumps, Counted

(* No two instructions have one opcode. *)
LEMMA OpcodesDiffer ==
  \A a, b \in DOMAIN OPCODE : OPCODE[a] = OPCODE[b] => a = b
  BY DEF OPCODE

(* The operands of an instruction follow one another. *)
LEMMA SizeFacts ==
  ASSUME NEW op
  PROVE  /\ Widths(op) \in Seq(Nat)
         /\ ArePlaces(Places(Widths(op)), Widths(op))
         /\ Last(Places(Widths(op))) = Places(Widths(op))[Len(Widths(op)) + 1]
         /\ Last(Places(Widths(op))) \in Nat
         /\ op = "CALL" => Last(Places(Widths(op))) = 4
  <1>1. Widths(op) \in Seq(Nat)
    <2>1. <<>> \in Seq(Nat) /\ <<1>> \in Seq(Nat) /\ <<2>> \in Seq(Nat) /\ <<4>> \in Seq(Nat)
          /\ <<8>> \in Seq(Nat) /\ <<4, 4>> \in Seq(Nat)
      OBVIOUS
    <2> QED BY <2>1, WidthsFacts
  <1>2. ArePlaces(Places(Widths(op)), Widths(op))
    BY <1>1, PlacesFacts
  <1>3. Last(Places(Widths(op))) = Places(Widths(op))[Len(Widths(op)) + 1]
        /\ Last(Places(Widths(op))) \in Nat
    BY <1>1, <1>2, PlacesLast
  <1>4. ASSUME op = "CALL" PROVE Last(Places(Widths(op))) = 4
    <2>1. Widths(op) = <<4>>
      BY <1>4, WidthsFacts
    <2> DEFINE p == Places(Widths(op))
    <2>2. ArePlaces(p, <<4>>) /\ Last(p) = p[2] /\ Len(<<4>>) = 1
      BY <1>2, <1>3, <2>1
    <2> HIDE DEF p
    <2>3. p[1] = 0 /\ p[1 + 1] = p[1] + <<4>>[1]
      BY <2>2 DEF ArePlaces
    <2> QED BY <2>2, <2>3 DEF p
  <1> QED BY <1>1, <1>2, <1>3, <1>4

(* Arithmetic of operands behind an opcode, by itself. *)
LEMMA Behind ==
  ASSUME NEW m \in Nat, NEW a \in Nat, NEW b \in Nat, a + b <= m, NEW x \in 1..b
  PROVE  1 + a + x \in 1..1 + m /\ ~(1 + a + x <= 1) /\ 1 + a + x - 1 = a + x
  OBVIOUS

(* The bytes of an instruction with these operands. *)
OperandBytes(op, operands) ==
  [w \in DOMAIN Widths(op) |-> write_be(operands[w], Widths(op)[w])]
InstrBytes(op, operands) == <<OPCODE[op]>> \o FlattenSeq(OperandBytes(op, operands))

(* An instruction as bytes: the opcode, then each operand at its place. *)
LEMMA InstrBytesFacts ==
  ASSUME NEW op \in DOMAIN OPCODE, NEW operands,
         \A w \in DOMAIN Widths(op) : operands[w] \in Int
  PROVE  /\ InstrBytes(op, operands) \in Seq(Int)
         /\ Len(InstrBytes(op, operands)) = 1 + Last(Places(Widths(op)))
         /\ InstrBytes(op, operands)[1] = OPCODE[op]
         /\ \A w \in DOMAIN Widths(op) : \A x \in 1..Widths(op)[w] :
              InstrBytes(op, operands)[1 + Places(Widths(op))[w] + x]
                = write_be(operands[w], Widths(op)[w])[x]
  <1> DEFINE ws == Widths(op)
             p == Places(ws)
             seqs == OperandBytes(op, operands)
             flat == FlattenSeq(seqs)
             head == <<OPCODE[op]>>
  <1>1. ws \in Seq(Nat) /\ ArePlaces(p, ws) /\ Last(p) = p[Len(ws) + 1] /\ Last(p) \in Nat
    BY SizeFacts
  <1>2. DOMAIN ws = 1..Len(ws) /\ Len(ws) \in Nat
    <2> HIDE DEF ws
    <2> QED BY <1>1
  <1>3. \A w \in 1..Len(ws) : write_be(operands[w], ws[w]) \in Seq(Int)
                             /\ Len(write_be(operands[w], ws[w])) = ws[w]
    <2> SUFFICES ASSUME NEW w \in 1..Len(ws)
                 PROVE  write_be(operands[w], ws[w]) \in Seq(Int)
                        /\ Len(write_be(operands[w], ws[w])) = ws[w]
      OBVIOUS
    <2>1. operands[w] \in Int
      BY <1>2
    <2> HIDE DEF ws
    <2>2. ws[w] \in Nat
      BY <1>1
    <2>3. write_be(operands[w], ws[w]) \in Seq(0..255) /\ Len(write_be(operands[w], ws[w])) = ws[w]
      BY <2>1, <2>2, Bigendian
    <2>4. 0..255 \subseteq Int
      OBVIOUS
    <2> QED BY <2>3, <2>4, SeqMonotonic
  <1>4. seqs = [w \in 1..Len(ws) |-> write_be(operands[w], ws[w])]
    BY <1>2 DEF OperandBytes
  <1>5. seqs \in Seq(Seq(Int)) /\ Len(seqs) = Len(ws)
    <2> HIDE DEF ws, seqs
    <2>1. seqs \in [1..Len(ws) -> Seq(Int)]
      BY <1>3, <1>4
    <2> QED BY <1>2, <2>1, IsASeq, LenProperties
  <1>6. Lengths(seqs, ws)
    <2> HIDE DEF ws, seqs
    <2> QED BY <1>1, <1>3, <1>4, <1>5 DEF Lengths
  <1>7. flat \in Seq(Int) /\ Len(flat) = p[Len(ws) + 1] /\ IsFlat(flat, seqs, p)
    <2> HIDE DEF ws, seqs, p
    <2> QED BY <1>1, <1>5, <1>6, Flatten
  <1>8. head \in Seq(Int) /\ Len(head) = 1 /\ head[1] = OPCODE[op]
    <2>1. OPCODE[op] \in Int
      BY DEF OPCODE
    <2> QED BY <2>1
  <1> HIDE DEF head, flat
  <1>9. head \o flat \in Seq(Int) /\ Len(head \o flat) = Len(head) + Len(flat)
        /\ \A x \in 1..Len(head) + Len(flat) :
             (head \o flat)[x] = IF x <= Len(head) THEN head[x] ELSE flat[x - Len(head)]
    BY <1>7, <1>8, ConcatProperties
  <1>10. InstrBytes(op, operands) = head \o flat
    BY DEF InstrBytes, head, flat
  <1>11. Len(flat) \in Nat /\ Len(flat) = Last(p)
    BY <1>1, <1>7
  <1>12. (head \o flat)[1] = OPCODE[op]
    BY <1>8, <1>9, <1>11
  <1>13. ASSUME NEW w \in DOMAIN ws, NEW x \in 1..ws[w]
         PROVE  (head \o flat)[1 + p[w] + x] = write_be(operands[w], ws[w])[x]
    <2> HIDE DEF ws, seqs, p
    <2>1. w \in 1..Len(ws) /\ w \in 1..Len(seqs)
      BY <1>2, <1>5
    <2>2. seqs[w] = write_be(operands[w], ws[w]) /\ Len(seqs[w]) = ws[w]
      BY <1>3, <1>4, <2>1
    <2>3. flat[p[w] + x] = seqs[w][x]
      BY <1>7, <2>1, <2>2 DEF IsFlat
    <2>4. p[w] + Len(seqs[w]) <= Len(flat) /\ p[w] \in Nat
      <3>1. Len(flat) = p[Len(seqs) + 1]
        BY <1>5, <1>7
      <3>2. p[w] \in Nat
        BY <1>1, <2>1, PlacesStep
      <3> QED BY <1>1, <1>5, <1>6, <1>7, <2>1, <3>1, <3>2, SliceFlat
    <2>5. x \in Nat /\ x >= 1 /\ x <= ws[w] /\ ws[w] \in Nat
      BY <1>1, <2>1
    <2>6. 1 + p[w] + x \in 1..Len(head) + Len(flat) /\ ~(1 + p[w] + x <= Len(head))
          /\ 1 + p[w] + x - Len(head) = p[w] + x
      <3>1. p[w] + ws[w] <= Len(flat)
        BY <2>2, <2>4
      <3> QED BY <1>8, <1>11, <2>4, <2>5, <3>1, Behind
    <2> DEFINE y == 1 + p[w] + x
    <2>7. (head \o flat)[y] = flat[y - Len(head)]
      <3> HIDE DEF y
      <3>1. y \in 1..Len(head) + Len(flat) /\ ~(y <= Len(head))
        BY <2>6 DEF y
      <3> QED BY <1>9, <3>1
    <2>8. y - Len(head) = p[w] + x
      BY <1>8, <2>4, <2>5
    <2>9. (head \o flat)[y] = flat[p[w] + x]
      <3> HIDE DEF y
      <3> QED BY <2>7, <2>8
    <2> QED BY <2>2, <2>3, <2>9
  <1> HIDE DEF p, ws
  <1>14. Len(head \o flat) = 1 + Last(p)
    BY <1>8, <1>9, <1>11
  <1> QED BY <1>9, <1>10, <1>12, <1>13, <1>14 DEF p, ws
-----------------------------------------------------------------------------
(* The blocks of an object, in their order.                                 *)

BlockLens(c) == [i \in DOMAIN c.order |-> Len(Laid(c)[i])]
Starts(c) == Places(BlockLens(c))
Totals(c) == [i \in DOMAIN c.order |-> Last(InBlock(Laid(c)[i]))]
BlockSizes(c) == [i \in DOMAIN c.order |-> [k \in DOMAIN Laid(c)[i] |-> Size(Laid(c)[i][k])]]

(* What jumps are resolved to. *)
Target(c, b) == 1 + Starts(c)[Position(c, b)]
Resolve(c, instr) == IF instr.op \in Jumps THEN [instr EXCEPT !.n = Target(c, @)] ELSE instr
Resolved(c) ==
  [i \in DOMAIN c.order |-> [k \in DOMAIN Laid(c)[i] |-> Resolve(c, Laid(c)[i][k])]]

(* The blocks in their order are sequences of instructions. *)
LEMMA OrderFacts ==
  ASSUME NEW c, IsObject(c)
  PROVE  /\ Len(c.order) \in Nat /\ Len(c.order) >= 1
         /\ DOMAIN c.order = 1..Len(c.order)
         /\ \A i \in 1..Len(c.order) : /\ Laid(c)[i] \in Seq(Instrs(c))
                                       /\ Len(Laid(c)[i]) \in Nat
                                       /\ DOMAIN Laid(c)[i] = 1..Len(Laid(c)[i])
         /\ Laid(c) \in Seq(Seq(Instrs(c))) /\ Len(Laid(c)) = Len(c.order)
  <1>1. Len(c.order) \in Nat /\ Len(c.order) >= 1 /\ DOMAIN c.order = 1..Len(c.order)
    <2>1. c.order \in Seq(DOMAIN c.blocks) /\ c.order # <<>>
      BY DEF IsObject
    <2> QED BY <2>1
  <1>2. ASSUME NEW i \in 1..Len(c.order)
        PROVE  /\ Laid(c)[i] \in Seq(Instrs(c))
               /\ Len(Laid(c)[i]) \in Nat
               /\ DOMAIN Laid(c)[i] = 1..Len(Laid(c)[i])
    <2>1. Laid(c)[i] \in Seq(Instrs(c))
      BY <1>1 DEF IsObject
    <2> QED BY <2>1, LenProperties
  <1>3. Laid(c) = [i \in 1..Len(c.order) |-> Laid(c)[i]]
    BY <1>1 DEF Laid
  <1>4. Laid(c) \in [1..Len(c.order) -> Seq(Instrs(c))]
    BY <1>2, <1>3
  <1>5. Laid(c) \in Seq(Seq(Instrs(c))) /\ Len(Laid(c)) = Len(c.order)
    BY <1>1, <1>4, IsASeq, LenProperties
  <1> QED BY <1>1, <1>2, <1>5

(* Each instruction of each block is one that fits. *)
LEMMA InstrFacts ==
  ASSUME NEW c, IsObject(c), NEW i \in 1..Len(c.order), NEW k \in 1..Len(Laid(c)[i])
  PROVE  /\ Laid(c)[i][k] \in Instrs(c)
         /\ Laid(c)[i][k].op \in DOMAIN OPCODE
         /\ Laid(c)[i][k].n \in Int
         /\ InstrFits(c, Laid(c)[i][k])
  <1>1. Laid(c)[i] \in Seq(Instrs(c)) /\ k \in DOMAIN Laid(c)[i] /\ i \in DOMAIN c.order
    BY OrderFacts
  <1>2. Laid(c)[i][k] \in Instrs(c)
    BY <1>1
  <1>3. Laid(c)[i][k].op \in DOMAIN OPCODE /\ Laid(c)[i][k].n \in Int
    <2> HIDE DEF OPCODE
    <2> QED BY <1>2 DEF Instrs
  <1>4. Laid(c)[i][k] \in Range(Laid(c)[i])
    BY <1>1 DEF Range
  <1>5. \A instr \in Range(Laid(c)[i]) : InstrFits(c, instr)
    BY <1>1 DEF IsObject
  <1> QED BY <1>2, <1>3, <1>4, <1>5

(* No instruction is empty. *)
LEMMA SizeNat ==
  ASSUME NEW instr
  PROVE  Size(instr) \in Nat /\ Size(instr) >= 1
  <1>1. Last(Places(Widths(instr.op))) \in Nat
    BY SizeFacts
  <1> QED BY <1>1 DEF Size

(* Where the instructions of a block lie in it. *)
LEMMA InBlockFacts ==
  ASSUME NEW S, NEW is \in Seq(S)
  PROVE  /\ [k \in DOMAIN is |-> Size(is[k])] \in Seq(Nat)
         /\ Len([k \in DOMAIN is |-> Size(is[k])]) = Len(is)
         /\ \A k \in 1..Len(is) : [l \in DOMAIN is |-> Size(is[l])][k] = Size(is[k])
         /\ ArePlaces(InBlock(is), [k \in DOMAIN is |-> Size(is[k])])
         /\ Last(InBlock(is)) = InBlock(is)[Len(is) + 1]
         /\ Last(InBlock(is)) \in Nat
  <1> DEFINE sizes == [k \in DOMAIN is |-> Size(is[k])]
  <1>1. DOMAIN is = 1..Len(is) /\ Len(is) \in Nat
    OBVIOUS
  <1>2. sizes \in [1..Len(is) -> Nat]
    BY <1>1, SizeNat
  <1>3. sizes \in Seq(Nat) /\ Len(sizes) = Len(is)
    <2> HIDE DEF sizes
    <2> QED BY <1>1, <1>2, IsASeq, LenProperties
  <1>4. \A k \in 1..Len(is) : sizes[k] = Size(is[k])
    BY <1>1
  <1>5. InBlock(is) = Places(sizes)
    BY DEF InBlock
  <1> HIDE DEF sizes
  <1>6. ArePlaces(InBlock(is), sizes)
    BY <1>3, <1>5, PlacesFacts
  <1>7. Last(InBlock(is)) = InBlock(is)[Len(is) + 1] /\ Last(InBlock(is)) \in Nat
    BY <1>3, <1>6, PlacesLast
  <1> QED BY <1>3, <1>4, <1>6, <1>7 DEF sizes

(* Where the blocks begin, in instructions. *)
LEMMA StartsFacts ==
  ASSUME NEW c, IsObject(c)
  PROVE  /\ BlockLens(c) \in Seq(Nat) /\ Len(BlockLens(c)) = Len(c.order)
         /\ \A i \in 1..Len(c.order) : BlockLens(c)[i] = Len(Laid(c)[i])
         /\ ArePlaces(Starts(c), BlockLens(c))
         /\ Lengths(Laid(c), BlockLens(c))
  <1>1. \A i \in 1..Len(c.order) : BlockLens(c)[i] = Len(Laid(c)[i])
    BY OrderFacts DEF BlockLens
  <1>2. BlockLens(c) \in [1..Len(c.order) -> Nat]
    BY OrderFacts DEF BlockLens
  <1>3. BlockLens(c) \in Seq(Nat) /\ Len(BlockLens(c)) = Len(c.order)
    <2>1. Len(c.order) \in Nat
      BY OrderFacts
    <2> QED BY <1>2, <2>1, FunctionIsSeq
  <1>4. ArePlaces(Starts(c), BlockLens(c))
    BY <1>3, PlacesFacts DEF Starts
  <1>5. Lengths(Laid(c), BlockLens(c))
    BY <1>1, <1>3, OrderFacts DEF Lengths
  <1> QED BY <1>1, <1>3, <1>4, <1>5

(* How long the blocks are, in bytes. *)
LEMMA TotalsFacts ==
  ASSUME NEW c, IsObject(c)
  PROVE  /\ Totals(c) \in Seq(Nat) /\ Len(Totals(c)) = Len(c.order)
         /\ \A i \in 1..Len(c.order) :
              /\ Totals(c)[i] = InBlock(Laid(c)[i])[Len(Laid(c)[i]) + 1]
              /\ Totals(c)[i] = Last(InBlock(Laid(c)[i]))
              /\ ArePlaces(InBlock(Laid(c)[i]), BlockSizes(c)[i])
         /\ ArePlaces(Offsets(c), Totals(c))
  <1>1. ASSUME NEW i \in 1..Len(c.order)
        PROVE  /\ Totals(c)[i] = InBlock(Laid(c)[i])[Len(Laid(c)[i]) + 1]
               /\ Totals(c)[i] = Last(InBlock(Laid(c)[i]))
               /\ Totals(c)[i] \in Nat
               /\ ArePlaces(InBlock(Laid(c)[i]), BlockSizes(c)[i])
    <2>1. Laid(c)[i] \in Seq(Instrs(c)) /\ i \in DOMAIN c.order
      BY OrderFacts
    <2>2. Totals(c)[i] = Last(InBlock(Laid(c)[i]))
      BY <2>1 DEF Totals
    <2>3. BlockSizes(c)[i] = [k \in DOMAIN Laid(c)[i] |-> Size(Laid(c)[i][k])]
      BY <2>1 DEF BlockSizes
    <2> QED BY <2>1, <2>2, <2>3, InBlockFacts
  <1>2. Totals(c) = [i \in 1..Len(c.order) |-> Totals(c)[i]]
    BY OrderFacts DEF Totals
  <1>3. Totals(c) \in [1..Len(c.order) -> Nat]
    BY <1>1, <1>2
  <1>4. Totals(c) \in Seq(Nat) /\ Len(Totals(c)) = Len(c.order)
    <2>1. Len(c.order) \in Nat
      BY OrderFacts
    <2> QED BY <1>3, <2>1, FunctionIsSeq
  <1>5. ArePlaces(Offsets(c), Totals(c))
    <2>1. Offsets(c) = Places(Totals(c))
      BY DEF Offsets, Totals
    <2> QED BY <1>4, <2>1, PlacesFacts
  <1> QED BY <1>1, <1>4, <1>5
-----------------------------------------------------------------------------
(* The linked program.                                                      *)

Image(c) == compiler_write_program(c)
Bytewise(c) == InBlock(Image(c).code)

(* The linked program, by the names used here. *)
LEMMA ImageIs ==
  ASSUME NEW c
  PROVE  /\ Image(c).code = FlattenSeq(Resolved(c))
         /\ Image(c).funcs =
              [f \in DOMAIN c.funcs |->
                [addr |-> Target(c, c.funcs[f].start), locals |-> c.funcs[f].locals,
                 args |-> c.funcs[f].args, captures |-> c.funcs[f].captures,
                 type |-> c.funcs[f].type, name |-> c.funcs[f].name]]
  BY DEF Image, compiler_write_program, Resolved, Resolve, Target, Starts, BlockLens

(* Every block has a position in the order. *)
LEMMA PositionFacts ==
  ASSUME NEW c, IsObject(c), NEW b \in DOMAIN c.blocks
  PROVE  Position(c, b) \in 1..Len(c.order)
  <1>1. b \in Range(c.order)
    BY DEF IsObject
  <1>2. \E i \in DOMAIN c.order : c.order[i] = b
    BY <1>1 DEF Range
  <1> QED BY <1>2, OrderFacts DEF Position

(* Where a block begins is the place of an instruction. *)
LEMMA TargetFacts ==
  ASSUME NEW c, IsObject(c), NEW b \in DOMAIN c.blocks
  PROVE  Target(c, b) \in 1..Starts(c)[Len(c.order) + 1]
  <1> DEFINE N == Len(c.order)
             i == Position(c, b)
             s == Starts(c)
             lens == BlockLens(c)
  <1>1. i \in 1..N /\ N \in Nat /\ N >= 1
    BY PositionFacts, OrderFacts
  <1>2. lens \in Seq(Nat) /\ Len(lens) = N /\ ArePlaces(s, lens) /\ lens[N] = Len(Laid(c)[N])
    <2>1. N \in 1..Len(c.order)
      BY <1>1
    <2> HIDE DEF N
    <2>2. lens[N] = Len(Laid(c)[N])
      BY <2>1, StartsFacts
    <2> QED BY <2>2, StartsFacts DEF N
  <1>3. Len(Laid(c)[N]) \in Nat /\ Len(Laid(c)[N]) >= 1
    <2>1. Laid(c)[N] \in Seq(Instrs(c)) /\ Laid(c)[N] # <<>>
      BY <1>1, OrderFacts DEF IsObject
    <2> QED BY <2>1, EmptySeq
  <1> HIDE DEF N, i, s, lens
  <1>4. s[N + 1] = s[N] + lens[N] /\ s[N] \in Nat
    BY <1>1, <1>2, PlacesStep
  <1>5. s[i] <= s[N] /\ s[i] \in Nat
    <2>1. i \in 1..Len(lens) + 1 /\ N \in 1..Len(lens) + 1 /\ i <= N /\ i \in 1..Len(lens)
      BY <1>1, <1>2
    <2> QED BY <1>2, <2>1, PlacesGrow, PlacesStep
  <1>6. 1 + s[i] \in 1..s[N + 1]
    BY <1>2, <1>3, <1>4, <1>5
  <1> QED BY <1>6 DEF Target, N, i, s

(* Resolving changes the target of a jump and nothing else. *)
LEMMA ResolveFacts ==
  ASSUME NEW c, IsObject(c), NEW i \in 1..Len(c.order), NEW k \in 1..Len(Laid(c)[i])
  PROVE  /\ Resolve(c, Laid(c)[i][k]) \in Instrs(c)
         /\ Resolve(c, Laid(c)[i][k]).op = Laid(c)[i][k].op
         /\ Resolve(c, Laid(c)[i][k]).s = Laid(c)[i][k].s
         /\ Laid(c)[i][k].op \in Jumps =>
              Resolve(c, Laid(c)[i][k]).n = Target(c, Laid(c)[i][k].n)
         /\ Laid(c)[i][k].op \notin Jumps => Resolve(c, Laid(c)[i][k]) = Laid(c)[i][k]
  <1> DEFINE in == Laid(c)[i][k]
             out == [in EXCEPT !.n = Target(c, in.n)]
  <1>1. in \in Instrs(c) /\ InstrFits(c, in)
    BY InstrFacts
  <1>2. CASE in.op \in Jumps
    <2>1. in.n \in DOMAIN c.blocks
      BY <1>1, <1>2 DEF InstrFits
    <2>2. Target(c, in.n) \in Int
      <3>1. Target(c, in.n) \in 1..Starts(c)[Len(c.order) + 1]
        BY <2>1, TargetFacts
      <3> QED BY <3>1
    <2>3. Resolve(c, in) = out
      BY <1>2 DEF Resolve
    <2> HIDE DEF in, OPCODE
    <2>4. out \in Instrs(c) /\ out.op = in.op /\ out.s = in.s /\ out.n = Target(c, in.n)
      BY <1>1, <2>2 DEF Instrs
    <2> HIDE DEF out
    <2> QED BY <1>2, <2>3, <2>4 DEF in
  <1>3. CASE in.op \notin Jumps
    BY <1>1, <1>3 DEF Resolve
  <1> QED BY <1>2, <1>3

(* The instructions of the program, one block behind the other. *)
LEMMA CodeFacts ==
  ASSUME NEW c, IsObject(c)
  PROVE  /\ Image(c).code \in Seq(Instrs(c))
         /\ Len(Image(c).code) = Starts(c)[Len(c.order) + 1]
         /\ Starts(c)[Len(c.order) + 1] \in Nat
         /\ \A i \in 1..Len(c.order) : \A k \in 1..Len(Laid(c)[i]) :
              Image(c).code[Starts(c)[i] + k] = Resolve(c, Laid(c)[i][k])
  <1> DEFINE N == Len(c.order)
             rs == Resolved(c)
  <1>1. N \in Nat /\ DOMAIN c.order = 1..N
    BY OrderFacts
  <1>2. ASSUME NEW i \in 1..N
        PROVE  /\ rs[i] \in Seq(Instrs(c))
               /\ Len(rs[i]) = Len(Laid(c)[i])
               /\ \A k \in 1..Len(Laid(c)[i]) : rs[i][k] = Resolve(c, Laid(c)[i][k])
    <2> DEFINE m == Len(Laid(c)[i])
               r == rs[i]
    <2>1. m \in Nat /\ DOMAIN Laid(c)[i] = 1..m
      BY OrderFacts
    <2>2. r = [k \in 1..m |-> Resolve(c, Laid(c)[i][k])]
      BY <1>1, <2>1 DEF Resolved
    <2>3. \A k \in 1..m : Resolve(c, Laid(c)[i][k]) \in Instrs(c)
      BY ResolveFacts
    <2> HIDE DEF m, r
    <2>4. r \in [1..m -> Instrs(c)]
      BY <2>2, <2>3
    <2>5. r \in Seq(Instrs(c)) /\ Len(r) = m
      BY <2>1, <2>4, FunctionIsSeq
    <2>6. \A k \in 1..m : r[k] = Resolve(c, Laid(c)[i][k])
      BY <2>2
    <2> QED BY <2>5, <2>6 DEF m, r
  <1>3. rs = [i \in 1..N |-> rs[i]]
    BY <1>1 DEF Resolved
  <1>4. BlockLens(c) \in Seq(Nat) /\ Len(BlockLens(c)) = N /\ ArePlaces(Starts(c), BlockLens(c))
        /\ \A i \in 1..N : BlockLens(c)[i] = Len(Laid(c)[i])
    BY StartsFacts
  <1> HIDE DEF N, rs
  <1>5. rs \in [1..N -> Seq(Instrs(c))]
    BY <1>2, <1>3
  <1>6. rs \in Seq(Seq(Instrs(c))) /\ Len(rs) = N
    BY <1>1, <1>5, FunctionIsSeq
  <1>7. Lengths(rs, BlockLens(c))
    BY <1>2, <1>4, <1>6 DEF Lengths
  <1>8. FlattenSeq(rs) \in Seq(Instrs(c)) /\ Len(FlattenSeq(rs)) = Starts(c)[N + 1]
        /\ IsFlat(FlattenSeq(rs), rs, Starts(c))
    BY <1>4, <1>6, <1>7, Flatten
  <1>9. Image(c).code = FlattenSeq(rs)
    BY ImageIs DEF rs
  <1>10. Starts(c)[N + 1] \in Nat
    <2>1. N + 1 \in 1..Len(BlockLens(c)) + 1
      BY <1>1, <1>4
    <2> QED BY <1>4, <2>1 DEF ArePlaces
  <1>11. ASSUME NEW i \in 1..N, NEW k \in 1..Len(Laid(c)[i])
         PROVE  FlattenSeq(rs)[Starts(c)[i] + k] = Resolve(c, Laid(c)[i][k])
    BY <1>2, <1>6, <1>8 DEF IsFlat
  <1> QED BY <1>8, <1>9, <1>10, <1>11 DEF N
(* Every instruction has its place in a block. *)
LEMMA CodeCovered ==
  ASSUME NEW c, IsObject(c), NEW j \in DOMAIN Image(c).code
  PROVE  \E i \in 1..Len(c.order) : \E k \in 1..Len(Laid(c)[i]) : j = Starts(c)[i] + k
  <1>1. j \in 1..Starts(c)[Len(c.order) + 1]
    <2>1. Image(c).code \in Seq(Instrs(c)) /\ Len(Image(c).code) = Starts(c)[Len(c.order) + 1]
      BY CodeFacts
    <2> QED BY <2>1
  <1>2. BlockLens(c) \in Seq(Nat) /\ Len(BlockLens(c)) = Len(c.order) /\ ArePlaces(Starts(c), BlockLens(c))
        /\ \A i \in 1..Len(c.order) : BlockLens(c)[i] = Len(Laid(c)[i])
    BY StartsFacts
  <1>3. \E i \in 1..Len(BlockLens(c)) : \E k \in 1..BlockLens(c)[i] : j = Starts(c)[i] + k
    BY <1>1, <1>2, PlacesCover
  <1> QED BY <1>2, <1>3

(* Bytes and instructions count alike: an instruction of a block lies where
   the block begins and the instruction in it. *)
LEMMA BytewiseFacts ==
  ASSUME NEW c, IsObject(c)
  PROVE  /\ \A i \in 1..Len(c.order) : \A k \in 1..Len(Laid(c)[i]) + 1 :
              Bytewise(c)[Starts(c)[i] + k] = Offsets(c)[i] + InBlock(Laid(c)[i])[k]
         /\ Last(Bytewise(c)) = Offsets(c)[Len(c.order) + 1]
         /\ ArePlaces(Bytewise(c), [j \in DOMAIN Image(c).code |-> Size(Image(c).code[j])])
  <1> DEFINE N == Len(c.order)
             code == Image(c).code
             pieces == BlockSizes(c)
             lens == BlockLens(c)
             p == Starts(c)
             sizes == [j \in DOMAIN code |-> Size(code[j])]
             a == Bytewise(c)
             q == [i \in 1..N |-> InBlock(Laid(c)[i])]
             totals == Totals(c)
             o == Offsets(c)
             n(i) == Len(Laid(c)[i])
  <1>1. N \in Nat /\ DOMAIN c.order = 1..N
    BY OrderFacts
  <1>2. ASSUME NEW i \in 1..N
        PROVE  /\ pieces[i] \in Seq(Nat) /\ Len(pieces[i]) = n(i)
               /\ \A k \in 1..n(i) : pieces[i][k] = Size(Laid(c)[i][k])
               /\ q[i] = InBlock(Laid(c)[i])
               /\ ArePlaces(q[i], pieces[i])
    <2>1. pieces[i] = [k \in DOMAIN Laid(c)[i] |-> Size(Laid(c)[i][k])]
      BY <1>1 DEF BlockSizes
    <2>2. Laid(c)[i] \in Seq(Instrs(c))
      BY OrderFacts
    <2>3. q[i] = InBlock(Laid(c)[i])
      OBVIOUS
    <2> HIDE DEF q, pieces
    <2> QED BY <2>1, <2>2, <2>3, InBlockFacts
  <1>3. pieces = [i \in 1..N |-> pieces[i]]
    BY <1>1 DEF BlockSizes
  <1>4. pieces \in Seq(Seq(Nat)) /\ Len(pieces) = N
    <2> HIDE DEF N, pieces
    <2>1. pieces \in [1..N -> Seq(Nat)]
      BY <1>2, <1>3
    <2> QED BY <1>1, <2>1, FunctionIsSeq
  <1>5. lens \in Seq(Nat) /\ Len(lens) = N /\ ArePlaces(p, lens)
        /\ \A i \in 1..N : lens[i] = n(i)
    BY StartsFacts
  <1>6. Lengths(pieces, lens)
    <2> HIDE DEF N, pieces, lens, n
    <2> QED BY <1>2, <1>4, <1>5 DEF Lengths
  <1>7. code \in Seq(Instrs(c)) /\ Len(code) = p[N + 1]
    BY CodeFacts
  <1>8. sizes \in Seq(Nat) /\ Len(sizes) = Len(code) /\ ArePlaces(a, sizes)
        /\ Last(a) = a[Len(code) + 1]
        /\ \A j \in 1..Len(code) : sizes[j] = Size(code[j])
    <2>1. a = InBlock(code)
      BY DEF Bytewise
    <2> HIDE DEF code, a
    <2> QED BY <1>7, <2>1, InBlockFacts
  <1>9. IsFlat(sizes, pieces, p)
    <2> SUFFICES ASSUME NEW i \in 1..N, NEW k \in 1..n(i)
                 PROVE  sizes[p[i] + k] = pieces[i][k]
      <3> HIDE DEF N, pieces, sizes, n
      <3> QED BY <1>2, <1>4 DEF IsFlat
    <2>1. code[p[i] + k] = Resolve(c, Laid(c)[i][k])
      BY CodeFacts
    <2>2. Size(Resolve(c, Laid(c)[i][k])) = Size(Laid(c)[i][k])
      BY ResolveFacts DEF Size
    <2>3. p[i] + k \in 1..Len(code)
      <3>1. p[i] \in Nat /\ lens[i] = n(i) /\ p[i + 1] = p[i] + lens[i] /\ n(i) \in Nat
        <4>1. i \in 1..Len(lens)
          BY <1>5
        <4> HIDE DEF lens, p, n
        <4> QED BY <1>5, <4>1, PlacesStep
      <3>2. p[i + 1] <= p[N + 1] /\ p[N + 1] \in Nat
        <4>1. i + 1 \in 1..Len(lens) + 1 /\ N + 1 \in 1..Len(lens) + 1 /\ i + 1 <= N + 1
          BY <1>1, <1>5
        <4> HIDE DEF lens, p, n, N
        <4>2. p[N + 1] \in Nat
          BY <1>5, <4>1 DEF ArePlaces
        <4> QED BY <1>5, <4>1, <4>2, PlacesGrow
      <3>3. p[i] + n(i) <= p[N + 1]
        BY <3>1, <3>2
      <3> HIDE DEF lens, p, n, N, code
      <3> QED BY <1>7, <3>1, <3>2, <3>3, Within
    <2> HIDE DEF code, sizes, pieces, p
    <2> QED BY <1>2, <1>8, <2>1, <2>2, <2>3
  <1>10. totals \in Seq(Nat) /\ Len(totals) = N /\ ArePlaces(o, totals)
         /\ \A i \in 1..N : totals[i] = q[i][n(i) + 1]
    <2>1. totals \in Seq(Nat) /\ Len(totals) = N /\ ArePlaces(o, totals)
          /\ \A i \in 1..N : totals[i] = InBlock(Laid(c)[i])[n(i) + 1]
      BY TotalsFacts
    <2>2. \A i \in 1..N : q[i] = InBlock(Laid(c)[i])
      OBVIOUS
    <2> HIDE DEF q, N, totals
    <2> QED BY <2>1, <2>2
  <1>11. \A i \in 1..N : q[i] = InBlock(Laid(c)[i])
    OBVIOUS
  <1>12. \A i \in 1..N : Len(pieces[i]) = n(i)
    BY <1>2
  <1>13. \A i \in 1..N : ArePlaces(q[i], pieces[i])
    BY <1>2
  <1> HIDE DEF N, code, pieces, lens, p, sizes, a, q, totals, o
  <1>14. /\ \A i \in 1..N : \A k \in 1..n(i) + 1 : a[p[i] + k] = o[i] + q[i][k]
         /\ a[Len(sizes) + 1] = o[N + 1]
    <2>1. \A i \in 1..Len(pieces) : ArePlaces(q[i], pieces[i])
      BY <1>4, <1>13
    <2>2. \A i \in 1..Len(pieces) : totals[i] = q[i][Len(pieces[i]) + 1]
      BY <1>4, <1>10, <1>12
    <2>3. Len(sizes) = p[Len(pieces) + 1] /\ Len(totals) = Len(pieces)
      BY <1>4, <1>7, <1>8, <1>10
    <2>4. /\ \A i \in 1..Len(pieces) : \A k \in 1..Len(pieces[i]) + 1 :
               a[p[i] + k] = o[i] + q[i][k]
          /\ a[Len(sizes) + 1] = o[Len(pieces) + 1]
      <3>1. pieces \in Seq(Seq(Nat)) /\ Lengths(pieces, lens) /\ ArePlaces(p, lens)
        BY <1>4, <1>5, <1>6
      <3>2. sizes \in Seq(Nat) /\ IsFlat(sizes, pieces, p) /\ ArePlaces(a, sizes)
        BY <1>8, <1>9
      <3>3. totals \in Seq(Nat) /\ ArePlaces(o, totals)
        BY <1>10
      <3>4. PiecesLie(pieces, lens, p, sizes, a, q, totals, o)
        BY <2>1, <2>2, <2>3, <3>1, <3>2, <3>3 DEF PiecesLie
      <3> QED BY <3>4, PlacesOfPieces
    <2> QED BY <1>4, <1>12, <2>4
  <1>15. Last(a) = o[N + 1]
    <2>1. Last(a) = a[Len(code) + 1] /\ Len(sizes) = Len(code)
      BY <1>8
    <2>2. a[Len(sizes) + 1] = o[N + 1]
      BY <1>14
    <2> QED BY <2>1, <2>2
  <1>16. \A i \in 1..N : \A k \in 1..n(i) + 1 : a[p[i] + k] = o[i] + InBlock(Laid(c)[i])[k]
    BY <1>11, <1>14
  <1> QED BY <1>8, <1>15, <1>16 DEF N, code, p, sizes, a, o
-----------------------------------------------------------------------------
(* The bytes of the code.                                                   *)

(* Where the blocks and the instructions in them begin, in bytes. *)
LEMMA OffsetFacts ==
  ASSUME NEW c, IsObject(c)
  PROVE  /\ \A i \in 1..Len(c.order) + 1 :
              /\ Offsets(c)[i] \in Nat
              /\ Offsets(c)[i] <= Offsets(c)[Len(c.order) + 1]
         /\ Last(Offsets(c)) = Offsets(c)[Len(c.order) + 1]
         /\ \A i \in 1..Len(c.order) : \A k \in 1..Len(Laid(c)[i]) + 1 :
              InBlock(Laid(c)[i])[k] \in Nat
         /\ \A i \in 1..Len(c.order) :
              Offsets(c)[i + 1] = Offsets(c)[i] + InBlock(Laid(c)[i])[Len(Laid(c)[i]) + 1]
         /\ \A i \in 1..Len(c.order) : InBlock(Laid(c)[i])[1] = 0
  <1> DEFINE N == Len(c.order)
             o == Offsets(c)
             t == Totals(c)
  <1>1. N \in Nat /\ t \in Seq(Nat) /\ Len(t) = N /\ ArePlaces(o, t)
    BY OrderFacts, TotalsFacts
  <1>2. Last(o) = o[N + 1]
    <2> HIDE DEF N, o, t
    <2> QED BY <1>1, PlacesLast
  <1>3. ASSUME NEW i \in 1..N + 1 PROVE o[i] \in Nat /\ o[i] <= o[N + 1]
    <2> HIDE DEF N, o, t
    <2>1. i \in 1..Len(t) + 1 /\ N + 1 \in 1..Len(t) + 1 /\ i <= N + 1
      BY <1>1
    <2>2. o[i] \in Nat
      BY <1>1, <2>1 DEF ArePlaces
    <2> QED BY <1>1, <2>1, <2>2, PlacesGrow
  <1>4. ASSUME NEW i \in 1..N
        PROVE  /\ \A k \in 1..Len(Laid(c)[i]) + 1 : InBlock(Laid(c)[i])[k] \in Nat
               /\ o[i + 1] = o[i] + InBlock(Laid(c)[i])[Len(Laid(c)[i]) + 1]
               /\ InBlock(Laid(c)[i])[1] = 0
    <2> DEFINE is == Laid(c)[i]
               sizes == [k \in DOMAIN is |-> Size(is[k])]
    <2>1. is \in Seq(Instrs(c))
      BY OrderFacts
    <2>2. ArePlaces(InBlock(is), sizes) /\ Len(sizes) = Len(is)
      <3> HIDE DEF is
      <3> QED BY <2>1, InBlockFacts
    <2>3. (\A k \in 1..Len(is) + 1 : InBlock(is)[k] \in Nat) /\ InBlock(is)[1] = 0
      <3> HIDE DEF is, sizes
      <3> QED BY <2>2 DEF ArePlaces
    <2>4. t[i] = InBlock(is)[Len(is) + 1]
      BY TotalsFacts
    <2>5. o[i + 1] = o[i] + t[i]
      <3> HIDE DEF N, o, t
      <3>1. i \in 1..Len(t)
        BY <1>1
      <3> QED BY <1>1, <3>1, PlacesStep
    <2> QED BY <2>3, <2>4, <2>5
  <1> HIDE DEF N, o
  <1>5. \A i \in 1..N + 1 : o[i] \in Nat /\ o[i] <= o[N + 1]
    BY <1>3
  <1>6. \A i \in 1..N : /\ \A k \in 1..Len(Laid(c)[i]) + 1 : InBlock(Laid(c)[i])[k] \in Nat
                       /\ o[i + 1] = o[i] + InBlock(Laid(c)[i])[Len(Laid(c)[i]) + 1]
                       /\ InBlock(Laid(c)[i])[1] = 0
    BY <1>4
  <1> QED BY <1>2, <1>5, <1>6 DEF N, o

(* There is a number for each operand. *)
LEMMA OperandsFacts ==
  ASSUME NEW c \in Objects, NEW i \in 1..Len(c.order), NEW k \in 1..Len(Laid(c)[i]),
         \A s \in Range(c.strings) : string_pool_get_entry(c, s) \in Nat /\ Len(Bytes(s)) \in Nat
  PROVE  /\ \A w \in DOMAIN Widths(Laid(c)[i][k].op) : Operands(c, i, k)[w] \in Int
         /\ bytecode_put(c, i, k) = InstrBytes(Laid(c)[i][k].op, Operands(c, i, k))
  <1> DEFINE instr == Laid(c)[i][k]
             op == instr.op
  <1>0. IsObject(c)
    BY ObjectsAssumption
  <1>1. instr.op \in DOMAIN OPCODE /\ instr.n \in Int /\ InstrFits(c, instr)
    BY <1>0, InstrFacts
  <1>2. bytecode_put(c, i, k) = InstrBytes(op, Operands(c, i, k))
    BY DEF bytecode_put, InstrBytes, OperandBytes
  <1>3. ASSUME NEW w \in DOMAIN Widths(op) PROVE Operands(c, i, k)[w] \in Int
    <2>1. CASE op \in Jumps
      <3>1. w = 1
        <4>1. Widths(op) = <<2>>
          BY <2>1, WidthsFacts
        <4> QED BY <4>1
      <3>2. instr.n \in DOMAIN c.blocks
        BY <1>1, <2>1 DEF InstrFits
      <3>3. Position(c, instr.n) \in 1..Len(c.order) /\ Len(c.order) \in Nat
        BY <1>0, <3>2, PositionFacts, OrderFacts
      <3>4. Offset(c, instr.n) \in Nat /\ Offsets(c)[i] \in Nat /\ InBlock(Laid(c)[i])[k] \in Nat
        <4>1. Position(c, instr.n) \in 1..Len(c.order) + 1 /\ i \in 1..Len(c.order) + 1
          BY <3>3
        <4>2. k \in 1..Len(Laid(c)[i]) + 1
          <5>1. Len(Laid(c)[i]) \in Nat
            BY <1>0, OrderFacts
          <5> QED BY <5>1
        <4> QED BY <1>0, <4>1, <4>2, OffsetFacts DEF Offset
      <3>5. jump_rel_addr(c, i, k) \in Int
        BY <3>4 DEF jump_rel_addr
      <3>6. Operands(c, i, k) = <<jump_rel_addr(c, i, k)>>
        BY <2>1 DEF Operands, Jumps, Counted
      <3> QED BY <3>1, <3>5, <3>6
    <2>2. CASE op = "PUSHSTR"
      <3>2. Operands(c, i, k) = <<string_pool_get_entry(c, instr.s), Len(Bytes(instr.s))>>
        BY <2>2 DEF Operands, Jumps, Counted
      <3>3. instr.s \in Range(c.strings)
        BY <1>1, <2>2 DEF InstrFits
      <3>4. w \in {1, 2}
        <4>1. Widths(op) = <<4, 4>>
          BY <2>2, WidthsFacts
        <4> QED BY <4>1
      <3> QED BY <3>2, <3>3, <3>4
    <2>3. CASE op \notin Jumps /\ op # "PUSHSTR"
      <3>1. w = 1
        <4>1. Widths(op) \in {<<>>, <<1>>, <<2>>, <<4>>, <<8>>}
          BY <2>3, WidthsFacts
        <4> QED BY <4>1
      <3>2. Operands(c, i, k) = <<instr.n - 1>> \/ Operands(c, i, k) = <<instr.n>>
        BY <2>3 DEF Operands
      <3> QED BY <1>1, <3>1, <3>2
    <2> QED BY <2>1, <2>2, <2>3
  <1> QED BY <1>2, <1>3

(* Where each string lies among all that were interned. *)
LEMMA StringsFacts ==
  ASSUME NEW c \in Objects
  PROVE  /\ Strings(c) \in Seq(Int)
         /\ Last(StringPlaces(c)) = Len(Strings(c))
         /\ \A s \in Range(c.strings) :
              /\ Bytes(s) \in Seq(Int) /\ Len(Bytes(s)) \in Nat
              /\ string_pool_get_entry(c, s) \in Nat
              /\ string_pool_get_entry(c, s) + Len(Bytes(s)) <= Len(Strings(c))
              /\ Slice(Strings(c), string_pool_get_entry(c, s), Len(Bytes(s))) = Bytes(s)
  <1> DEFINE m == Len(c.strings)
             seqs == [n \in DOMAIN c.strings |-> Bytes(c.strings[n])]
             lens == [n \in DOMAIN c.strings |-> Len(Bytes(c.strings[n]))]
             p == StringPlaces(c)
             flat == Strings(c)
  <1>1. m \in Nat /\ DOMAIN c.strings = 1..m
    <2>1. c.strings \in Seq(Range(c.strings))
      BY ObjectsAssumption DEF IsObject
    <2> QED BY <2>1
  <1>2. \A s \in Range(c.strings) : Bytes(s) \in Seq(Int) /\ Len(Bytes(s)) \in Nat
    <2> TAKE s \in Range(c.strings)
    <2>1. Bytes(s) \in Seq(0..255)
      BY ObjectsAssumption
    <2>2. 0..255 \subseteq Int
      OBVIOUS
    <2>3. Bytes(s) \in Seq(Int)
      BY <2>1, <2>2, SeqMonotonic
    <2> QED BY <2>3
  <1>3. \A n \in 1..m : c.strings[n] \in Range(c.strings)
    BY <1>1 DEF Range
  <1>4. seqs \in [1..m -> Seq(Int)] /\ lens \in [1..m -> Nat]
        /\ \A n \in 1..m : lens[n] = Len(seqs[n]) /\ seqs[n] = Bytes(c.strings[n])
    BY <1>1, <1>2, <1>3
  <1>5. p = Places(lens) /\ flat = FlattenSeq(seqs)
    BY DEF StringPlaces, Strings
  <1> HIDE DEF seqs, lens, m, p, flat
  <1>6. seqs \in Seq(Seq(Int)) /\ Len(seqs) = m /\ lens \in Seq(Nat) /\ Len(lens) = m
    BY <1>1, <1>4, FunctionIsSeq
  <1>7. Lengths(seqs, lens) /\ ArePlaces(p, lens)
    BY <1>4, <1>5, <1>6, PlacesFacts DEF Lengths
  <1>8. flat \in Seq(Int) /\ Len(flat) = p[Len(seqs) + 1] /\ IsFlat(flat, seqs, p)
    BY <1>5, <1>6, <1>7, Flatten
  <1>9. Last(p) = Len(flat)
    BY <1>6, <1>7, <1>8, PlacesLast
  <1>10. ASSUME NEW s \in Range(c.strings)
         PROVE  /\ string_pool_get_entry(c, s) \in Nat
                /\ string_pool_get_entry(c, s) + Len(Bytes(s)) <= Len(flat)
                /\ Slice(flat, string_pool_get_entry(c, s), Len(Bytes(s))) = Bytes(s)
    <2> DEFINE n == CHOOSE n \in DOMAIN c.strings : c.strings[n] = s
    <2>1. n \in DOMAIN c.strings /\ c.strings[n] = s
      <3>1. \E k \in DOMAIN c.strings : c.strings[k] = s
        BY DEF Range
      <3> QED BY <3>1
    <2>2. string_pool_get_entry(c, s) = p[n]
      BY DEF string_pool_get_entry, p
    <2> HIDE DEF n
    <2>3. n \in 1..Len(seqs) /\ n \in 1..Len(lens) /\ seqs[n] = Bytes(s)
      BY <1>1, <1>4, <1>6, <2>1
    <2>4. p[n] \in Nat
      BY <1>6, <1>7, <2>3, PlacesStep
    <2>5. p[n] + Len(seqs[n]) <= Len(flat) /\ Slice(flat, p[n], Len(seqs[n])) = seqs[n]
      <3>1. flat \in Seq(Int) /\ seqs \in Seq(Seq(Int)) /\ n \in 1..Len(seqs)
        BY <1>6, <1>8, <2>3
      <3>2. Lengths(seqs, lens) /\ ArePlaces(p, lens) /\ IsFlat(flat, seqs, p)
            /\ Len(flat) = p[Len(seqs) + 1]
        BY <1>7, <1>8
      <3> QED BY <3>1, <3>2, SliceFlat
    <2> QED BY <2>2, <2>3, <2>4, <2>5
  <1> QED BY <1>2, <1>8, <1>9, <1>10 DEF p, flat

(* The bytes of a block. *)
BlockBytes(c, i) == FlattenSeq([k \in DOMAIN Laid(c)[i] |-> bytecode_put(c, i, k)])

(* bytecode_put writes as many bytes as the size of the instruction says. *)
LEMMA PutFacts ==
  ASSUME NEW c \in Objects, NEW i \in 1..Len(c.order), NEW k \in 1..Len(Laid(c)[i])
  PROVE  /\ bytecode_put(c, i, k) = InstrBytes(Laid(c)[i][k].op, Operands(c, i, k))
         /\ \A w \in DOMAIN Widths(Laid(c)[i][k].op) : Operands(c, i, k)[w] \in Int
         /\ bytecode_put(c, i, k) \in Seq(Int)
         /\ Len(bytecode_put(c, i, k)) = Size(Laid(c)[i][k])
  <1>1. IsObject(c)
    BY ObjectsAssumption
  <1>2. Laid(c)[i][k].op \in DOMAIN OPCODE
    BY <1>1, InstrFacts
  <1>3. /\ bytecode_put(c, i, k) = InstrBytes(Laid(c)[i][k].op, Operands(c, i, k))
        /\ \A w \in DOMAIN Widths(Laid(c)[i][k].op) : Operands(c, i, k)[w] \in Int
    BY StringsFacts, OperandsFacts
  <1> HIDE DEF OPCODE
  <1> QED BY <1>2, <1>3, InstrBytesFacts DEF Size

(* The bytes of a block. *)
LEMMA BlockBytesFacts ==
  ASSUME NEW c \in Objects, NEW i \in 1..Len(c.order)
  PROVE  /\ BlockBytes(c, i) \in Seq(Int)
         /\ Len(BlockBytes(c, i)) = InBlock(Laid(c)[i])[Len(Laid(c)[i]) + 1]
         /\ \A k \in 1..Len(Laid(c)[i]) : \A y \in 1..Size(Laid(c)[i][k]) :
              BlockBytes(c, i)[InBlock(Laid(c)[i])[k] + y] = bytecode_put(c, i, k)[y]
  <1> DEFINE is == Laid(c)[i]
             m == Len(is)
             seqs == [k \in DOMAIN is |-> bytecode_put(c, i, k)]
             sizes == [k \in DOMAIN is |-> Size(is[k])]
             p == InBlock(is)
             flat == BlockBytes(c, i)
  <1>1. is \in Seq(Instrs(c)) /\ m \in Nat /\ DOMAIN is = 1..m
    BY ObjectsAssumption, OrderFacts
  <1>2. sizes \in Seq(Nat) /\ Len(sizes) = m /\ ArePlaces(p, sizes)
        /\ \A k \in 1..m : sizes[k] = Size(is[k])
    <2> HIDE DEF is
    <2> QED BY <1>1, InBlockFacts
  <1>3. \A k \in 1..m : bytecode_put(c, i, k) \in Seq(Int) /\ Len(bytecode_put(c, i, k)) = Size(is[k])
    BY PutFacts
  <1>4. flat = FlattenSeq(seqs)
    BY DEF BlockBytes
  <1>5. seqs = [k \in 1..m |-> bytecode_put(c, i, k)]
    BY <1>1
  <1> HIDE DEF is, m, seqs, sizes, p, flat
  <1>6. seqs \in [1..m -> Seq(Int)] /\ \A k \in 1..m : seqs[k] = bytecode_put(c, i, k)
    BY <1>3, <1>5
  <1>7. seqs \in Seq(Seq(Int)) /\ Len(seqs) = m
    BY <1>1, <1>6, FunctionIsSeq
  <1>8. Lengths(seqs, sizes)
    BY <1>2, <1>3, <1>6, <1>7 DEF Lengths
  <1>9. flat \in Seq(Int) /\ Len(flat) = p[m + 1] /\ IsFlat(flat, seqs, p)
    BY <1>2, <1>4, <1>7, <1>8, Flatten
  <1>10. ASSUME NEW k \in 1..m, NEW y \in 1..Size(is[k])
         PROVE  flat[p[k] + y] = bytecode_put(c, i, k)[y]
    BY <1>3, <1>6, <1>7, <1>9 DEF IsFlat
  <1> QED BY <1>9, <1>10 DEF is, m, p, flat

(* The bytes of all blocks, and each instruction at its place in them. *)
LEMMA CodeBytes ==
  ASSUME NEW c \in Objects
  PROVE  /\ Code(c) \in Seq(Int)
         /\ Len(Code(c)) = Offsets(c)[Len(c.order) + 1]
         /\ \A i \in 1..Len(c.order) : \A k \in 1..Len(Laid(c)[i]) :
              /\ Offsets(c)[i] + InBlock(Laid(c)[i])[k] + Size(Laid(c)[i][k]) <= Len(Code(c))
              /\ \A y \in 1..Size(Laid(c)[i][k]) :
                   Code(c)[Offsets(c)[i] + InBlock(Laid(c)[i])[k] + y] = bytecode_put(c, i, k)[y]
  <1> DEFINE N == Len(c.order)
             seqs == [i \in DOMAIN c.order |-> BlockBytes(c, i)]
             t == Totals(c)
             o == Offsets(c)
             flat == Code(c)
             q(i) == InBlock(Laid(c)[i])
             n(i) == Len(Laid(c)[i])
  <1>0. IsObject(c)
    BY ObjectsAssumption
  <1>1. N \in Nat /\ DOMAIN c.order = 1..N
    BY <1>0, OrderFacts
  <1>2. t \in Seq(Nat) /\ Len(t) = N /\ ArePlaces(o, t) /\ \A i \in 1..N : t[i] = q(i)[n(i) + 1]
    BY <1>0, TotalsFacts
  <1>3. \A i \in 1..N : BlockBytes(c, i) \in Seq(Int) /\ Len(BlockBytes(c, i)) = q(i)[n(i) + 1]
    BY BlockBytesFacts
  <1>4. flat = FlattenSeq(seqs)
    BY DEF Code, BlockBytes
  <1>5. seqs = [i \in 1..N |-> BlockBytes(c, i)]
    BY <1>1
  <1>6. \A i \in 1..N : \A k \in 1..n(i) : \A y \in 1..Size(Laid(c)[i][k]) :
          BlockBytes(c, i)[q(i)[k] + y] = bytecode_put(c, i, k)[y]
    BY BlockBytesFacts
  <1>7. \A i \in 1..N : \A k \in 1..n(i) :
          /\ q(i)[k] \in Nat /\ q(i)[k] + Size(Laid(c)[i][k]) <= q(i)[n(i) + 1]
          /\ Size(Laid(c)[i][k]) \in Nat
    <2> SUFFICES ASSUME NEW i \in 1..N, NEW k \in 1..n(i)
                 PROVE  /\ q(i)[k] \in Nat /\ q(i)[k] + Size(Laid(c)[i][k]) <= q(i)[n(i) + 1]
                        /\ Size(Laid(c)[i][k]) \in Nat
      OBVIOUS
    <2> DEFINE is == Laid(c)[i]
               p == InBlock(is)
               sizes == [l \in DOMAIN is |-> Size(is[l])]
    <2>1. is \in Seq(Instrs(c)) /\ Len(is) \in Nat /\ k \in 1..Len(is)
      BY <1>0, OrderFacts
    <2> HIDE DEF is
    <2>2. sizes \in Seq(Nat) /\ Len(sizes) = Len(is) /\ ArePlaces(p, sizes)
          /\ sizes[k] = Size(is[k])
      BY <2>1, InBlockFacts
    <2> HIDE DEF p, sizes
    <2>3. p[k] \in Nat /\ sizes[k] \in Nat /\ p[k + 1] = p[k] + sizes[k]
      BY <2>1, <2>2, PlacesStep
    <2>4. p[k + 1] <= p[Len(is) + 1]
      <3>1. k + 1 \in 1..Len(sizes) + 1 /\ Len(is) + 1 \in 1..Len(sizes) + 1 /\ k + 1 <= Len(is) + 1
        BY <2>1, <2>2
      <3> QED BY <2>2, <3>1, PlacesGrow
    <2>5. p[k] \in Nat /\ p[k] + Size(is[k]) <= p[Len(is) + 1] /\ Size(is[k]) \in Nat
      BY <2>2, <2>3, <2>4
    <2> QED BY <2>5 DEF is, p
  <1>8. seqs \in [1..N -> Seq(Int)] /\ \A i \in 1..N : seqs[i] = BlockBytes(c, i)
    <2> HIDE DEF N, seqs
    <2> QED BY <1>3, <1>5
  <1> HIDE DEF N, seqs, t, o, flat, q, n
  <1>9. seqs \in Seq(Seq(Int)) /\ Len(seqs) = N
    BY <1>1, <1>8, FunctionIsSeq
  <1>10. Lengths(seqs, t)
    BY <1>2, <1>3, <1>8, <1>9 DEF Lengths
  <1>11. flat \in Seq(Int) /\ Len(flat) = o[N + 1] /\ IsFlat(flat, seqs, o)
    BY <1>2, <1>4, <1>9, <1>10, Flatten
  <1>12. ASSUME NEW i \in 1..N, NEW k \in 1..n(i)
         PROVE  /\ o[i] + q(i)[k] + Size(Laid(c)[i][k]) <= Len(flat)
                /\ \A y \in 1..Size(Laid(c)[i][k]) :
                     flat[o[i] + q(i)[k] + y] = bytecode_put(c, i, k)[y]
    <2> DEFINE b == BlockBytes(c, i)
               x == q(i)[k]
               z == Size(Laid(c)[i][k])
               put == bytecode_put(c, i, k)
    <2>1. x \in Nat /\ z \in Nat /\ x + z <= Len(b) /\ b \in Seq(Int) /\ Len(b) \in Nat
      BY <1>3, <1>7
    <2>2. \A y \in 1..z : b[x + y] = put[y]
      BY <1>6
    <2>3. o[i] \in Nat
      BY <1>2, PlacesStep
    <2>4. o[i] + Len(b) <= Len(flat) /\ Len(flat) \in Nat
      <3>1. i \in 1..Len(seqs) /\ seqs[i] = b
        BY <1>8, <1>9
      <3>2. o[i] + Len(seqs[i]) <= Len(flat)
        BY <1>2, <1>9, <1>10, <1>11, <3>1, SliceFlat
      <3> QED BY <1>11, <3>1, <3>2
    <2>5. \A u \in 1..Len(b) : flat[o[i] + u] = b[u]
      <3>1. i \in 1..Len(seqs) /\ seqs[i] = b
        BY <1>8, <1>9
      <3> HIDE DEF b
      <3> QED BY <1>11, <3>1 DEF IsFlat
    <2> HIDE DEF b, x, z, put
    <2>6. o[i] + x + z <= Len(flat)
      BY <2>1, <2>3, <2>4
    <2>7. ASSUME NEW y \in 1..z PROVE flat[o[i] + x + y] = put[y]
      <3>1. x + y \in 1..Len(b) /\ o[i] + x + y = o[i] + (x + y)
        BY <2>1, <2>3
      <3> QED BY <2>2, <2>5, <3>1
    <2> QED BY <2>6, <2>7 DEF x, z, put
  <1> QED BY <1>11, <1>12 DEF N, o, flat, q, n
-----------------------------------------------------------------------------
(* What the machine reads where an instruction begins.                      *)

(* The opcode and the operands of each instruction, as slices of the code. *)
LEMMA CodeSlice ==
  ASSUME NEW c \in Objects, NEW i \in 1..Len(c.order), NEW k \in 1..Len(Laid(c)[i])
  PROVE  LET at == Offsets(c)[i] + InBlock(Laid(c)[i])[k]
             op == Laid(c)[i][k].op
         IN /\ at \in Nat
            /\ Code(c)[at + 1] = OPCODE[op]
            /\ at + Size(Laid(c)[i][k]) <= Len(Code(c))
            /\ \A w \in DOMAIN Widths(op) :
                 Slice(Code(c), at + 1 + Places(Widths(op))[w], Widths(op)[w])
                   = write_be(Operands(c, i, k)[w], Widths(op)[w])
  <1> DEFINE at == Offsets(c)[i] + InBlock(Laid(c)[i])[k]
             op == Laid(c)[i][k].op
             code == Code(c)
             put == bytecode_put(c, i, k)
             ws == Widths(op)
             p == Places(ws)
             z == Size(Laid(c)[i][k])
  <1>0. IsObject(c)
    BY ObjectsAssumption
  <1>1. at \in Nat
    <2>1. Len(c.order) \in Nat /\ Len(Laid(c)[i]) \in Nat
      BY <1>0, OrderFacts
    <2>2. i \in 1..Len(c.order) + 1 /\ k \in 1..Len(Laid(c)[i]) + 1
      BY <2>1
    <2>3. Offsets(c)[i] \in Nat /\ InBlock(Laid(c)[i])[k] \in Nat
      BY <1>0, <2>2, OffsetFacts
    <2> QED BY <2>3
  <1>2. code \in Seq(Int) /\ at + z <= Len(code)
        /\ \A y \in 1..z : code[at + y] = put[y]
    BY CodeBytes
  <1>3. op \in DOMAIN OPCODE
    BY <1>0, InstrFacts
  <1>4. /\ put = InstrBytes(op, Operands(c, i, k))
        /\ \A w \in DOMAIN ws : Operands(c, i, k)[w] \in Int
        /\ Len(put) = z
    BY PutFacts
  <1>5. z \in Nat /\ z >= 1 /\ z = 1 + Last(p)
    BY SizeNat DEF Size
  <1>6. ws \in Seq(Nat) /\ ArePlaces(p, ws) /\ Last(p) = p[Len(ws) + 1] /\ Last(p) \in Nat
    BY SizeFacts
  <1>7. put[1] = OPCODE[op] /\ \A w \in DOMAIN ws : \A x \in 1..ws[w] :
          put[1 + p[w] + x] = write_be(Operands(c, i, k)[w], ws[w])[x]
    <2> HIDE DEF OPCODE
    <2> QED BY <1>3, <1>4, InstrBytesFacts
  <1> HIDE DEF at, op, code, put, ws, p, z
  <1>8. code[at + 1] = OPCODE[op]
    <2>1. 1 \in 1..z
      BY <1>5
    <2> QED BY <1>2, <1>7, <2>1
  <1>9. ASSUME NEW w \in DOMAIN ws
        PROVE  Slice(code, at + 1 + p[w], ws[w]) = write_be(Operands(c, i, k)[w], ws[w])
    <2> DEFINE bytes == write_be(Operands(c, i, k)[w], ws[w])
               v == ws[w]
               u == p[w]
    <2>1. w \in 1..Len(ws) /\ v \in Nat
      BY <1>6
    <2>2. u \in Nat /\ u + v <= Last(p)
      <3>1. u \in Nat /\ p[w + 1] = u + v
        BY <1>6, <2>1, PlacesStep
      <3>2. w + 1 \in 1..Len(ws) + 1 /\ Len(ws) + 1 \in 1..Len(ws) + 1 /\ w + 1 <= Len(ws) + 1
        BY <1>6, <2>1
      <3>3. p[w + 1] <= p[Len(ws) + 1]
        BY <1>6, <3>2, PlacesGrow
      <3> QED BY <1>6, <3>1, <3>3
    <2>3. bytes \in Seq(Int) /\ Len(bytes) = v
      <3>1. bytes \in Seq(0..255) /\ Len(bytes) = v
        BY <1>4, <2>1, Bigendian
      <3>2. 0..255 \subseteq Int
        OBVIOUS
      <3> QED BY <3>1, <3>2, SeqMonotonic
    <2>4. \A x \in 1..v : put[1 + u + x] = bytes[x]
      BY <1>7
    <2> HIDE DEF bytes, v, u
    <2>5. at + 1 + u \in Nat /\ (at + 1 + u) + Len(bytes) <= Len(code)
      <3>1. Len(code) \in Nat
        BY <1>2
      <3>2. Last(p) \in Nat /\ z = 1 + Last(p) /\ at + z <= Len(code) /\ at \in Nat
        BY <1>1, <1>2, <1>5, <1>6
      <3> QED BY <2>1, <2>2, <2>3, <3>1, <3>2
    <2>6. ASSUME NEW x \in 1..Len(bytes) PROVE code[(at + 1 + u) + x] = bytes[x]
      <3>1. 1 + u + x \in 1..z /\ (at + 1 + u) + x = at + (1 + u + x) /\ x \in 1..v
        BY <1>1, <1>5, <1>6, <2>1, <2>2, <2>3
      <3>2. code[at + (1 + u + x)] = put[1 + u + x]
        BY <1>2, <3>1
      <3> QED BY <2>4, <3>1, <3>2
    <2>7. Slice(code, at + 1 + u, Len(bytes)) = bytes
      BY <1>2, <2>3, <2>5, <2>6, SliceEquals
    <2> QED BY <2>3, <2>7 DEF bytes, v, u
  <1>10. at + z <= Len(code)
    BY <1>2
  <1> QED BY <1>1, <1>8, <1>9, <1>10 DEF at, op, code, ws, p, z
-----------------------------------------------------------------------------
(* The parts of a file.                                                     *)

(* The parts of a file: what comes behind another part, *)
LEMMA Joined ==
  ASSUME NEW a \in Seq(Int), NEW b \in Seq(Int)
  PROVE  a \o b \in Seq(Int) /\ Len(a \o b) = Len(a) + Len(b)
  BY ConcatProperties

Reaches(a, o, l) == o \in Nat /\ l \in Nat /\ o + l <= Len(a)

(* what came before it, *)
LEMMA Kept ==
  ASSUME NEW a \in Seq(Int), NEW b \in Seq(Int), NEW o, NEW l, Reaches(a, o, l),
         NEW part, Slice(a, o, l) = part
  PROVE  Slice(a \o b, o, l) = part
  BY SlicePrefix DEF Reaches

(* and a part as a slice of itself. *)
LEMMA Whole ==
  ASSUME NEW a \in Seq(Int), NEW b \in Seq(Int), NEW l \in Nat, Len(a) = l
  PROVE  Slice(a \o b, 0, l) = a
  <1>1. \A x \in 1..Len(a) : a[0 + x] = a[x]
    OBVIOUS
  <1>2. 0 \in Nat /\ 0 + Len(a) <= Len(a)
    OBVIOUS
  <1>3. Slice(a, 0, Len(a)) = a
    BY <1>1, <1>2, SliceEquals
  <1>4. Reaches(a, 0, l)
    BY DEF Reaches
  <1> QED BY <1>3, <1>4, Kept

File(magic, version, strlen, strs, funlen, funs, code) ==
  magic \o version \o strlen \o strs \o funlen \o funs \o code

FileIs(f, magic, strlen, strs, funlen, funs, code) ==
  /\ f \in Seq(Int) /\ Len(funs) \in Nat
  /\ Len(f) = 16 + Len(strs) + Len(funs) + Len(code)
  /\ Slice(f, 0, 6) = magic /\ Slice(f, 8, 4) = strlen
  /\ Slice(f, 12, Len(strs)) = strs /\ Slice(f, 12 + Len(strs), 4) = funlen
  /\ Slice(f, 16 + Len(strs), Len(funs)) = funs
  /\ Slice(f, 16 + Len(strs) + Len(funs), Len(code)) = code

(* Each part of a file lies behind the parts before it. *)
LEMMA FileParts ==
  ASSUME NEW magic \in Seq(Int), NEW version \in Seq(Int), NEW strlen \in Seq(Int),
         NEW strs \in Seq(Int), NEW funlen \in Seq(Int), NEW funs \in Seq(Int), NEW code \in Seq(Int),
         Len(magic) = 6, Len(version) = 2, Len(strlen) = 4, Len(funlen) = 4
  PROVE  FileIs(File(magic, version, strlen, strs, funlen, funs, code),
                magic, strlen, strs, funlen, funs, code)
  <1> DEFINE w1 == magic \o version
             w2 == w1 \o strlen
             w3 == w2 \o strs
             w4 == w3 \o funlen
             w5 == w4 \o funs
             w6 == w5 \o code
             c == Len(code)
             s == Len(strs)
             f == Len(funs)
             out == File(magic, version, strlen, strs, funlen, funs, code)
  <1>0. s \in Nat /\ f \in Nat /\ c \in Nat
    OBVIOUS
  <1>1. w1 \in Seq(Int) /\ Len(w1) = 8
    <2>1. w1 \in Seq(Int) /\ Len(w1) = Len(magic) + Len(version)
      BY Joined
    <2> HIDE DEF w1
    <2> QED BY <2>1
  <1>2. w2 \in Seq(Int) /\ Len(w2) = 12
    <2> HIDE DEF w1
    <2>1. w2 \in Seq(Int) /\ Len(w2) = Len(w1) + Len(strlen)
      BY <1>1, Joined
    <2> HIDE DEF w2
    <2> QED BY <1>1, <2>1
  <1>3. w3 \in Seq(Int) /\ Len(w3) = 12 + s
    <2> HIDE DEF w2
    <2>1. w3 \in Seq(Int) /\ Len(w3) = Len(w2) + Len(strs)
      BY <1>2, Joined
    <2> HIDE DEF w3
    <2> QED BY <1>2, <2>1
  <1>4. w4 \in Seq(Int) /\ Len(w4) = 16 + s
    <2> HIDE DEF w3
    <2>1. w4 \in Seq(Int) /\ Len(w4) = Len(w3) + Len(funlen)
      BY <1>3, Joined
    <2> HIDE DEF w4
    <2> QED BY <1>0, <1>3, <2>1
  <1>5. w5 \in Seq(Int) /\ Len(w5) = 16 + s + f
    <2> HIDE DEF w4
    <2>1. w5 \in Seq(Int) /\ Len(w5) = Len(w4) + Len(funs)
      BY <1>4, Joined
    <2> HIDE DEF w5
    <2> QED BY <1>4, <2>1
  <1>6. w6 \in Seq(Int) /\ Len(w6) = 16 + s + f + c
    <2> HIDE DEF w5
    <2>1. w6 \in Seq(Int) /\ Len(w6) = Len(w5) + c
      BY <1>5, Joined
    <2> HIDE DEF w6
    <2> QED BY <1>5, <2>1
  <1>7. out = w6
    BY DEF File
  <1>8. Slice(w1, 0, 6) = magic
    <2>1. 6 \in Nat
      OBVIOUS
    <2> QED BY <2>1, Whole
  <1>9. Slice(w2, 8, 4) = strlen
    <2> HIDE DEF w1
    <2> QED BY <1>1, SliceLast
  <1>10. Slice(w3, 12, s) = strs
    <2> HIDE DEF w2
    <2> QED BY <1>2, SliceLast
  <1>11. Slice(w4, 12 + s, 4) = funlen
    <2> HIDE DEF w3
    <2> QED BY <1>3, SliceLast
  <1>12. Slice(w5, 16 + s, f) = funs
    <2> HIDE DEF w4
    <2> QED BY <1>4, SliceLast
  <1>13. Slice(w6, 16 + s + f, c) = code
    <2> HIDE DEF w5
    <2> QED BY <1>5, SliceLast
  <1>14. Reaches(w1, 0, 6) /\ Reaches(w2, 0, 6) /\ Reaches(w2, 8, 4)
    <2> HIDE DEF w1, w2
    <2> QED BY <1>1, <1>2 DEF Reaches
  <1>15. Reaches(w3, 0, 6) /\ Reaches(w3, 8, 4) /\ Reaches(w3, 12, s)
    <2> HIDE DEF w3
    <2> QED BY <1>0, <1>3 DEF Reaches
  <1>16. Reaches(w4, 0, 6) /\ Reaches(w4, 8, 4) /\ Reaches(w4, 12, s) /\ Reaches(w4, 12 + s, 4)
    <2> HIDE DEF w4
    <2> QED BY <1>0, <1>4 DEF Reaches
  <1>17. Reaches(w5, 0, 6) /\ Reaches(w5, 8, 4) /\ Reaches(w5, 12, s) /\ Reaches(w5, 12 + s, 4)
         /\ Reaches(w5, 16 + s, f)
    <2> HIDE DEF w5
    <2> QED BY <1>0, <1>5 DEF Reaches
  <1>18. Slice(w2, 0, 6) = magic
    <2> HIDE DEF w1
    <2> QED BY <1>1, <1>8, <1>14, Kept
  <1>19. Slice(w3, 0, 6) = magic /\ Slice(w3, 8, 4) = strlen
    <2> HIDE DEF w2
    <2> QED BY <1>2, <1>9, <1>14, <1>18, Kept
  <1>20. Slice(w4, 0, 6) = magic /\ Slice(w4, 8, 4) = strlen /\ Slice(w4, 12, s) = strs
    <2> HIDE DEF w3
    <2> QED BY <1>3, <1>10, <1>15, <1>19, Kept
  <1>21. Slice(w5, 0, 6) = magic /\ Slice(w5, 8, 4) = strlen /\ Slice(w5, 12, s) = strs
         /\ Slice(w5, 12 + s, 4) = funlen
    <2> HIDE DEF w4
    <2> QED BY <1>4, <1>11, <1>16, <1>20, Kept
  <1>22. Slice(w6, 0, 6) = magic /\ Slice(w6, 8, 4) = strlen /\ Slice(w6, 12, s) = strs
         /\ Slice(w6, 12 + s, 4) = funlen /\ Slice(w6, 16 + s, f) = funs
    <2> HIDE DEF w5
    <2> QED BY <1>5, <1>12, <1>17, <1>21, Kept
  <1> HIDE DEF w6, out
  <1>23. FileIs(out, magic, strlen, strs, funlen, funs, code)
    BY <1>0, <1>6, <1>7, <1>13, <1>22 DEF FileIs
  <1> QED BY <1>23 DEF out

-----------------------------------------------------------------------------
(* Functions.                                                               *)

Meta(a, b, d, e) == a \o b \o d \o e

MetaRead(m, a, b, d, e) ==
  /\ m \in Seq(Int) /\ Len(m) = 13
  /\ Slice(m, 0, 4) = a /\ Slice(m, 8, 4) = d
  /\ m[5] = b[1] /\ m[6] = b[2] /\ m[7] = b[3] /\ m[8] = b[4] /\ m[13] = e[1]

(* The fields of what describes a function. *)
LEMMA MetaParts ==
  ASSUME NEW a \in Seq(Int), NEW b \in Seq(Int), NEW d \in Seq(Int), NEW e \in Seq(Int),
         Len(a) = 4, Len(b) = 4, Len(d) = 4, Len(e) = 1
  PROVE  MetaRead(Meta(a, b, d, e), a, b, d, e)
  <1> DEFINE w1 == a \o b
             w2 == w1 \o d
             w3 == w2 \o e
             m == Meta(a, b, d, e)
  <1>1. w1 \in Seq(Int) /\ Len(w1) = 8
    <2>1. w1 \in Seq(Int) /\ Len(w1) = Len(a) + Len(b)
      BY Joined
    <2> HIDE DEF w1
    <2> QED BY <2>1
  <1>2. w2 \in Seq(Int) /\ Len(w2) = 12
    <2> HIDE DEF w1
    <2>1. w2 \in Seq(Int) /\ Len(w2) = Len(w1) + Len(d)
      BY <1>1, Joined
    <2> HIDE DEF w2
    <2> QED BY <1>1, <2>1
  <1>3. w3 \in Seq(Int) /\ Len(w3) = 13
    <2> HIDE DEF w2
    <2>1. w3 \in Seq(Int) /\ Len(w3) = Len(w2) + Len(e)
      BY <1>2, Joined
    <2> HIDE DEF w3
    <2> QED BY <1>2, <2>1
  <1>4. Slice(w1, 0, 4) = a
    <2>1. 4 \in Nat
      OBVIOUS
    <2> QED BY <2>1, Whole
  <1> HIDE DEF w1
  <1>5. Slice(w2, 0, 4) = a /\ Slice(w2, 8, 4) = d
    <2>1. Reaches(w1, 0, 4)
      BY <1>1 DEF Reaches
    <2>2. Slice(w2, 0, 4) = a
      BY <1>1, <1>4, <2>1, Kept
    <2>3. Slice(w2, Len(w1), Len(d)) = d
      BY <1>1, SliceLast
    <2> QED BY <1>1, <2>2, <2>3
  <1>6. Slice(w3, 0, 4) = a /\ Slice(w3, 8, 4) = d
    <2> HIDE DEF w2
    <2>1. Reaches(w2, 0, 4) /\ Reaches(w2, 8, 4)
      BY <1>2 DEF Reaches
    <2> QED BY <1>2, <1>5, <2>1, Kept
  <1>7. \A x \in 1..4 : w1[4 + x] = b[x]
    <2>1. \A x \in 1..Len(a) + Len(b) : w1[x] = IF x <= Len(a) THEN a[x] ELSE b[x - Len(a)]
      BY ConcatProperties DEF w1
    <2> QED BY <2>1
  <1>8. \A x \in 5..8 : w2[x] = w1[x]
    <2> HIDE DEF w1
    <2>1. \A x \in 1..Len(w1) + Len(d) : w2[x] = IF x <= Len(w1) THEN w1[x] ELSE d[x - Len(w1)]
      BY <1>1, ConcatProperties
    <2>2. \A x \in 5..8 : x \in 1..Len(w1) + Len(d) /\ x <= Len(w1)
      BY <1>1
    <2> HIDE DEF w2
    <2> QED BY <2>1, <2>2
  <1>9. (\A x \in 5..8 : w3[x] = w2[x]) /\ w3[13] = e[1]
    <2> HIDE DEF w2
    <2>1. \A x \in 1..Len(w2) + Len(e) : w3[x] = IF x <= Len(w2) THEN w2[x] ELSE e[x - Len(w2)]
      BY <1>2, ConcatProperties
    <2> HIDE DEF w3
    <2>2. \A x \in 5..8 : x \in 1..Len(w2) + Len(e) /\ x <= Len(w2)
      BY <1>2
    <2>3. 13 \in 1..Len(w2) + Len(e) /\ ~(13 <= Len(w2)) /\ 13 - Len(w2) = 1
      BY <1>2
    <2>4. w3[13] = e[13 - Len(w2)]
      BY <2>1, <2>3
    <2> QED BY <2>1, <2>2, <2>3, <2>4
  <1>10. m = w3
    BY DEF w1, Meta
  <1> HIDE DEF w1, w2, w3, m
  <1>11. m[5] = b[1] /\ m[6] = b[2] /\ m[7] = b[3] /\ m[8] = b[4]
    <2>1. w1[5] = b[1] /\ w1[6] = b[2] /\ w1[7] = b[3] /\ w1[8] = b[4]
      BY <1>7
    <2> QED BY <1>8, <1>9, <1>10, <2>1
  <1>12. MetaRead(m, a, b, d, e)
    BY <1>3, <1>6, <1>9, <1>10, <1>11 DEF MetaRead
  <1> QED BY <1>12 DEF m

(* A slice of no length. *)
LEMMA SliceEmpty ==
  ASSUME NEW s
  PROVE  Slice(s, 0, 0) = <<>>
  BY SubSeqEmpty DEF Slice

(* All strings together fit the width of their length. *)
LEMMA StringsLength ==
  ASSUME NEW c \in Objects, Fits(c)
  PROVE  Len(Strings(c)) \in Nat /\ IsUnsigned(Len(Strings(c)), 4)
  <1>1. Last(StringPlaces(c)) = Len(Strings(c)) /\ Strings(c) \in Seq(Int)
    BY StringsFacts
  <1>2. IsUnsigned(Last(StringPlaces(c)), 4)
    BY DEF Fits
  <1>3. Len(Strings(c)) \in Nat
    BY <1>1, LenProperties
  <1> QED BY <1>1, <1>2, <1>3

(* Where the name of a function is said to be. *)
NameAt(c, name) == IF name = "" THEN 0 ELSE string_pool_get_entry(c, name)

(* Each string lies inside, and its place and its length fit 4 bytes. *)
LEMMA StringsFit ==
  ASSUME NEW c \in Objects, Fits(c), NEW s \in Range(c.strings)
  PROVE  /\ string_pool_get_entry(c, s) \in Nat /\ IsUnsigned(string_pool_get_entry(c, s), 4)
         /\ Bytes(s) \in Seq(Int) /\ Len(Bytes(s)) \in Nat /\ IsUnsigned(Len(Bytes(s)), 4)
         /\ Slice(Strings(c), string_pool_get_entry(c, s), Len(Bytes(s))) = Bytes(s)
  <1> DEFINE a == string_pool_get_entry(c, s)
             l == Len(Bytes(s))
             m == Len(Strings(c))
  <1>1. m \in Nat /\ IsUnsigned(m, 4)
    BY StringsLength
  <1>2. /\ Bytes(s) \in Seq(Int) /\ l \in Nat /\ a \in Nat /\ a + l <= m
        /\ Slice(Strings(c), a, l) = Bytes(s)
    BY StringsFacts
  <1> HIDE DEF a, l, m
  <1>3. a <= m /\ l <= m /\ 4 \in Nat
    BY <1>1, <1>2
  <1>4. IsUnsigned(a, 4) /\ IsUnsigned(l, 4)
    BY <1>1, <1>2, <1>3, SmallerFits
  <1> QED BY <1>2, <1>4 DEF a, l

(* 0 fits 4 bytes. *)
LEMMA ZeroFits ==
  ASSUME NEW c \in Objects, Fits(c)
  PROVE  IsUnsigned(0, 4)
  <1> DEFINE m == Len(Strings(c))
  <1>1. m \in Nat /\ IsUnsigned(m, 4)
    BY StringsLength
  <1> HIDE DEF m
  <1>2. 0 \in Nat /\ 0 <= m /\ 4 \in Nat
    BY <1>1
  <1> QED BY <1>1, <1>2, SmallerFits

(* The same of the name of a function, which may be none. *)
LEMMA NamesFit ==
  ASSUME NEW c \in Objects, Fits(c), NEW name, name \in Range(c.strings) \cup {""}
  PROVE  /\ NameAt(c, name) \in Nat /\ IsUnsigned(NameAt(c, name), 4)
         /\ Slice(Strings(c), NameAt(c, name), Len(Bytes(name))) = Bytes(name)
  <1>1. ASSUME name = ""
        PROVE  /\ NameAt(c, name) \in Nat /\ IsUnsigned(NameAt(c, name), 4)
               /\ Slice(Strings(c), NameAt(c, name), Len(Bytes(name))) = Bytes(name)
    <2>1. IsUnsigned(0, 4)
      BY ZeroFits
    <2>2. Bytes(name) = <<>>
      BY <1>1, BytesAssumption
    <2>3. NameAt(c, name) = 0
      BY <1>1, Zenon DEF NameAt
    <2>4. Len(<<>>) = 0
      OBVIOUS
    <2>5. 0 \in Nat
      OBVIOUS
    <2> QED BY <2>1, <2>2, <2>3, <2>4, <2>5, SliceEmpty, Zenon
  <1>2. ASSUME name # ""
        PROVE  /\ NameAt(c, name) \in Nat /\ IsUnsigned(NameAt(c, name), 4)
               /\ Slice(Strings(c), NameAt(c, name), Len(Bytes(name))) = Bytes(name)
    <2>1. name \in Range(c.strings)
      BY <1>2, Zenon
    <2>2. NameAt(c, name) = string_pool_get_entry(c, name)
      BY <1>2, Zenon DEF NameAt
    <2> QED BY <2>1, <2>2, StringsFit, Zenon
  <1> QED BY <1>1, <1>2, Zenon

(* The offset of a block is where its first instruction lies. *)
LEMMA BlockOffset ==
  ASSUME NEW c \in Objects, NEW b \in DOMAIN c.blocks
  PROVE  /\ Offset(c, b) \in Nat /\ IsUnsigned(Offset(c, b), 4)
         /\ Bytewise(c)[Target(c, b)] = Offset(c, b)
  <1> DEFINE i == Position(c, b)
  <1>0. IsObject(c)
    BY ObjectsAssumption
  <1>1. i \in 1..Len(c.order) /\ Len(c.order) \in Nat /\ Len(Laid(c)[i]) \in Nat
    BY <1>0, PositionFacts, OrderFacts
  <1> HIDE DEF i
  <1>2. i \in 1..Len(c.order) + 1 /\ 1 \in 1..Len(Laid(c)[i]) + 1
    BY <1>1
  <1>3. Offsets(c)[i] \in Nat /\ Offsets(c)[i] <= Last(Offsets(c))
    BY <1>0, <1>2, OffsetFacts
  <1>4. IsUnsigned(Offsets(c)[i], 4)
    <2>1. IsUnsigned(Last(Offsets(c)), 4) /\ 4 \in Nat
      BY <1>0 DEF IsObject
    <2> QED BY <1>3, <2>1, SmallerFits
  <1>5. Bytewise(c)[Starts(c)[i] + 1] = Offsets(c)[i] + InBlock(Laid(c)[i])[1]
    BY <1>0, <1>1, <1>2, BytewiseFacts
  <1>6. InBlock(Laid(c)[i])[1] = 0
    BY <1>0, <1>1, OffsetFacts
  <1>7. Starts(c)[i] \in Nat
    <2>1. i \in 1..Len(BlockLens(c)) /\ BlockLens(c) \in Seq(Nat)
          /\ ArePlaces(Starts(c), BlockLens(c))
      BY <1>0, <1>1, StartsFacts
    <2> QED BY <2>1, PlacesStep
  <1>8. Bytewise(c)[1 + Starts(c)[i]] = Offsets(c)[i]
    <2>1. Starts(c)[i] + 1 = 1 + Starts(c)[i] /\ Offsets(c)[i] + 0 = Offsets(c)[i]
      BY <1>3, <1>7
    <2> QED BY <1>5, <1>6, <2>1
  <1> QED BY <1>3, <1>4, <1>8 DEF Offset, Target, i

(* What describes a function is read back field by field. *)
LEMMA MetaFacts ==
  ASSUME NEW c \in Objects, Fits(c), NEW f \in Range(c.funcs)
  PROVE  LET m == bytecode_put_func_meta(c, f)
         IN /\ m \in Seq(Int) /\ Len(m) = FUNC_META_BYTES
            /\ read_u32be(m, 0) = Offset(c, f.start)
            /\ m[5] = f.locals /\ m[6] = f.args /\ m[7] = f.captures
            /\ func_type[m[8] + 1] = f.type
            /\ read_u32be(m, 8) = NameAt(c, f.name)
            /\ m[13] = Len(Bytes(f.name))
  <1> DEFINE at == NameAt(c, f.name)
             type == CHOOSE t \in 1..5 : func_type[t] = f.type
             a == write_be(Offset(c, f.start), 4)
             b == <<f.locals, f.args, f.captures, type - 1>>
             d == write_be(at, 4)
             e == <<Len(Bytes(f.name))>>
             m == bytecode_put_func_meta(c, f)
  <1>1. FuncFits(c, f)
    BY ObjectsAssumption DEF IsObject
  <1>2. {f.locals, f.args, f.captures, Len(Bytes(f.name))} \subseteq 0..255
    BY DEF Fits
  <1>3. type \in 1..5 /\ func_type[type] = f.type
    <2>1. DOMAIN func_type = 1..5
      BY DEF func_type
    <2>2. \E t \in 1..5 : func_type[t] = f.type
      BY <1>1, <2>1 DEF FuncFits, Range
    <2> QED BY <2>2
  <1>4. Offset(c, f.start) \in Nat /\ IsUnsigned(Offset(c, f.start), 4)
    BY <1>1, BlockOffset DEF FuncFits
  <1>5. at \in Nat /\ IsUnsigned(at, 4)
    <2>1. f.name \in Range(c.strings) \cup {""}
      BY <1>1 DEF FuncFits
    <2> QED BY <2>1, NamesFit, Zenon
  <1>6. m = Meta(a, b, d, e)
    BY Zenon DEF bytecode_put_func_meta, NameAt, Meta
  <1> HIDE DEF at, type, m
  <1>7. \A n \in Int : write_be(n, 4) \in Seq(Int) /\ Len(write_be(n, 4)) = 4
    <2> TAKE n \in Int
    <2>1. write_be(n, 4) \in Seq(0..255) /\ Len(write_be(n, 4)) = 4
      <3>1. 4 \in Nat
        OBVIOUS
      <3> QED BY <3>1, Bigendian
    <2>2. 0..255 \subseteq Int
      OBVIOUS
    <2> QED BY <2>1, <2>2, SeqMonotonic
  <1>8. a \in Seq(Int) /\ Len(a) = 4 /\ d \in Seq(Int) /\ Len(d) = 4
    BY <1>4, <1>5, <1>7
  <1>9. b \in Seq(Int) /\ Len(b) = 4 /\ b[1] = f.locals /\ b[2] = f.args /\ b[3] = f.captures
        /\ b[4] = type - 1
    <2>1. f.locals \in Int /\ f.args \in Int /\ f.captures \in Int /\ type - 1 \in Int
      <3>1. 0..255 \subseteq Int
        OBVIOUS
      <3>2. f.locals \in Int /\ f.args \in Int /\ f.captures \in Int
        BY <1>2, <3>1, Zenon
      <3>3. type - 1 \in Int
        BY <1>3
      <3> QED BY <3>2, <3>3
    <2> QED BY <2>1
  <1>10. e \in Seq(Int) /\ Len(e) = 1 /\ e[1] = Len(Bytes(f.name))
    <2>1. Len(Bytes(f.name)) \in Int
      BY <1>2
    <2> QED BY <2>1
  <1>11. read_ube(a) = Offset(c, f.start) /\ read_ube(d) = at
    <2>1. 4 \in Nat
      OBVIOUS
    <2> QED BY <1>4, <1>5, <2>1, UnsignedBack
  <1> HIDE DEF a, b, d, e
  <1>12. /\ m \in Seq(Int) /\ Len(m) = 13
         /\ Slice(m, 0, 4) = a /\ Slice(m, 8, 4) = d
         /\ m[5] = b[1] /\ m[6] = b[2] /\ m[7] = b[3] /\ m[8] = b[4] /\ m[13] = e[1]
    <2>1. a \in Seq(Int) /\ b \in Seq(Int) /\ d \in Seq(Int) /\ e \in Seq(Int)
      BY <1>8, <1>9, <1>10
    <2>2. Len(a) = 4 /\ Len(b) = 4 /\ Len(d) = 4 /\ Len(e) = 1
      BY <1>8, <1>9, <1>10
    <2>3. MetaRead(Meta(a, b, d, e), a, b, d, e)
      BY <2>1, <2>2, MetaParts, Zenon
    <2> QED BY <1>6, <2>3, Zenon DEF MetaRead
  <1>13. read_u32be(m, 0) = Offset(c, f.start) /\ read_u32be(m, 8) = at
    BY <1>11, <1>12 DEF read_u32be
  <1>14. func_type[m[8] + 1] = f.type
    <2>1. m[8] + 1 = type
      BY <1>3, <1>9, <1>12
    <2> QED BY <1>3, <2>1
  <1> QED BY <1>9, <1>10, <1>12, <1>13, <1>14 DEF FUNC_META_BYTES, m, at

(* What describes the functions lies at every 13 bytes. *)
LEMMA FuncsBytes ==
  ASSUME NEW c \in Objects, Fits(c)
  PROVE  /\ Len(c.funcs) \in Nat /\ DOMAIN c.funcs = 1..Len(c.funcs)
         /\ Funcs(c) \in Seq(Int) /\ Len(Funcs(c)) = FUNC_META_BYTES * Len(c.funcs)
         /\ \A f \in 1..Len(c.funcs) :
              Slice(Funcs(c), FUNC_META_BYTES * (f - 1), FUNC_META_BYTES)
                = bytecode_put_func_meta(c, c.funcs[f])
  <1> DEFINE N == Len(c.funcs)
             seqs == [f \in DOMAIN c.funcs |-> bytecode_put_func_meta(c, c.funcs[f])]
             sizes == [f \in 1..N |-> 13]
             p == [i \in 1..N + 1 |-> 13 * (i - 1)]
             flat == Funcs(c)
  <1>1. N \in Nat /\ DOMAIN c.funcs = 1..N
    <2>1. c.funcs \in Seq(Range(c.funcs))
      BY ObjectsAssumption DEF IsObject
    <2> QED BY <2>1
  <1>2. \A f \in 1..N : /\ bytecode_put_func_meta(c, c.funcs[f]) \in Seq(Int)
                        /\ Len(bytecode_put_func_meta(c, c.funcs[f])) = 13
    <2> TAKE f \in 1..N
    <2>1. c.funcs[f] \in Range(c.funcs)
      BY <1>1 DEF Range
    <2> QED BY <2>1, MetaFacts DEF FUNC_META_BYTES
  <1>3. seqs = [f \in 1..N |-> bytecode_put_func_meta(c, c.funcs[f])]
    BY <1>1
  <1>4. flat = FlattenSeq(seqs)
    BY DEF Funcs
  <1> HIDE DEF N, seqs, flat
  <1>5. seqs \in [1..N -> Seq(Int)] /\ \A f \in 1..N : seqs[f] = bytecode_put_func_meta(c, c.funcs[f])
    BY <1>2, <1>3
  <1>6. seqs \in Seq(Seq(Int)) /\ Len(seqs) = N
    BY <1>1, <1>5, FunctionIsSeq
  <1>7. sizes \in Seq(Nat) /\ Len(sizes) = N /\ \A f \in 1..N : sizes[f] = 13
    <2>1. sizes \in [1..N -> Nat] /\ \A f \in 1..N : sizes[f] = 13
      OBVIOUS
    <2> HIDE DEF sizes
    <2> QED BY <1>1, <2>1, FunctionIsSeq
  <1>8. p \in [1..N + 1 -> Nat] /\ \A i \in 1..N + 1 : p[i] = 13 * (i - 1)
    BY <1>1
  <1> HIDE DEF sizes, p
  <1>9. Lengths(seqs, sizes)
    BY <1>2, <1>5, <1>6, <1>7 DEF Lengths
  <1>10. ArePlaces(p, sizes)
    <2>1. p[1] = 0
      <3>1. 1 \in 1..N + 1
        BY <1>1
      <3> QED BY <1>8, <3>1
    <2>2. ASSUME NEW n \in 1..N PROVE p[n + 1] = p[n] + sizes[n]
      <3>1. n \in 1..N + 1 /\ n + 1 \in 1..N + 1 /\ n \in Nat
        BY <1>1
      <3>2. p[n + 1] = 13 * ((n + 1) - 1) /\ p[n] = 13 * (n - 1)
        BY <1>8, <3>1
      <3>3. sizes[n] = 13
        BY <1>7
      <3>4. 13 * ((n + 1) - 1) = 13 * (n - 1) + 13
        BY <3>1
      <3> QED BY <3>2, <3>3, <3>4
    <2> QED BY <1>7, <1>8, <2>1, <2>2 DEF ArePlaces
  <1>11. flat \in Seq(Int) /\ Len(flat) = p[Len(seqs) + 1] /\ IsFlat(flat, seqs, p)
    BY <1>4, <1>6, <1>9, <1>10, Flatten
  <1>12. Len(flat) = 13 * N
    <2>1. N + 1 \in 1..N + 1 /\ (N + 1) - 1 = N
      BY <1>1
    <2>2. p[N + 1] = 13 * ((N + 1) - 1)
      BY <1>8, <2>1
    <2> QED BY <1>6, <1>11, <2>1, <2>2
  <1>13. ASSUME NEW f \in 1..N
         PROVE  Slice(flat, 13 * (f - 1), 13) = bytecode_put_func_meta(c, c.funcs[f])
    <2>1. f \in 1..Len(seqs) /\ f \in 1..N + 1
      BY <1>1, <1>6
    <2>2. Slice(flat, p[f], Len(seqs[f])) = seqs[f]
      BY <1>6, <1>9, <1>10, <1>11, <2>1, SliceFlat
    <2>3. p[f] = 13 * (f - 1) /\ Len(seqs[f]) = 13 /\ seqs[f] = bytecode_put_func_meta(c, c.funcs[f])
      BY <1>2, <1>5, <1>8, <2>1
    <2> QED BY <2>2, <2>3
  <1> QED BY <1>1, <1>11, <1>12, <1>13 DEF FUNC_META_BYTES, N, flat

-----------------------------------------------------------------------------
(* What program_read finds.                                                 *)

(* The first instruction is a call. *)
LEMMA CodeIsLong ==
  ASSUME NEW c \in Objects
  PROVE  Code(c) \in Seq(Int) /\ Len(Code(c)) \in Nat /\ Len(Code(c)) >= 4
  <1>0. IsObject(c)
    BY ObjectsAssumption
  <1>1. Code(c) \in Seq(Int)
    BY CodeBytes
  <1>2. Len(Code(c)) \in Nat
    BY <1>1, LenProperties
  <1>3. 1 \in 1..Len(c.order)
    BY <1>0, OrderFacts
  <1>4. 1 \in 1..Len(Laid(c)[1]) /\ Laid(c)[1][1].op = "CALL"
    <2>1. Laid(c)[1] \in Seq(Instrs(c)) /\ Laid(c)[1] # <<>> /\ Laid(c)[1][1].op = "CALL"
      BY <1>0, <1>3, OrderFacts DEF IsObject
    <2>2. Len(Laid(c)[1]) \in Nat /\ Len(Laid(c)[1]) # 0
      BY <2>1, EmptySeq, LenProperties
    <2> QED BY <2>1, <2>2
  <1>5. Size(Laid(c)[1][1]) = 5
    <2>1. Last(Places(Widths(Laid(c)[1][1].op))) = 4
      BY <1>4, SizeFacts
    <2> QED BY <2>1 DEF Size
  <1> DEFINE at == Offsets(c)[1] + InBlock(Laid(c)[1])[1]
             z == Size(Laid(c)[1][1])
  <1>6. at \in Nat /\ at + z <= Len(Code(c))
    BY <1>3, <1>4, CodeSlice
  <1> HIDE DEF at
  <1> QED BY <1>1, <1>2, <1>5, <1>6

IsRead(p, c) ==
  /\ p.string_bytes = Strings(c)
  /\ p.funcs_len = Len(c.funcs)
  /\ p.funcs = Funcs(c)
  /\ p.bytecode = Code(c)

(* program_read accepts what was written, and finds its parts. *)
LEMMA FileRead ==
  ASSUME NEW c \in Objects, Fits(c)
  PROVE  Readable(Written(c)) /\ IsRead(program_read(Written(c)), c)
  <1> DEFINE magic == MAGIC_HAMMER
             version == write_be(BYTECODE_VERSION, 2)
             strlen == write_be(Len(Strings(c)), 4)
             strs == Strings(c)
             funlen == write_be(Len(c.funcs), 4)
             funs == Funcs(c)
             code == Code(c)
             file_ == Written(c)
             s == Len(strs)
             f == Len(funs)
             N == Len(c.funcs)
  <1>1. s \in Nat /\ IsUnsigned(s, 4) /\ strs \in Seq(Int)
    BY StringsLength, StringsFacts
  <1>2. N \in Nat /\ IsUnsigned(N, 4) /\ funs \in Seq(Int) /\ f = 13 * N
    BY FuncsBytes DEF Fits, FUNC_META_BYTES
  <1>3. code \in Seq(Int) /\ Len(code) \in Nat /\ Len(code) >= 4
    BY CodeIsLong
  <1>4. magic \in Seq(Int) /\ Len(magic) = 6
    BY DEF MAGIC_HAMMER
  <1>5. ASSUME NEW n \in Int, NEW w \in Nat
        PROVE  write_be(n, w) \in Seq(Int) /\ Len(write_be(n, w)) = w
    <2>1. write_be(n, w) \in Seq(0..255) /\ Len(write_be(n, w)) = w
      BY Bigendian
    <2>2. 0..255 \subseteq Int
      OBVIOUS
    <2> QED BY <2>1, <2>2, SeqMonotonic
  <1>6. version \in Seq(Int) /\ Len(version) = 2
    <2>1. BYTECODE_VERSION \in Int /\ 2 \in Nat
      BY DEF BYTECODE_VERSION
    <2> QED BY <1>5, <2>1
  <1>7. strlen \in Seq(Int) /\ Len(strlen) = 4 /\ funlen \in Seq(Int) /\ Len(funlen) = 4
    <2>1. s \in Int /\ N \in Int /\ 4 \in Nat
      BY <1>1, <1>2
    <2> QED BY <1>5, <2>1
  <1>8. read_ube(strlen) = s /\ read_ube(funlen) = N
    <2>1. 4 \in Nat
      OBVIOUS
    <2> QED BY <1>1, <1>2, <2>1, UnsignedBack
  <1>9. file_ = File(magic, version, strlen, strs, funlen, funs, code)
    BY DEF Written, File
  <1> HIDE DEF magic, version, strlen, strs, funlen, funs, code, file_, s, f, N
  <1>10. /\ file_ \in Seq(Int) /\ f \in Nat
         /\ Len(file_) = 16 + s + f + Len(code)
         /\ Slice(file_, 0, 6) = magic /\ Slice(file_, 8, 4) = strlen
         /\ Slice(file_, 12, s) = strs /\ Slice(file_, 12 + s, 4) = funlen
         /\ Slice(file_, 16 + s, f) = funs
         /\ Slice(file_, 16 + s + f, Len(code)) = code
    <2>1. FileIs(File(magic, version, strlen, strs, funlen, funs, code),
                 magic, strlen, strs, funlen, funs, code)
      BY <1>1, <1>2, <1>3, <1>4, <1>6, <1>7, FileParts
    <2> QED BY <1>9, <2>1, Zenon DEF FileIs, s, f
  <1>11. read_u32be(file_, 8) = s
    BY <1>8, <1>10 DEF read_u32be
  <1>12. FuncsAt(file_) = 12 + s
    BY <1>11 DEF FuncsAt, STRINGS_AT
  <1>13. read_u32be(file_, FuncsAt(file_)) = N
    BY <1>8, <1>10, <1>12 DEF read_u32be
  <1>14. CodeAt(file_) = 16 + s + f
    <2>1. CodeAt(file_) = (12 + s) + 4 + 13 * N
      BY <1>12, <1>13 DEF CodeAt, FUNC_META_BYTES
    <2> QED BY <1>1, <1>2, <1>10, <2>1
  <1>15. Readable(file_)
    <2>1. Len(file_) >= 12 /\ Len(file_) - (12 + s) >= 4 /\ Len(file_) - (16 + s + f) >= 4
      <3>1. Len(file_) = 16 + s + f + Len(code) /\ s \in Nat /\ f \in Nat
            /\ Len(code) \in Nat /\ Len(code) >= 4
        BY <1>1, <1>3, <1>10
      <3> QED BY <3>1
    <2> QED BY <1>10, <1>12, <1>14, <2>1 DEF Readable, magic
  <1>16. program_read(file_).string_bytes = strs
    <2>1. (12 + s) - 12 = s
      BY <1>1
    <2>2. program_read(file_).string_bytes = Slice(file_, 12, (12 + s) - 12)
      BY <1>12 DEF program_read, STRINGS_AT
    <2> QED BY <1>10, <2>1, <2>2
  <1>17. program_read(file_).funcs_len = N
    BY <1>13 DEF program_read
  <1>18. program_read(file_).funcs = funs
    <2>1. (12 + s) + 4 = 16 + s /\ (16 + s + f) - (12 + s) - 4 = f
      BY <1>1, <1>10
    <2>2. program_read(file_).funcs = Slice(file_, (12 + s) + 4, (16 + s + f) - (12 + s) - 4)
      BY <1>12, <1>14 DEF program_read
    <2> QED BY <1>10, <2>1, <2>2
  <1>19. program_read(file_).bytecode = code
    <2>1. Len(file_) - (16 + s + f) = Len(code)
      BY <1>1, <1>3, <1>10
    <2>2. program_read(file_).bytecode = Slice(file_, 16 + s + f, Len(file_) - (16 + s + f))
      BY <1>14 DEF program_read
    <2> QED BY <1>10, <2>1, <2>2
  <1> QED BY <1>15, <1>16, <1>17, <1>18, <1>19 DEF IsRead, strs, N, funs, code, file_
-----------------------------------------------------------------------------
(* Instructions read back.                                                  *)

(* The operand that an instruction with this op has behind its opcode, and
   the instruction read. *)
OperandRead(p, at, op) ==
  IF Widths(op) = <<>> THEN 0
  ELSE IF op \in Signed THEN read_ibe(Slice(p.bytecode, at + 1, Widths(op)[1]))
  ELSE read_ube(Slice(p.bytecode, at + 1, Widths(op)[1]))

ReadAs(p, at, op, n) ==
  CASE op \in Jumps -> [op |-> op, n |-> at + n, s |-> <<>>]
    [] op = "PUSHSTR" ->
         [op |-> op, n |-> 0, s |-> Slice(p.string_bytes, n, read_u32be(p.bytecode, at + 5))]
    [] op \in Counted -> [op |-> op, n |-> n + 1, s |-> <<>>]
    [] OTHER -> [op |-> op, n |-> n, s |-> <<>>]

(* An instruction as it lies in what is read: the k-th one of the block that
   comes i-th in the order, with this op, at this byte. *)
Lies(c, p, i, k, op, at) ==
  /\ c \in Objects /\ Fits(c) /\ IsRead(p, c)
  /\ i \in 1..Len(c.order) /\ k \in 1..Len(Laid(c)[i])
  /\ op = Laid(c)[i][k].op
  /\ at = Offsets(c)[i] + InBlock(Laid(c)[i])[k]

(* An opcode in the code is read as what it stands for. *)
LEMMA OpcodeRead ==
  ASSUME NEW p, NEW at, NEW op \in DOMAIN OPCODE, p.bytecode[at + 1] = OPCODE[op]
  PROVE  read_instr(p, at) = ReadAs(p, at, op, OperandRead(p, at, op))
  <1> DEFINE found == CHOOSE o \in DOMAIN OPCODE : OPCODE[o] = p.bytecode[at + 1]
  <1>1. found = op
    <2>1. \A o \in DOMAIN OPCODE : OPCODE[o] = OPCODE[op] => o = op
      BY OpcodesDiffer
    <2> HIDE DEF OPCODE
    <2> QED BY <2>1
  <1>2. read_instr(p, at) = ReadAs(p, at, found, OperandRead(p, at, found))
    BY Zenon DEF read_instr, ReadAs, OperandRead
  <1> HIDE DEF found
  <1> QED BY <1>1, <1>2

(* The first operand lies right behind the opcode, *)
LEMMA FirstOperand ==
  ASSUME NEW c \in Objects, NEW i \in 1..Len(c.order), NEW k \in 1..Len(Laid(c)[i]),
         NEW op, op = Laid(c)[i][k].op, Widths(op) # <<>>,
         NEW at, at = Offsets(c)[i] + InBlock(Laid(c)[i])[k]
  PROVE  Slice(Code(c), at + 1, Widths(op)[1]) = write_be(Operands(c, i, k)[1], Widths(op)[1])
  <1>1. Widths(op) \in Seq(Nat) /\ ArePlaces(Places(Widths(op)), Widths(op))
    BY SizeFacts
  <1>2. 1 \in DOMAIN Widths(op)
    <2>1. Len(Widths(op)) \in Nat /\ Len(Widths(op)) # 0
      BY <1>1, EmptySeq, LenProperties
    <2> QED BY <1>1, <2>1
  <1>3. Places(Widths(op))[1] = 0
    BY <1>1 DEF ArePlaces
  <1>4. at \in Nat
    BY CodeSlice
  <1>5. at + 1 + 0 = at + 1
    BY <1>4
  <1>6. Slice(Code(c), at + 1 + Places(Widths(op))[1], Widths(op)[1])
          = write_be(Operands(c, i, k)[1], Widths(op)[1])
    BY <1>2, CodeSlice
  <1> QED BY <1>3, <1>5, <1>6

(* and the second one of PUSHSTR behind that. *)
LEMMA SecondOperand ==
  ASSUME NEW c \in Objects, NEW i \in 1..Len(c.order), NEW k \in 1..Len(Laid(c)[i]),
         Laid(c)[i][k].op = "PUSHSTR",
         NEW at, at = Offsets(c)[i] + InBlock(Laid(c)[i])[k]
  PROVE  Slice(Code(c), at + 5, 4) = write_be(Operands(c, i, k)[2], 4)
  <1> DEFINE op == Laid(c)[i][k].op
             p == Places(Widths(op))
  <1>1. Widths(op) = <<4, 4>>
    BY WidthsFacts
  <1>2. ArePlaces(p, <<4, 4>>)
    BY <1>1, SizeFacts
  <1>3. p[2] = 4
    <2> HIDE DEF p
    <2>1. p[1] = 0 /\ p[1 + 1] = p[1] + <<4, 4>>[1]
      BY <1>2 DEF ArePlaces
    <2> QED BY <2>1
  <1>4. at \in Nat
    BY CodeSlice
  <1>5. at + 1 + 4 = at + 5
    BY <1>4
  <1>6. 2 \in DOMAIN Widths(op) /\ Widths(op)[2] = 4
    BY <1>1
  <1>7. Slice(Code(c), at + 1 + p[2], Widths(op)[2]) = write_be(Operands(c, i, k)[2], Widths(op)[2])
    BY <1>6, CodeSlice
  <1> HIDE DEF p, op
  <1> QED BY <1>3, <1>5, <1>6, <1>7

(* A jump is read with the byte where the block it names begins. *)
LEMMA JumpRead ==
  ASSUME NEW c, NEW p, NEW i, NEW k, NEW op, NEW at, Lies(c, p, i, k, op, at), op \in Jumps
  PROVE  at + OperandRead(p, at, op) = Offset(c, Laid(c)[i][k].n)
  <1> /\ c \in Objects /\ Fits(c) /\ IsRead(p, c)
      /\ i \in 1..Len(c.order) /\ k \in 1..Len(Laid(c)[i])
      /\ op = Laid(c)[i][k].op
      /\ at = Offsets(c)[i] + InBlock(Laid(c)[i])[k]
    BY DEF Lies
  <1> DEFINE rel == jump_rel_addr(c, i, k)
             a == Offset(c, Laid(c)[i][k].n)
             x == Offsets(c)[i]
             y == InBlock(Laid(c)[i])[k]
  <1>0. IsObject(c)
    BY ObjectsAssumption
  <1>1. Widths(op) = <<2>> /\ Widths(op) # <<>> /\ Widths(op)[1] = 2
    <2>1. Widths(op) = <<2>>
      BY WidthsFacts
    <2> QED BY <2>1
  <1>2. Operands(c, i, k)[1] = rel
    <2>1. Operands(c, i, k) = <<rel>>
      BY DEF Operands, Jumps, Counted
    <2> HIDE DEF rel
    <2> QED BY <2>1
  <1>3. Slice(p.bytecode, at + 1, 2) = write_be(rel, 2)
    <2>1. p.bytecode = Code(c)
      BY DEF IsRead
    <2>2. Slice(Code(c), at + 1, Widths(op)[1]) = write_be(Operands(c, i, k)[1], Widths(op)[1])
      BY <1>1, FirstOperand
    <2> HIDE DEF rel
    <2> QED BY <1>1, <1>2, <2>1, <2>2, Zenon
  <1>4. IsSigned(rel, 2)
    <2>1. i \in DOMAIN c.order /\ k \in DOMAIN Laid(c)[i]
      BY <1>0, OrderFacts
    <2> QED BY <2>1 DEF Fits
  <1>5. read_ibe(write_be(rel, 2)) = rel
    <2>1. 2 \in Nat \ {0}
      OBVIOUS
    <2> HIDE DEF rel
    <2> QED BY <1>4, <2>1, SignedBack
  <1>6. OperandRead(p, at, op) = rel
    <2>1. op \in Signed
      BY DEF Signed
    <2> HIDE DEF rel
    <2> QED BY <1>1, <1>3, <1>5, <2>1 DEF OperandRead
  <1>7. rel = a - x - y
    BY DEF jump_rel_addr
  <1>8. a \in Nat
    <2>1. Laid(c)[i][k].n \in DOMAIN c.blocks
      BY <1>0, InstrFacts DEF InstrFits
    <2> QED BY <2>1, BlockOffset
  <1>9. x \in Nat /\ y \in Nat
    <2>1. Len(c.order) \in Nat /\ Len(Laid(c)[i]) \in Nat
      BY <1>0, OrderFacts
    <2>2. i \in 1..Len(c.order) + 1 /\ k \in 1..Len(Laid(c)[i]) + 1
      BY <2>1
    <2> QED BY <1>0, <2>2, OffsetFacts
  <1>10. at = x + y
    OBVIOUS
  <1> HIDE DEF rel, a, x, y
  <1>11. at + rel = a
    BY <1>7, <1>8, <1>9, <1>10
  <1> QED BY <1>6, <1>11 DEF a

(* PUSHSTR is read with the string it was compiled with. *)
LEMMA StringRead ==
  ASSUME NEW c, NEW p, NEW i, NEW k, NEW op, NEW at, Lies(c, p, i, k, op, at), op = "PUSHSTR"
  PROVE  Slice(p.string_bytes, OperandRead(p, at, op), read_u32be(p.bytecode, at + 5))
           = Bytes(Laid(c)[i][k].s)
  <1> /\ c \in Objects /\ Fits(c) /\ IsRead(p, c)
      /\ i \in 1..Len(c.order) /\ k \in 1..Len(Laid(c)[i])
      /\ op = Laid(c)[i][k].op
      /\ at = Offsets(c)[i] + InBlock(Laid(c)[i])[k]
    BY DEF Lies
  <1> DEFINE s == Laid(c)[i][k].s
             a == string_pool_get_entry(c, s)
             l == Len(Bytes(s))
  <1>0. IsObject(c)
    BY ObjectsAssumption
  <1>1. s \in Range(c.strings)
    BY <1>0, InstrFacts DEF InstrFits
  <1>2. IsUnsigned(a, 4) /\ IsUnsigned(l, 4) /\ Slice(Strings(c), a, l) = Bytes(s)
    BY <1>1, StringsFit
  <1>3. Widths(op) = <<4, 4>> /\ Widths(op) # <<>> /\ Widths(op)[1] = 4
    <2>1. Widths(op) = <<4, 4>>
      BY WidthsFacts
    <2> QED BY <2>1
  <1>4. Operands(c, i, k)[1] = a /\ Operands(c, i, k)[2] = l
    <2>1. Operands(c, i, k) = <<a, l>>
      BY DEF Operands, Jumps, Counted
    <2> HIDE DEF a, l
    <2> QED BY <2>1
  <1> HIDE DEF a, l, s
  <1>5. Slice(p.bytecode, at + 1, 4) = write_be(a, 4)
    <2>1. Slice(Code(c), at + 1, Widths(op)[1]) = write_be(Operands(c, i, k)[1], Widths(op)[1])
      BY <1>3, FirstOperand, Zenon
    <2>2. p.bytecode = Code(c)
      BY DEF IsRead
    <2> QED BY <1>3, <1>4, <2>1, <2>2, Zenon
  <1>6. Slice(p.bytecode, at + 5, 4) = write_be(l, 4)
    BY <1>4, SecondOperand DEF IsRead
  <1>7. read_ube(write_be(a, 4)) = a /\ read_ube(write_be(l, 4)) = l
    <2>1. 4 \in Nat
      OBVIOUS
    <2> QED BY <1>2, <2>1, UnsignedBack
  <1>8. OperandRead(p, at, op) = a
    <2>1. op \notin Signed
      BY DEF Signed, Jumps
    <2> QED BY <1>3, <1>5, <1>7, <2>1 DEF OperandRead
  <1>9. read_u32be(p.bytecode, at + 5) = l
    BY <1>6, <1>7 DEF read_u32be
  <1>10. p.string_bytes = Strings(c)
    BY DEF IsRead
  <1> QED BY <1>2, <1>8, <1>9, <1>10 DEF s

(* Every other operand is read as the number it was. *)
LEMMA NumberRead ==
  ASSUME NEW c, NEW p, NEW i, NEW k, NEW op, NEW at, Lies(c, p, i, k, op, at), op \notin Jumps, op # "PUSHSTR"
  PROVE  OperandRead(p, at, op) = IF op \in Counted THEN Laid(c)[i][k].n - 1 ELSE Laid(c)[i][k].n
  <1> /\ c \in Objects /\ Fits(c) /\ IsRead(p, c)
      /\ i \in 1..Len(c.order) /\ k \in 1..Len(Laid(c)[i])
      /\ op = Laid(c)[i][k].op
      /\ at = Offsets(c)[i] + InBlock(Laid(c)[i])[k]
    BY DEF Lies
  <1> DEFINE instr == Laid(c)[i][k]
             n == IF op \in Counted THEN instr.n - 1 ELSE instr.n
             w == Widths(op)[1]
  <1>0. IsObject(c)
    BY ObjectsAssumption
  <1>1. InstrFits(c, instr) /\ instr.n \in Int
    BY <1>0, InstrFacts
  <1>2. CASE Widths(op) = <<>>
    <2>1. instr.n = 0
      BY <1>1, <1>2 DEF InstrFits
    <2>2. op \notin Counted
      <3>1. <<1>> # <<>> /\ <<2>> # <<>> /\ <<4>> # <<>>
        OBVIOUS
      <3> QED BY <1>2, <3>1, WidthsFacts DEF Counted
    <2>3. OperandRead(p, at, op) = 0
      BY <1>2 DEF OperandRead
    <2> QED BY <2>1, <2>2, <2>3
  <1>3. CASE Widths(op) # <<>>
    <2>1. Operands(c, i, k)[1] = n
      <3>1. Operands(c, i, k) = <<n>>
        BY DEF Operands
      <3> HIDE DEF n
      <3> QED BY <3>1
    <2>2. Slice(p.bytecode, at + 1, w) = write_be(n, w)
      <3> HIDE DEF n
      <3>1. Slice(Code(c), at + 1, Widths(op)[1]) = write_be(Operands(c, i, k)[1], Widths(op)[1])
        BY <1>3, FirstOperand, Zenon
      <3>2. p.bytecode = Code(c)
        BY DEF IsRead
      <3> QED BY <2>1, <3>1, <3>2, Zenon
    <2>3. w \in Nat \ {0}
      <3>1. <<1>>[1] \in Nat \ {0} /\ <<2>>[1] \in Nat \ {0} /\ <<4>>[1] \in Nat \ {0}
            /\ <<8>>[1] \in Nat \ {0} /\ <<4, 4>>[1] \in Nat \ {0}
        OBVIOUS
      <3> QED BY <1>3, <3>1, WidthsFacts
    <2>4. CASE op = "PUSHINT"
      <3>1. op \notin Counted /\ op \in Signed
        BY <2>4 DEF Counted, Signed
      <3>2. w = 8
        <4>1. Widths(op) = <<8>>
          BY <2>4, WidthsFacts
        <4> QED BY <4>1
      <3>3. IsSigned(n, w)
        BY <1>1, <2>4, <3>1, <3>2 DEF InstrFits
      <3>4. read_ibe(write_be(n, w)) = n
        <4> HIDE DEF n, w
        <4> QED BY <2>3, <3>3, SignedBack
      <3> QED BY <1>3, <2>2, <3>1, <3>4 DEF OperandRead
    <2>5. CASE op # "PUSHINT"
      <3>1. op \notin Signed
        BY <2>5 DEF Signed
      <3>2. IsUnsigned(n, w)
        <4>1. CASE op \in {"CALL", "MAKECLS"}
          <5>1. instr.n \in 1..Len(c.funcs) /\ Len(c.funcs) \in Nat
            BY <1>1, <4>1, FuncsBytes DEF InstrFits
          <5>2. w = 4
            <6>1. Widths(op) = <<4>>
              BY <4>1, WidthsFacts
            <6> QED BY <6>1
          <5>3. n = instr.n - 1
            BY <4>1 DEF Counted
          <5>4. IsUnsigned(Len(c.funcs), 4)
            BY DEF Fits
          <5> HIDE DEF n, w
          <5>5. n \in Nat /\ n <= Len(c.funcs) /\ 4 \in Nat
            BY <5>1, <5>3
          <5> QED BY <5>2, <5>4, <5>5, SmallerFits
        <4>2. CASE op \in {"LOAD", "STORE", "TUPLEGET"}
          <5>1. op \in Counted
            BY <4>2 DEF Counted
          <5> QED BY <1>1, <4>2, <5>1 DEF InstrFits
        <4>3. CASE op \in {"CALLVAL", "CHKTUPLE", "MAKETUPLE", "MAKELIST"}
          <5>1. op \notin Counted
            BY <4>3 DEF Counted
          <5> QED BY <1>1, <4>3, <5>1 DEF InstrFits
        <4>4. op \in {"CALL", "MAKECLS", "LOAD", "STORE", "TUPLEGET", "CALLVAL", "CHKTUPLE",
                     "MAKETUPLE", "MAKELIST"}
          <5>1. op \in Counted \/ op \in {"CALLVAL", "CHKTUPLE", "MAKETUPLE", "MAKELIST"}
            BY <1>3, <2>5, WidthsFacts
          <5> QED BY <5>1 DEF Counted
        <4> QED BY <4>1, <4>2, <4>3, <4>4
      <3>3. read_ube(write_be(n, w)) = n
        <4> HIDE DEF n, w
        <4> QED BY <2>3, <3>2, UnsignedBack
      <3> QED BY <1>3, <2>2, <3>1, <3>3 DEF OperandRead
    <2> QED BY <2>4, <2>5
  <1> QED BY <1>2, <1>3

(* So every instruction is read back, jumps with the byte they lead to. *)
LEMMA InstrsReadBack ==
  ASSUME NEW c, NEW p, NEW i, NEW k, NEW op, NEW at, Lies(c, p, i, k, op, at)
  PROVE  read_instr(p, at) =
           [op |-> op,
            n |-> IF op \in Jumps THEN Offset(c, Laid(c)[i][k].n) ELSE Laid(c)[i][k].n,
            s |-> Bytes(Laid(c)[i][k].s)]
  <1>l. /\ c \in Objects /\ Fits(c) /\ IsRead(p, c)
        /\ i \in 1..Len(c.order) /\ k \in 1..Len(Laid(c)[i])
        /\ op = Laid(c)[i][k].op
        /\ at = Offsets(c)[i] + InBlock(Laid(c)[i])[k]
    BY DEF Lies
  <1> DEFINE instr == Laid(c)[i][k]
             n == OperandRead(p, at, op)
  <1>0. IsObject(c)
    BY <1>l, ObjectsAssumption
  <1>1. InstrFits(c, instr) /\ instr.n \in Int /\ op \in DOMAIN OPCODE
    BY <1>0, <1>l, InstrFacts
  <1>2. read_instr(p, at) = ReadAs(p, at, op, n)
    <2>1. p.bytecode[at + 1] = OPCODE[op]
      <3>1. Code(c)[at + 1] = OPCODE[op]
        BY <1>l, CodeSlice
      <3>2. p.bytecode = Code(c)
        BY <1>l DEF IsRead
      <3> QED BY <3>1, <3>2, Zenon
    <2> HIDE DEF OPCODE
    <2> QED BY <1>1, <2>1, OpcodeRead
  <1>3. op # "PUSHSTR" => Bytes(instr.s) = <<>>
    <2>1. op # "PUSHSTR" => instr.s = ""
      BY <1>1, <1>l, Zenon DEF InstrFits
    <2> QED BY <2>1, BytesAssumption, Zenon
  <1>4. ASSUME op \in Jumps
        PROVE  ReadAs(p, at, op, n) = [op |-> op, n |-> Offset(c, instr.n), s |-> Bytes(instr.s)]
    <2>1. op # "PUSHSTR" /\ op \notin Counted
      BY <1>4 DEF Jumps, Counted
    <2>2. at + n = Offset(c, instr.n)
      BY <1>4, JumpRead
    <2>3. ReadAs(p, at, op, n) = [op |-> op, n |-> at + n, s |-> <<>>]
      BY <1>4, <2>1, Zenon DEF ReadAs
    <2> QED BY <1>3, <2>1, <2>2, <2>3, Zenon
  <1>5. ASSUME op = "PUSHSTR"
        PROVE  ReadAs(p, at, op, n) = [op |-> op, n |-> instr.n, s |-> Bytes(instr.s)]
    <2>1. op \notin Jumps /\ op \notin Counted
      BY <1>5 DEF Jumps, Counted
    <2>2. ReadAs(p, at, op, n)
            = [op |-> op, n |-> 0, s |-> Slice(p.string_bytes, n, read_u32be(p.bytecode, at + 5))]
      BY <1>5, <2>1, Zenon DEF ReadAs
    <2>3. instr.n = 0
      BY <1>1, <1>5, <1>l, Zenon DEF InstrFits
    <2>4. Slice(p.string_bytes, n, read_u32be(p.bytecode, at + 5)) = Bytes(instr.s)
      BY <1>5, StringRead
    <2> QED BY <2>2, <2>3, <2>4, Zenon
  <1>6. ASSUME op \in Counted
        PROVE  ReadAs(p, at, op, n) = [op |-> op, n |-> instr.n, s |-> Bytes(instr.s)]
    <2>1. op \notin Jumps /\ op # "PUSHSTR"
      BY <1>6 DEF Jumps, Counted
    <2>2. ReadAs(p, at, op, n) = [op |-> op, n |-> n + 1, s |-> <<>>]
      BY <1>6, <2>1, Zenon DEF ReadAs
    <2>3. n = instr.n - 1
      BY <1>6, <2>1, NumberRead
    <2>4. n + 1 = instr.n
      <3> HIDE DEF n, instr
      <3> QED BY <1>1, <2>3
    <2> QED BY <1>3, <2>1, <2>2, <2>4, Zenon
  <1>7. ASSUME op \notin Jumps, op # "PUSHSTR", op \notin Counted
        PROVE  ReadAs(p, at, op, n) = [op |-> op, n |-> instr.n, s |-> Bytes(instr.s)]
    <2>1. ReadAs(p, at, op, n) = [op |-> op, n |-> n, s |-> <<>>]
      BY <1>7, Zenon DEF ReadAs
    <2>2. n = instr.n
      BY <1>7, NumberRead
    <2> QED BY <1>3, <1>7, <2>1, <2>2, Zenon
  <1>8. op \in Counted => op \notin Jumps
    BY DEF Jumps, Counted
  <1>9. op = "PUSHSTR" => op \notin Jumps
    BY DEF Jumps
  <1> HIDE DEF instr, n
  <1>10. ReadAs(p, at, op, n) = [op |-> op,
                                 n |-> IF op \in Jumps THEN Offset(c, instr.n) ELSE instr.n,
                                 s |-> Bytes(instr.s)]
    <2>1. CASE op \in Jumps
      BY <1>4, <2>1, Zenon
    <2>2. CASE op \notin Jumps
      BY <1>5, <1>6, <1>7, <2>2, Zenon
    <2> QED BY <2>1, <2>2
  <1> QED BY <1>2, <1>10 DEF instr

(* The instruction and the function as the machine should find them, of any
   object. *)
Expected(c, j) ==
  [Image(c).code[j] EXCEPT !.n = IF Image(c).code[j].op \in Jumps THEN Bytewise(c)[@] ELSE @,
                           !.s = Bytes(@)]
ExpectedFunc(c, f) == [Image(c).funcs[f] EXCEPT !.addr = Bytewise(c)[@], !.name = Bytes(@)]

(* An instruction with another operand and another string. *)
LEMMA InstrChanged ==
  ASSUME NEW A, NEW B, NEW C, NEW r \in [op : A, n : B, s : C], NEW x, NEW y
  PROVE  [r EXCEPT !.n = x, !.s = y] = [op |-> r.op, n |-> x, s |-> y]
  <1>1. [r EXCEPT !.n = x] = [op |-> r.op, n |-> x, s |-> r.s]
    OBVIOUS
  <1>2. [[op |-> r.op, n |-> x, s |-> r.s] EXCEPT !.s = y] = [op |-> r.op, n |-> x, s |-> y]
    OBVIOUS
  <1> QED BY <1>1, <1>2, Zenon

(* In terms of the linked program: its instruction j is read at its place. *)
LEMMA CodeReadBack ==
  ASSUME NEW c \in Objects, Fits(c), NEW p, IsRead(p, c), NEW j \in DOMAIN Image(c).code
  PROVE  /\ read_instr(p, Bytewise(c)[j]) = Expected(c, j)
         /\ Expected(c, j).op = Image(c).code[j].op
         /\ Expected(c, j).n = IF Image(c).code[j].op \in Jumps THEN Bytewise(c)[Image(c).code[j].n]
                               ELSE Image(c).code[j].n
  <1>0. IsObject(c)
    BY ObjectsAssumption
  <1>a. PICK i \in 1..Len(c.order) : \E k \in 1..Len(Laid(c)[i]) : j = Starts(c)[i] + k
    BY <1>0, CodeCovered
  <1>1. PICK k \in 1..Len(Laid(c)[i]) : j = Starts(c)[i] + k
    BY <1>a
  <1> DEFINE instr == Laid(c)[i][k]
             out == Image(c).code[j]
             at == Offsets(c)[i] + InBlock(Laid(c)[i])[k]
             n == IF out.op \in Jumps THEN Bytewise(c)[out.n] ELSE out.n
             s == Bytes(out.s)
  <1>2. out = Resolve(c, instr)
    BY <1>0, <1>1, CodeFacts
  <1>3. out \in Instrs(c) /\ out.op = instr.op /\ out.s = instr.s
        /\ (instr.op \in Jumps => out.n = Target(c, instr.n))
        /\ (instr.op \notin Jumps => out.n = instr.n)
    <2> HIDE DEF out, OPCODE
    <2> QED BY <1>0, <1>2, ResolveFacts
  <1>4. Bytewise(c)[j] = at
    <2>1. k \in 1..Len(Laid(c)[i]) + 1
      <3>1. Len(Laid(c)[i]) \in Nat
        BY <1>0, OrderFacts
      <3> QED BY <3>1
    <2> QED BY <1>0, <1>1, <2>1, BytewiseFacts
  <1>5. read_instr(p, at) =
          [op |-> instr.op, n |-> IF instr.op \in Jumps THEN Offset(c, instr.n) ELSE instr.n,
           s |-> Bytes(instr.s)]
    <2>1. Lies(c, p, i, k, instr.op, at)
      BY DEF Lies
    <2> HIDE DEF at, instr
    <2>2. \A op, x : Lies(c, p, i, k, op, x) =>
            read_instr(p, x) =
              [op |-> op, n |-> IF op \in Jumps THEN Offset(c, Laid(c)[i][k].n) ELSE Laid(c)[i][k].n,
               s |-> Bytes(Laid(c)[i][k].s)]
      BY InstrsReadBack
    <2> QED BY <2>1, <2>2, Zenon DEF instr
  <1>6. Expected(c, j) = [op |-> out.op, n |-> n, s |-> s]
    <2>1. Expected(c, j) = [out EXCEPT !.n = n, !.s = s]
      BY DEF Expected
    <2> HIDE DEF out, n, s, OPCODE
    <2> QED BY <1>3, <2>1, InstrChanged DEF Instrs
  <1>7. instr.op \in Jumps => Bytewise(c)[Target(c, instr.n)] = Offset(c, instr.n)
    <2>1. instr.op \in Jumps => instr.n \in DOMAIN c.blocks
      BY <1>0, InstrFacts DEF InstrFits
    <2> QED BY <2>1, BlockOffset
  <1>8. n = IF instr.op \in Jumps THEN Offset(c, instr.n) ELSE instr.n
    <2> HIDE DEF out, instr
    <2> QED BY <1>3, <1>7
  <1>9. s = Bytes(instr.s)
    BY <1>3
  <1> HIDE DEF n, s, out, instr, at
  <1>10. read_instr(p, at) = Expected(c, j)
    BY <1>3, <1>5, <1>6, <1>8, <1>9
  <1>11. Expected(c, j).op = out.op /\ Expected(c, j).n = n
    BY <1>6
  <1> QED BY <1>4, <1>10, <1>11 DEF out, n

(* And its functions, each with the byte at which it begins. *)
LEMMA FuncsReadBack ==
  ASSUME NEW c \in Objects, Fits(c), NEW p, IsRead(p, c), NEW f \in DOMAIN c.funcs
  PROVE  /\ DOMAIN Image(c).funcs = DOMAIN c.funcs
         /\ program_func_meta(p, f) = ExpectedFunc(c, f)
         /\ ExpectedFunc(c, f).addr = Bytewise(c)[Target(c, c.funcs[f].start)]
  <1> DEFINE func == c.funcs[f]
             meta == bytecode_put_func_meta(c, func)
             a == Target(c, func.start)
  <1>1. Image(c).funcs[f] =
          [addr |-> a, locals |-> func.locals, args |-> func.args, captures |-> func.captures,
           type |-> func.type, name |-> func.name]
        /\ DOMAIN Image(c).funcs = DOMAIN c.funcs
    <2>1. Image(c).funcs =
            [g \in DOMAIN c.funcs |->
              [addr |-> Target(c, c.funcs[g].start), locals |-> c.funcs[g].locals,
               args |-> c.funcs[g].args, captures |-> c.funcs[g].captures,
               type |-> c.funcs[g].type, name |-> c.funcs[g].name]]
      BY ImageIs, Zenon
    <2> QED BY <2>1, Zenon
  <1>2. ExpectedFunc(c, f) =
          [addr |-> Bytewise(c)[a], locals |-> func.locals, args |-> func.args,
           captures |-> func.captures, type |-> func.type, name |-> Bytes(func.name)]
    <2> DEFINE r == Image(c).funcs[f]
    <2>1. r.addr = a /\ r.name = func.name
      <3> HIDE DEF r, a, func
      <3> QED BY <1>1 DEF r
    <2> DEFINE x == Bytewise(c)[a]
               y == Bytes(func.name)
    <2>2. ExpectedFunc(c, f) = [r EXCEPT !.addr = x, !.name = y]
      <3> HIDE DEF a, func
      <3> QED BY <2>1 DEF ExpectedFunc
    <2>3. r = [addr |-> a, locals |-> func.locals, args |-> func.args, captures |-> func.captures,
               type |-> func.type, name |-> func.name]
      BY <1>1
    <2> HIDE DEF r, a, func, x, y
    <2>4. [r EXCEPT !.addr = x]
            = [addr |-> x, locals |-> func.locals, args |-> func.args, captures |-> func.captures,
               type |-> func.type, name |-> func.name]
      BY <2>3
    <2>5. [[addr |-> x, locals |-> func.locals, args |-> func.args, captures |-> func.captures,
            type |-> func.type, name |-> func.name] EXCEPT !.name = y]
            = [addr |-> x, locals |-> func.locals, args |-> func.args, captures |-> func.captures,
               type |-> func.type, name |-> y]
      OBVIOUS
    <2> QED BY <2>2, <2>4, <2>5, Zenon DEF x, y
  <1>3. func \in Range(c.funcs)
    BY DEF Range
  <1>4. FuncFits(c, func)
    BY <1>3, ObjectsAssumption DEF IsObject
  <1>5. Bytewise(c)[a] = Offset(c, func.start)
    BY <1>4, BlockOffset DEF FuncFits
  <1>6. /\ read_u32be(meta, 0) = Offset(c, func.start)
        /\ meta[5] = func.locals /\ meta[6] = func.args /\ meta[7] = func.captures
        /\ func_type[meta[8] + 1] = func.type
        /\ read_u32be(meta, 8) = NameAt(c, func.name)
        /\ meta[13] = Len(Bytes(func.name))
    BY <1>3, MetaFacts
  <1>7. Slice(p.funcs, FUNC_META_BYTES * (f - 1), FUNC_META_BYTES) = meta
    <2>1. p.funcs = Funcs(c)
      BY DEF IsRead
    <2>2. f \in 1..Len(c.funcs)
      BY FuncsBytes
    <2> HIDE DEF meta
    <2>3. Slice(Funcs(c), FUNC_META_BYTES * (f - 1), FUNC_META_BYTES) = meta
      BY <2>2, FuncsBytes DEF meta
    <2> QED BY <2>1, <2>3, Zenon
  <1>8. Slice(p.string_bytes, NameAt(c, func.name), Len(Bytes(func.name))) = Bytes(func.name)
    <2>1. func.name \in Range(c.strings) \cup {""}
      BY <1>4, Zenon DEF FuncFits
    <2>2. p.string_bytes = Strings(c)
      BY DEF IsRead
    <2> QED BY <2>1, <2>2, NamesFit, Zenon
  <1> HIDE DEF func, meta, a
  <1>9. program_func_meta(p, f) =
          [addr |-> read_u32be(meta, 0), locals |-> meta[5], args |-> meta[6],
           captures |-> meta[7], type |-> func_type[meta[8] + 1],
           name |-> Slice(p.string_bytes, read_u32be(meta, 8), meta[13])]
    BY <1>7, Zenon DEF program_func_meta
  <1>10. program_func_meta(p, f) = ExpectedFunc(c, f)
    BY <1>2, <1>5, <1>6, <1>8, <1>9, Zenon
  <1>11. ExpectedFunc(c, f).addr = Bytewise(c)[a]
    BY <1>2
  <1> QED BY <1>1, <1>10, <1>11 DEF a, func

-----------------------------------------------------------------------------
(* The machine moves among the instructions.                                *)

AtInstruction(c, at) == \E j \in DOMAIN Image(c).code : at = Bytewise(c)[j]

(* The places of the instructions of the linked program. *)
LEMMA Indices ==
  ASSUME NEW c, IsObject(c)
  PROVE  /\ Len(Image(c).code) \in Nat
         /\ DOMAIN Image(c).code = 1..Len(Image(c).code)
         /\ Len(Image(c).code) = Starts(c)[Len(c.order) + 1]
         /\ \A j \in 1..Len(Image(c).code) :
              Bytewise(c)[j + 1] = Bytewise(c)[j] + Size(Image(c).code[j])
         /\ Bytewise(c)[1] = 0
         /\ Last(Bytewise(c)) = Bytewise(c)[Len(Image(c).code) + 1]
  <1> DEFINE code == Image(c).code
             sizes == [j \in DOMAIN code |-> Size(code[j])]
  <1>1. code \in Seq(Instrs(c)) /\ Len(code) = Starts(c)[Len(c.order) + 1]
    BY CodeFacts
  <1>2. /\ Len(sizes) = Len(code)
        /\ \A j \in 1..Len(code) : sizes[j] = Size(code[j])
        /\ ArePlaces(Bytewise(c), sizes)
        /\ Last(Bytewise(c)) = Bytewise(c)[Len(code) + 1]
    <2> HIDE DEF code
    <2> QED BY <1>1, InBlockFacts DEF Bytewise, code
  <1> HIDE DEF code, sizes
  <1>3. Bytewise(c)[1] = 0 /\ \A j \in 1..Len(code) : Bytewise(c)[j + 1] = Bytewise(c)[j] + sizes[j]
    BY <1>1, <1>2 DEF ArePlaces
  <1> QED BY <1>1, <1>2, <1>3 DEF code

(* Every instruction of the program is one of a block, with its operand resolved. *)
LEMMA CodeFits ==
  ASSUME NEW c, IsObject(c), NEW j \in DOMAIN Image(c).code
  PROVE  /\ Image(c).code[j].op \in Jumps => Image(c).code[j].n \in DOMAIN Image(c).code
         /\ Image(c).code[j].op \in {"CALL", "MAKECLS"} => Image(c).code[j].n \in DOMAIN c.funcs
  <1>1. PICK i \in 1..Len(c.order) : \E k \in 1..Len(Laid(c)[i]) : j = Starts(c)[i] + k
    BY CodeCovered
  <1>2. PICK k \in 1..Len(Laid(c)[i]) : j = Starts(c)[i] + k
    BY <1>1
  <1> DEFINE instr == Laid(c)[i][k]
             out == Image(c).code[j]
  <1>3. out = Resolve(c, instr)
    BY <1>2, CodeFacts
  <1>4. /\ out.op = instr.op
        /\ instr.op \in Jumps => out.n = Target(c, instr.n)
        /\ instr.op \notin Jumps => out = instr
    <2> HIDE DEF out
    <2> QED BY <1>3, ResolveFacts
  <1>5. InstrFits(c, instr)
    BY InstrFacts
  <1>6. ASSUME instr.op \in Jumps
        PROVE  Target(c, instr.n) \in DOMAIN Image(c).code
    <2>1. instr.n \in DOMAIN c.blocks
      BY <1>5, <1>6, Zenon DEF InstrFits
    <2> HIDE DEF instr
    <2> QED BY <2>1, TargetFacts, Indices
  <1>7. ASSUME instr.op \in {"CALL", "MAKECLS"}
        PROVE  instr.n \in DOMAIN c.funcs /\ instr.op \notin Jumps
    <2>1. instr.n \in DOMAIN c.funcs
      BY <1>5, <1>7, Zenon DEF InstrFits
    <2>2. instr.op \notin Jumps
      BY <1>7 DEF Jumps
    <2> QED BY <2>1, <2>2
  <1> HIDE DEF instr, out
  <1> QED BY <1>4, <1>6, <1>7, Zenon DEF out

(* The program ends with an instruction that the machine does not go on from. *)
LEMMA LastLeaves ==
  ASSUME NEW c, IsObject(c)
  PROVE  /\ Len(Image(c).code) >= 1
         /\ Image(c).code[Len(Image(c).code)].op \in Leaving
  <1> DEFINE N == Len(c.order)
             last == Laid(c)[N]
             m == Len(last)
  <1>1. N \in Nat /\ N >= 1 /\ N \in 1..N /\ last \in Seq(Instrs(c)) /\ m \in Nat
    <2>1. N \in Nat /\ N >= 1
      BY OrderFacts
    <2>2. N \in 1..N
      BY <2>1
    <2> QED BY <2>1, <2>2, OrderFacts
  <1>2. last # <<>> /\ Last(last).op \in Leaving
    BY DEF IsObject
  <1>3. m >= 1 /\ m \in 1..m /\ Last(last) = last[m]
    <2>1. m # 0
      BY <1>1, <1>2, EmptySeq, LenProperties
    <2> QED BY <1>1, <2>1 DEF Last
  <1>4. Len(Image(c).code) = Starts(c)[N] + m /\ Starts(c)[N] \in Nat
    <2>1. /\ BlockLens(c) \in Seq(Nat) /\ Len(BlockLens(c)) = N /\ ArePlaces(Starts(c), BlockLens(c))
          /\ BlockLens(c)[N] = m
      BY <1>1, StartsFacts
    <2>2. Starts(c)[N + 1] = Starts(c)[N] + BlockLens(c)[N] /\ Starts(c)[N] \in Nat
      <3> HIDE DEF N
      <3> QED BY <1>1, <2>1 DEF ArePlaces
    <2>3. Len(Image(c).code) = Starts(c)[N + 1]
      BY CodeFacts
    <2> QED BY <2>1, <2>2, <2>3
  <1>5. Image(c).code[Starts(c)[N] + m] = Resolve(c, last[m])
    BY <1>1, <1>3, CodeFacts
  <1>6. Resolve(c, last[m]).op = last[m].op
    BY <1>1, <1>3, ResolveFacts
  <1>7. Image(c).code[Len(Image(c).code)].op \in Leaving
    BY <1>2, <1>3, <1>4, <1>5, <1>6, Zenon
  <1>8. Len(Image(c).code) >= 1
    <2> HIDE DEF m, N
    <2> QED BY <1>1, <1>3, <1>4
  <1> QED BY <1>7, <1>8

(* From an instruction the machine moves to instructions only. *)
LEMMA MovesOn ==
  ASSUME NEW c \in Objects, Fits(c), NEW p, IsRead(p, c), NEW at, AtInstruction(c, at)
  PROVE  /\ read_instr(p, at).op \notin Leaving => AtInstruction(c, at + Size(read_instr(p, at)))
         /\ read_instr(p, at).op \in Jumps => AtInstruction(c, read_instr(p, at).n)
         /\ read_instr(p, at).op \in {"CALL", "MAKECLS"} =>
              AtInstruction(c, program_func_meta(p, read_instr(p, at).n).addr)
  <1>0. IsObject(c)
    BY ObjectsAssumption
  <1>1. PICK j \in DOMAIN Image(c).code : at = Bytewise(c)[j]
    BY DEF AtInstruction
  <1> DEFINE code == Image(c).code
             instr == code[j]
             read == read_instr(p, at)
  <1>2. /\ read.op = instr.op
        /\ instr.op \in Jumps => read.n = Bytewise(c)[instr.n]
        /\ instr.op \notin Jumps => read.n = instr.n
    <2>1. /\ read = Expected(c, j)
          /\ Expected(c, j).op = instr.op
          /\ Expected(c, j).n = IF instr.op \in Jumps THEN Bytewise(c)[instr.n] ELSE instr.n
      BY <1>1, CodeReadBack, Zenon
    <2> HIDE DEF read, instr
    <2> QED BY <2>1, Zenon
  <1>3. Size(read) = Size(instr)
    <2> HIDE DEF read, instr
    <2> QED BY <1>2, Zenon DEF Size
  <1>4. ASSUME read.op \notin Leaving
        PROVE  AtInstruction(c, at + Size(read))
    <2>1. /\ Len(code) \in Nat /\ DOMAIN code = 1..Len(code)
          /\ Bytewise(c)[j + 1] = Bytewise(c)[j] + Size(instr)
      BY <1>0, <1>1, Indices
    <2>2. j # Len(code)
      BY <1>0, <1>2, <1>4, LastLeaves, Zenon
    <2>3. j + 1 \in DOMAIN code
      BY <1>1, <2>1, <2>2
    <2>4. at + Size(read) = Bytewise(c)[j + 1]
      BY <1>1, <1>3, <2>1, Zenon
    <2> QED BY <2>3, <2>4, Zenon DEF AtInstruction
  <1>5. ASSUME read.op \in Jumps
        PROVE  AtInstruction(c, read.n)
    <2>1. instr.n \in DOMAIN code
      BY <1>0, <1>1, <1>2, <1>5, CodeFits, Zenon
    <2> QED BY <1>2, <1>5, <2>1, Zenon DEF AtInstruction
  <1>6. ASSUME read.op \in {"CALL", "MAKECLS"}
        PROVE  AtInstruction(c, program_func_meta(p, read.n).addr)
    <2>1. instr.op \in {"CALL", "MAKECLS"} /\ instr.op \notin Jumps
      <3>1. instr.op \in {"CALL", "MAKECLS"}
        BY <1>2, <1>6, Zenon
      <3> HIDE DEF instr
      <3> QED BY <3>1 DEF Jumps
    <2>2. instr.n \in DOMAIN c.funcs
      BY <1>0, <1>1, <2>1, CodeFits, Zenon
    <2> DEFINE f == instr.n
    <2>3. read.n = f
      BY <1>2, <2>1, Zenon
    <2>4. program_func_meta(p, f).addr = Bytewise(c)[Target(c, c.funcs[f].start)]
      <3> HIDE DEF f
      <3>1. f \in DOMAIN c.funcs
        BY <2>2 DEF f
      <3> QED BY <3>1, FuncsReadBack, Zenon
    <2>5. c.funcs[f].start \in DOMAIN c.blocks
      <3>1. c.funcs[f] \in Range(c.funcs)
        BY <2>2 DEF Range
      <3>2. FuncFits(c, c.funcs[f])
        BY <1>0, <3>1, Zenon DEF IsObject
      <3> QED BY <3>2, Zenon DEF FuncFits
    <2>6. Target(c, c.funcs[f].start) \in DOMAIN code
      <3> HIDE DEF f
      <3> QED BY <1>0, <2>5, TargetFacts, Indices
    <2> QED BY <2>3, <2>4, <2>6, Zenon DEF AtInstruction
  <1> QED BY <1>4, <1>5, <1>6

-----------------------------------------------------------------------------
(* The inductive invariant: what is written is the object's, what is read   *)
(* is what was written, and the machine is at an instruction of it.         *)
Inv ==
  /\ object \in Objects
  /\ stage \in {"visited", "written", "loaded", "running"}
  /\ stage # "visited" => Fits(object)
  /\ stage \in {"visited", "written"} => ip = 0
  /\ stage = "written" => file = Written(object)
  /\ Running => IsRead(prog, object) /\ AtInstruction(object, ip)

(* The invariant holds at first, *)
LEMMA InitInv ==
  Init => Inv
  BY DEF Init, Inv, Running

(* it survives a move of the machine to an instruction, *)
LEMMA MovesInv ==
  ASSUME Inv, Running, NEW to, Moves(to), AtInstruction(object, to)
  PROVE  Inv'
  <1>1. stage # "visited" /\ stage # "written"
    BY DEF Running
  <1>2. /\ ip' = to /\ stage' = "running"
        /\ object' = object /\ prog' = prog
    BY DEF Moves
  <1>3. Fits(object) /\ IsRead(prog, object) /\ object \in Objects
    BY <1>1 DEF Inv
  <1>4. AtInstruction(object', ip') /\ IsRead(prog', object') /\ Fits(object')
    BY <1>2, <1>3
  <1> QED BY <1>2, <1>3, <1>4 DEF Inv, Running

(* and so it survives every step. *)
LEMMA NextInv ==
  Inv /\ [Next]_vars => Inv'
  <1> SUFFICES ASSUME Inv, [Next]_vars
               PROVE  Inv'
    OBVIOUS
  <1>1. CASE Write
    BY <1>1 DEF Write, Inv, Running
  <1>2. CASE Read
    <2>1. /\ object' = object /\ ip' = 0 /\ stage' = "loaded"
          /\ object \in Objects /\ Fits(object) /\ prog' = program_read(Written(object))
      BY <1>2 DEF Read, Inv
    <2>2. IsRead(prog', object)
      BY <2>1, FileRead, Zenon
    <2>3. AtInstruction(object, 0)
      <3>1. IsObject(object)
        BY <2>1, ObjectsAssumption
      <3>2. 1 \in DOMAIN Image(object).code /\ Bytewise(object)[1] = 0
        BY <3>1, Indices, LastLeaves
      <3> QED BY <3>2, Zenon DEF AtInstruction
    <2>4. IsRead(prog', object') /\ AtInstruction(object', ip') /\ Fits(object')
      BY <2>1, <2>2, <2>3
    <2> QED BY <2>1, <2>4 DEF Inv, Running
  <1>3. ASSUME Running
        PROVE  /\ Fetched.op \notin Leaving => AtInstruction(object, ip + Size(Fetched))
               /\ Fetched.op \in Jumps => AtInstruction(object, Fetched.n)
               /\ Fetched.op \in {"CALL", "MAKECLS"} =>
                    AtInstruction(object, program_func_meta(prog, Fetched.n).addr)
    <2>1. /\ object \in Objects /\ Fits(object)
          /\ IsRead(prog, object) /\ AtInstruction(object, ip)
      BY <1>3 DEF Inv, Running
    <2> QED BY <2>1, MovesOn, Zenon DEF Fetched
  <1>4. CASE Next_instr
    <2>1. Running /\ Moves(ip + Size(Fetched)) /\ AtInstruction(object, ip + Size(Fetched))
      BY <1>3, <1>4, Zenon DEF Next_instr
    <2> QED BY <2>1, MovesInv, Zenon
  <1>5. CASE Jump
    <2>1. Running /\ Moves(Fetched.n) /\ AtInstruction(object, Fetched.n)
      BY <1>3, <1>5, Zenon DEF Jump
    <2> QED BY <2>1, MovesInv, Zenon
  <1>6. CASE Enter
    <2> DEFINE addr == program_func_meta(prog, Fetched.n).addr
    <2>1. Running /\ Moves(addr) /\ AtInstruction(object, addr)
      BY <1>3, <1>6, Zenon DEF Enter
    <2> HIDE DEF addr
    <2> QED BY <2>1, MovesInv, Zenon
  <1>7. CASE UNCHANGED vars
    BY <1>7 DEF vars, Inv, Running
  <1> QED BY <1>1, <1>2, <1>4, <1>5, <1>6, <1>7 DEF Next

(* It has what the theorems say. *)
LEMMA InvReadsBack ==
  Inv => BytesReadBack
  <1> SUFFICES ASSUME Inv
               PROVE  BytesReadBack
    OBVIOUS
  <1>0. IsObject(object) /\ object \in Objects
    BY ObjectsAssumption DEF Inv
  <1>1. ASSUME stage = "written"
        PROVE  Readable(file)
    BY <1>1, FileRead DEF Inv
  <1>2. Linked = Image(object) /\ Addresses = Bytewise(object)
    BY Zenon DEF Linked, Addresses, Image, Bytewise
  <1>3. ASSUME stage = "loaded"
        PROVE  /\ Len(prog.bytecode) = Last(Addresses)
               /\ \A i \in DOMAIN Linked.code : read_instr(prog, Addresses[i]) = InstrRead(i)
               /\ prog.funcs_len = Len(Linked.funcs)
               /\ \A f \in DOMAIN Linked.funcs : program_func_meta(prog, f) = FuncRead(f)
    <2>1. Fits(object) /\ IsRead(prog, object)
      BY <1>3 DEF Inv, Running
    <2>2. Len(prog.bytecode) = Last(Addresses)
      <3>1. prog.bytecode = Code(object)
        BY <2>1 DEF IsRead
      <3>2. Len(Code(object)) = Last(Bytewise(object))
        BY <1>0, CodeBytes, BytewiseFacts, Zenon
      <3> QED BY <1>2, <3>1, <3>2, Zenon
    <2>3. ASSUME NEW i \in DOMAIN Linked.code
          PROVE  read_instr(prog, Addresses[i]) = InstrRead(i)
      <3>1. read_instr(prog, Bytewise(object)[i]) = Expected(object, i)
        BY <1>0, <1>2, <2>1, CodeReadBack, Zenon
      <3>2. Expected(object, i) = InstrRead(i)
        BY <1>2, Zenon DEF Expected, InstrRead
      <3> QED BY <1>2, <3>1, <3>2, Zenon
    <2>4. DOMAIN Linked.funcs = DOMAIN object.funcs
      BY <1>2, ImageIs
    <2>5. ASSUME NEW f \in DOMAIN Linked.funcs
          PROVE  program_func_meta(prog, f) = FuncRead(f)
      <3>1. program_func_meta(prog, f) = ExpectedFunc(object, f)
        BY <1>0, <2>1, <2>4, FuncsReadBack, Zenon
      <3>2. ExpectedFunc(object, f) = FuncRead(f)
        BY <1>2, Zenon DEF ExpectedFunc, FuncRead
      <3> QED BY <3>1, <3>2, Zenon
    <2>6. prog.funcs_len = Len(Linked.funcs)
      <3>1. prog.funcs_len = Len(object.funcs)
        BY <2>1 DEF IsRead
      <3>2. Len(Image(object).funcs) = Len(object.funcs)
        <4>1. object.funcs \in Seq(Range(object.funcs))
          BY <1>0 DEF IsObject
        <4>2. DOMAIN Image(object).funcs = 1..Len(object.funcs) /\ Len(object.funcs) \in Nat
          BY <1>2, <2>4, <4>1
        <4> DEFINE funcs == Image(object).funcs
        <4>3. funcs = [f \in DOMAIN funcs |-> funcs[f]]
          BY ImageIs, Zenon
        <4> HIDE DEF funcs
        <4>4. funcs \in [1..Len(object.funcs) -> Range(funcs)]
          BY <4>2, <4>3 DEF Range, funcs
        <4>5. Len(funcs) = Len(object.funcs)
          BY <4>2, <4>4, FunctionIsSeq
        <4> QED BY <4>5 DEF funcs
      <3> QED BY <1>2, <3>1, <3>2, Zenon
    <2> QED BY <2>2, <2>3, <2>5, <2>6
  <1> QED BY <1>1, <1>3, Zenon DEF BytesReadBack

(* The same. *)
LEMMA InvFetches ==
  Inv => FetchesInstructions
  <1> SUFFICES ASSUME Inv, Running
               PROVE  \E i \in DOMAIN Linked.code : ip = Addresses[i]
    BY DEF FetchesInstructions
  <1>1. AtInstruction(object, ip)
    BY DEF Inv
  <1> QED BY <1>1, Zenon DEF AtInstruction, Linked, Addresses, Image, Bytewise

(* The invariant is one. *)
LEMMA Inductive ==
  Spec => []Inv
  BY InitInv, NextInv, PTL DEF Spec

(* What compiler_write_program writes of any program that the visitors can  *)
(* leave and that passes the CHECKED_ conversions, program_read accepts;    *)
(* and it reads back, byte for byte of whatever lengths the parts have,     *)
(* every instruction, function and string where the machine looks for it.   *)
THEOREM LayoutReadBack == Spec => []BytesReadBack
  BY Inductive, InvReadsBack, PTL

(* In any run over these bytes, on to the next instruction, along jumps     *)
(* forth and back and into functions, machine_step never fetches from       *)
(* within an instruction or from behind the last.                           *)
THEOREM LayoutFetched == Spec => []FetchesInstructions
  BY Inductive, InvFetches, PTL
=============================================================================
