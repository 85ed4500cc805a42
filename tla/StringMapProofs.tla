--------------------------- MODULE StringMapProofs ---------------------------
(* The string map for every hash function, set of keys and number of       *)
(* buckets: what its actions keep of the chains, of an iteration, and of   *)
(* the dictionary it is while its key buffer is not moved.                 *)
EXTENDS StringMap, SequenceTheorems, WellFoundedInduction, TLAPS

MapEntry ==
  [hash : Nat, value : Value, key : [array : Nat, len : Nat, offset : Nat]]

MapTypeOK ==
  /\ entries \in Seq(MapEntry)
  /\ chains \in [Bucket -> Seq(Nat)]
  /\ buffer.array \in Nat /\ buffer.data \in Seq(Key \X Nat)

BucketOf(e) == e.hash % Buckets

(* Every entry of es is linked once, in the chain of its bucket. *)
LinkedIn(es, cs) ==
  /\ \A b \in Bucket : \A n \in 1..Len(cs[b]) :
       cs[b][n] \in 1..Len(es) /\ BucketOf(es[cs[b][n]]) = b
  /\ \A b \in Bucket : \A m, n \in 1..Len(cs[b]) : cs[b][m] = cs[b][n] => m = n
  /\ \A i \in 1..Len(es) : \E n \in 1..Len(cs[BucketOf(es[i])]) :
       cs[BucketOf(es[i])][n] = i

Linked == LinkedIn(entries, chains)

ChainsInv == MapTypeOK /\ Linked

-----------------------------------------------------------------------------
(* Data. *)

LEMMA MinFacts ==
  ASSUME NEW T \in SUBSET Nat, T # {}
  PROVE  Min(T) \in T /\ \A y \in T : Min(T) <= y
  <1> DEFINE R == {p \in Nat \X Nat : p[1] < p[2]}
  <1>1. IsWellFoundedOn(R, Nat)
    BY NatLessThanWellFounded DEF OpToRel
  <1>2. PICK x \in T : \A y \in T : <<y, x>> \notin R
    BY <1>1, WFMin
  <1>3. \A y \in T : <<y, x>> \in Nat \X Nat /\ <<y, x>>[1] = y /\ <<y, x>>[2] = x
    OBVIOUS
  <1>4. \A y \in T : ~(y < x)
    BY <1>2, <1>3
  <1>5. \A y \in T : x <= y
    BY <1>4
  <1> QED
    BY <1>5 DEF Min

(* A key as characters. *)
LEMMA TextFacts ==
  ASSUME NEW k \in Key
  PROVE  Text(k) \in Seq(Key \X Nat) /\ Len(Text(k)) = Length[k] /\ Length[k] \in Nat
  <1>1. Length[k] \in Nat
    BY KeyAssumption
  <1>2. Text(k) \in [1..Length[k] -> Key \X Nat]
    BY <1>1 DEF Text
  <1> QED
    BY <1>1, <1>2, LenProperties

LEMMA HashInBucket ==
  ASSUME NEW h \in Nat
  PROVE  h % Buckets \in Bucket
  BY KeyAssumption DEF Bucket

LEMMA BucketOfEntry ==
  ASSUME NEW e \in MapEntry
  PROVE  BucketOf(e) \in Bucket
  BY HashInBucket DEF BucketOf, MapEntry

(* The entry that is found matches the key; if none is found, none does. *)
LEMMA GetEntryFacts ==
  ASSUME ChainsInv, NEW k \in Key, NEW reading,
         NEW i, i = string_map_get_entry(k, reading)
  PROVE  /\ i \in 0..Len(entries)
         /\ i # 0 => Matches(i, k, reading)
         /\ i = 0 => \A j \in 1..Len(entries) : ~Matches(j, k, reading)
  <1> DEFINE b == Hash[k] % Buckets
             chain == chains[b]
             hits == {n \in DOMAIN chain : Matches(chain[n], k, reading)}
  <1>1. b \in Bucket
    BY HashInBucket, KeyAssumption
  <1>2. chain \in Seq(Nat) /\ DOMAIN chain = 1..Len(chain) /\ Len(chain) \in Nat
    BY <1>1, LenProperties DEF ChainsInv, MapTypeOK
  <1>3. i = IF hits = {} THEN 0 ELSE chain[Min(hits)]
    BY DEF string_map_get_entry
  <1>4. Len(entries) \in Nat
    BY DEF ChainsInv, MapTypeOK
  <1>5. CASE hits = {}
    <2>1. ASSUME NEW j \in 1..Len(entries), Matches(j, k, reading) PROVE FALSE
      <3>1. BucketOf(entries[j]) = b
        BY <2>1 DEF Matches, BucketOf
      <3>2. PICK n \in 1..Len(chain) : chain[n] = j
        BY <3>1 DEF ChainsInv, Linked, LinkedIn
      <3> QED
        BY <1>2, <1>5, <2>1, <3>2
    <2> QED
      BY <1>3, <1>4, <1>5, <2>1
  <1>6. CASE hits # {}
    <2>1. Min(hits) \in hits
      <3>1. hits \subseteq Nat
        BY <1>2
      <3> HIDE DEF hits
      <3> QED
        BY <1>6, <3>1, MinFacts
    <2>2. chain[Min(hits)] \in 1..Len(entries)
      BY <1>1, <1>2, <2>1 DEF ChainsInv, Linked, LinkedIn
    <2>3. Matches(chain[Min(hits)], k, reading)
      BY <2>1
    <2>4. i = chain[Min(hits)]
      BY <1>3, <1>6
    <2> HIDE DEF hits
    <2> QED
      BY <1>4, <2>2, <2>3, <2>4
  <1> QED
    BY <1>5, <1>6

-----------------------------------------------------------------------------
(* The chains. *)

LEMMA ChainsStart == string_map_init => ChainsInv
  <1> SUFFICES ASSUME string_map_init PROVE ChainsInv
    OBVIOUS
  <1>1. <<>> \in Seq(Nat) /\ Len(<<>>) = 0 /\ <<>> \in Seq(MapEntry)
    BY EmptySeq
  <1>2. /\ entries = <<>> /\ chains = [b \in Bucket |-> <<>>]
        /\ buffer.array = 0 /\ buffer.data = <<>>
    BY DEF string_map_init
  <1>3. buffer.data \in Seq(Key \X Nat)
    BY <1>2, EmptySeq
  <1> QED
    BY <1>1, <1>2, <1>3 DEF ChainsInv, MapTypeOK, Linked, LinkedIn

(* A value is replaced: the links stay. *)
LEMMA ReplaceKeepsChains ==
  ASSUME ChainsInv, NEW i \in 1..Len(entries), NEW v \in Value,
         entries' = [entries EXCEPT ![i].value = v], UNCHANGED <<chains, buffer>>
  PROVE  /\ ChainsInv'
         /\ Len(entries') = Len(entries)
         /\ \A j \in 1..Len(entries) :
              entries'[j] = [hash |-> entries[j].hash, key |-> entries[j].key,
                             value |-> IF j = i THEN v ELSE entries[j].value]
  <1> DEFINE new == [entries[i] EXCEPT !.value = v]
  <1>1. entries \in Seq(MapEntry) /\ Len(entries) \in Nat
    BY DEF ChainsInv, MapTypeOK
  <1>2. \A j \in 1..Len(entries) : entries[j] \in MapEntry
    BY <1>1, ElementOfSeq
  <1>3. new \in MapEntry /\ entries' = [entries EXCEPT ![i] = new]
    BY <1>2 DEF MapEntry
  <1>4. /\ entries' \in Seq(MapEntry) /\ Len(entries') = Len(entries)
        /\ \A j \in 1..Len(entries) : entries'[j] = IF j = i THEN new ELSE entries[j]
    <2> HIDE DEF new
    <2> QED
      BY <1>1, <1>3, ExceptSeq
  <1>5. \A j \in 1..Len(entries) :
          entries'[j] = [hash |-> entries[j].hash, key |-> entries[j].key,
                         value |-> IF j = i THEN v ELSE entries[j].value]
    BY <1>2, <1>4 DEF MapEntry
  <1>6. \A j \in 1..Len(entries) : BucketOf(entries'[j]) = BucketOf(entries[j])
    BY <1>5 DEF BucketOf
  <1>7. MapTypeOK'
    BY <1>1, <1>4 DEF ChainsInv, MapTypeOK
  <1>8. Linked'
    BY <1>4, <1>6 DEF ChainsInv, Linked, LinkedIn
  <1> QED
    BY <1>4, <1>5, <1>7, <1>8 DEF ChainsInv

LEMMA LinkAtEnd ==
  ASSUME NEW es \in Seq(MapEntry), NEW cs \in [Bucket -> Seq(Nat)], LinkedIn(es, cs),
         NEW e \in MapEntry
  PROVE  LinkedIn(Append(es, e), [cs EXCEPT ![BucketOf(e)] = Append(@, Len(es) + 1)])
  <1> DEFINE n == Len(es)
             b == BucketOf(e)
             es2 == Append(es, e)
             cs2 == [cs EXCEPT ![b] = Append(@, n + 1)]
  <1>1. b \in Bucket /\ n \in Nat
    BY BucketOfEntry
  <1>2. /\ Len(es2) = n + 1 /\ es2[n + 1] = e
        /\ \A j \in 1..n : es2[j] = es[j]
    BY AppendProperties
  <1>3. /\ cs2[b] = Append(cs[b], n + 1)
        /\ \A c \in Bucket : c # b => cs2[c] = cs[c]
    BY <1>1
  <1>4. /\ Len(cs[b]) \in Nat /\ Len(cs2[b]) = Len(cs[b]) + 1
        /\ \A m \in 1..Len(cs[b]) : cs2[b][m] = cs[b][m]
        /\ cs2[b][Len(cs[b]) + 1] = n + 1
    BY <1>1, <1>3, AppendProperties
  <1> HIDE DEF es2, cs2, b, n
  <1>5. \A c \in Bucket : \A m \in 1..Len(cs[c]) :
          cs[c][m] \in 1..n /\ BucketOf(es2[cs[c][m]]) = c
    BY <1>2 DEF LinkedIn, n
  <1>6. ASSUME NEW c \in Bucket, NEW m \in 1..Len(cs2[c])
        PROVE  cs2[c][m] \in 1..n + 1 /\ BucketOf(es2[cs2[c][m]]) = c
    <2>1. CASE c # b \/ m \in 1..Len(cs[b])
      <3>1. m \in 1..Len(cs[c]) /\ cs2[c][m] = cs[c][m]
        BY <1>3, <1>4, <2>1
      <3> QED
        BY <1>1, <1>5, <3>1
    <2>2. CASE c = b /\ m = Len(cs[b]) + 1
      BY <1>1, <1>2, <1>4, <2>2 DEF b
    <2> QED
      BY <1>4, <2>1, <2>2
  <1>7. ASSUME NEW c \in Bucket, NEW l \in 1..Len(cs2[c]), NEW m \in 1..Len(cs2[c]),
               cs2[c][l] = cs2[c][m]
        PROVE  l = m
    <2>1. CASE c # b
      BY <1>3, <1>7, <2>1 DEF LinkedIn
    <2>2. CASE c = b
      <3>1. \A i \in 1..Len(cs[b]) : cs[b][i] # n + 1
        BY <1>1, <1>5
      <3>2. \A i, j \in 1..Len(cs[b]) : cs[b][i] = cs[b][j] => i = j
        BY <1>1 DEF LinkedIn
      <3>3. /\ l \in 1..Len(cs[b]) \/ l = Len(cs[b]) + 1
            /\ m \in 1..Len(cs[b]) \/ m = Len(cs[b]) + 1
        BY <1>4, <2>2
      <3>4. CASE l \in 1..Len(cs[b]) /\ m \in 1..Len(cs[b])
        BY <1>4, <1>7, <2>2, <3>2, <3>4
      <3>5. CASE l \in 1..Len(cs[b]) /\ m = Len(cs[b]) + 1
        BY <1>4, <1>7, <2>2, <3>1, <3>5
      <3>6. CASE l = Len(cs[b]) + 1 /\ m \in 1..Len(cs[b])
        BY <1>4, <1>7, <2>2, <3>1, <3>6
      <3> QED
        BY <3>3, <3>4, <3>5, <3>6
    <2> QED
      BY <2>1, <2>2
  <1>8. ASSUME NEW j \in 1..n + 1
        PROVE  \E m \in 1..Len(cs2[BucketOf(es2[j])]) : cs2[BucketOf(es2[j])][m] = j
    <2>1. CASE j \in 1..n
      <3> DEFINE c == BucketOf(es[j])
      <3>1. PICK m \in 1..Len(cs[c]) : cs[c][m] = j
        BY <2>1 DEF LinkedIn, n
      <3>2. es[j] \in MapEntry
        BY <2>1, ElementOfSeq DEF n
      <3>3. c \in Bucket
        BY <3>2, BucketOfEntry
      <3> HIDE DEF c
      <3>4. m \in 1..Len(cs2[c]) /\ cs2[c][m] = j
        <4>1. CASE c = b
          BY <1>4, <3>1, <4>1
        <4>2. CASE c # b
          BY <1>3, <3>1, <3>3, <4>2
        <4> QED
          BY <4>1, <4>2
      <3>5. BucketOf(es2[j]) = c
        BY <1>2, <2>1 DEF c
      <3> QED
        BY <3>4, <3>5
    <2>2. CASE j = n + 1
      <3>1. BucketOf(es2[j]) = b
        BY <1>2, <2>2 DEF b
      <3> QED
        BY <1>4, <2>2, <3>1
    <2> QED
      BY <1>1, <2>1, <2>2
  <1>9. LinkedIn(es2, cs2)
    BY <1>2, <1>6, <1>7, <1>8 DEF LinkedIn
  <1> QED
    BY <1>9 DEF es2, cs2, b, n

(* A new entry is linked at the end of the chain of its bucket. *)
LEMMA NewEntryKeepsChains ==
  ASSUME ChainsInv, NEW k \in Key, NEW v \in Value, NewEntry(k, v),
         NEW array \in Arrays(k), buffer' = buffer_puts(k, array)
  PROVE  /\ ChainsInv'
         /\ Len(entries') = Len(entries) + 1
         /\ \A j \in 1..Len(entries) : entries'[j] = entries[j]
         /\ entries'[Len(entries) + 1] =
              [hash |-> Hash[k], value |-> v,
               key |-> [array |-> buffer'.array, len |-> Length[k],
                        offset |-> Len(buffer.data)]]
  <1> DEFINE n == Len(entries)
             new == [hash |-> Hash[k], value |-> v,
                     key |-> [array |-> buffer'.array, len |-> Length[k],
                              offset |-> Len(buffer.data)]]
  <1>1. entries \in Seq(MapEntry) /\ n \in Nat /\ chains \in [Bucket -> Seq(Nat)]
    BY DEF ChainsInv, MapTypeOK
  <1>0. buffer'.array \in Nat /\ buffer'.data \in Seq(Key \X Nat)
    BY TextFacts DEF Arrays, buffer_puts, ChainsInv, MapTypeOK
  <1>2. new \in MapEntry /\ BucketOf(new) = Hash[k] % Buckets
    <2>1. /\ Hash[k] \in Nat /\ Length[k] \in Nat /\ buffer'.array \in Nat
          /\ Len(buffer.data) \in Nat
      BY <1>0, KeyAssumption DEF ChainsInv, MapTypeOK
    <2> QED
      BY <2>1 DEF MapEntry, BucketOf
  <1>3. /\ entries' = Append(entries, new)
        /\ chains' = [chains EXCEPT ![BucketOf(new)] = Append(@, n + 1)]
    BY <1>2 DEF NewEntry
  <1>4. BucketOf(new) \in Bucket
    BY <1>2, BucketOfEntry
  <1> HIDE DEF new
  <1>5. /\ entries' \in Seq(MapEntry) /\ Len(entries') = n + 1
        /\ \A j \in 1..n : entries'[j] = entries[j]
        /\ entries'[n + 1] = new
    BY <1>1, <1>2, <1>3, AppendProperties
  <1>6. chains' \in [Bucket -> Seq(Nat)]
    BY <1>1, <1>3, <1>4, AppendProperties
  <1>7. Linked'
    BY <1>1, <1>2, <1>3, LinkAtEnd DEF ChainsInv, Linked
  <1>8. MapTypeOK'
    BY <1>0, <1>5, <1>6 DEF MapTypeOK
  <1> QED
    BY <1>5, <1>7, <1>8 DEF ChainsInv, new

LEMMA PutKeepsChains ==
  ASSUME ChainsInv, NEW k \in Key, NEW v \in Value, string_map_put(k, v)
  PROVE  ChainsInv'
  <1>1. PICK reading \in Readings :
          LET i == string_map_get_entry(k, reading)
          IN IF i # 0
               THEN /\ entries' = [entries EXCEPT ![i].value = v]
                    /\ UNCHANGED <<chains, buffer>>
               ELSE /\ \E array \in Arrays(k) : buffer' = buffer_puts(k, array)
                    /\ NewEntry(k, v)
    BY DEF string_map_put
  <1> DEFINE i == string_map_get_entry(k, reading)
  <1>2. i \in 0..Len(entries)
    BY GetEntryFacts
  <1>3. Len(entries) \in Nat
    BY DEF ChainsInv, MapTypeOK
  <1> HIDE DEF i
  <1>4. CASE i # 0
    <2>1. i \in 1..Len(entries)
      BY <1>2, <1>3, <1>4
    <2> QED
      BY <1>1, <1>4, <2>1, ReplaceKeepsChains DEF i
  <1>5. CASE i = 0
    BY <1>1, <1>5, NewEntryKeepsChains DEF i
  <1> QED
    BY <1>4, <1>5

LEMMA SameKeepsChains ==
  ChainsInv /\ UNCHANGED <<chains, entries, buffer>> => ChainsInv'
  BY DEF ChainsInv, MapTypeOK, Linked

-----------------------------------------------------------------------------
(* The iteration. *)

(* What lies before the n-th entry of bucket b, and that one. *)
UpTo(i, b, n) == BucketOf(entries[i]) < b \/ \E m \in 1..n : chains[b][m] = i

IterInv ==
  /\ iter \in [bucket : 0..Buckets, entry : 0..Len(entries)]
  /\ visited \in Seq(1..Len(entries))
  /\ IsInjective(visited)
  /\ ~Iterating => visited = <<>> \/ Range(visited) = 1..Len(entries)
  /\ Iterating /\ iter.entry = 0 => iter.bucket = 0 /\ visited = <<>>
  /\ iter.entry # 0 =>
       LET b == BucketOf(entries[iter.entry])
       IN /\ iter.bucket = b + 1
          /\ \E n \in 1..Len(chains[b]) :
               /\ chains[b][n] = iter.entry
               /\ \A i \in 1..Len(entries) : i \in Range(visited) <=> UpTo(i, b, n)

LEMMA VisitOne ==
  ASSUME NEW S, NEW es \in Seq(S), IsInjective(es), NEW e \in S, e \notin Range(es)
  PROVE  /\ Append(es, e) \in Seq(S)
         /\ IsInjective(Append(es, e))
         /\ Range(Append(es, e)) = Range(es) \cup {e}
  <1> DEFINE n == Len(es)
             es2 == Append(es, e)
  <1>1. n \in Nat /\ DOMAIN es = 1..n
    BY LenProperties
  <1>2. /\ es2 \in Seq(S) /\ Len(es2) = n + 1
        /\ \A i \in 1..n : es2[i] = es[i]
        /\ es2[n + 1] = e
    BY AppendProperties
  <1>3. DOMAIN es2 = 1..n + 1
    BY <1>2, LenProperties
  <1> HIDE DEF es2, n
  <1>4. \A i \in 1..n : es[i] # e
    BY <1>1 DEF Range
  <1>5. \A i \in 1..n + 1 : i \in 1..n \/ i = n + 1
    BY <1>1
  <1>6. IsInjective(es2)
    BY <1>1, <1>2, <1>3, <1>4, <1>5 DEF IsInjective
  <1>7. Range(es2) = Range(es) \cup {e}
    <2>1. n + 1 \in 1..n + 1 /\ \A i \in 1..n : i \in 1..n + 1
      BY <1>1
    <2> QED
      BY <1>1, <1>2, <1>3, <1>5, <2>1 DEF Range
  <1> QED
    BY <1>2, <1>6, <1>7 DEF es2

(* The places of the current entry. *)
LEMMA NextOfFacts ==
  ASSUME ChainsInv, NEW e \in 1..Len(entries),
         NEW n \in 1..Len(chains[BucketOf(entries[e])]),
         chains[BucketOf(entries[e])][n] = e
  PROVE  NextOf(e) = IF n < Len(chains[BucketOf(entries[e])])
                     THEN chains[BucketOf(entries[e])][n + 1] ELSE 0
  <1> DEFINE b == BucketOf(entries[e])
             chain == chains[b]
  <1>1. entries[e] \in MapEntry
    BY ElementOfSeq DEF ChainsInv, MapTypeOK
  <1>2. b \in Bucket
    BY <1>1, BucketOfEntry
  <1>3. DOMAIN chain = 1..Len(chain)
    BY <1>2, LenProperties DEF ChainsInv, MapTypeOK
  <1>4. \A m \in DOMAIN chain : chain[m] = e => m = n
    BY <1>2, <1>3 DEF ChainsInv, Linked, LinkedIn
  <1> DEFINE p == CHOOSE m \in DOMAIN chain : chain[m] = e
  <1>5. NextOf(e) = IF p < Len(chain) THEN chain[p + 1] ELSE 0
    BY DEF NextOf, BucketOf
  <1>6. p = n
    BY <1>3, <1>4
  <1> HIDE DEF p
  <1> QED
    BY <1>5, <1>6

LEMMA IterStart == string_map_init => IterInv
  <1> SUFFICES ASSUME string_map_init PROVE IterInv
    OBVIOUS
  <1>1. /\ entries = <<>> /\ visited = <<>> /\ iter = NoIter
    BY DEF string_map_init
  <1>2. NoIter \in [bucket : 0..Buckets, entry : 0..Len(entries)]
    BY <1>1, KeyAssumption, EmptySeq DEF NoIter
  <1>3. visited \in Seq(1..Len(entries)) /\ IsInjective(visited)
    BY <1>1, EmptySeq DEF IsInjective
  <1> QED
    BY <1>1, <1>2, <1>3 DEF IterInv, Iterating, NoIter

(* On to the next entry of the chain. *)
LEMMA IterAlong ==
  ASSUME ChainsInv, IterInv, iter.entry # 0, NextOf(iter.entry) # 0,
         NEW b \in Bucket, b = BucketOf(entries[iter.entry]),
         iter' = [iter EXCEPT !.entry = NextOf(iter.entry)],
         visited' = Append(visited, NextOf(iter.entry)), UNCHANGED <<chains, entries>>
  PROVE  IterInv'
  <1> DEFINE e == iter.entry
             next == NextOf(e)
  <1>1. /\ Len(entries) \in Nat /\ entries \in Seq(MapEntry)
        /\ e \in 1..Len(entries)
        /\ iter = [bucket |-> iter.bucket, entry |-> e] /\ iter.bucket \in 0..Buckets
    BY DEF ChainsInv, MapTypeOK, IterInv
  <1>2. b \in Bucket
    OBVIOUS
  <1>3. iter.bucket = b + 1
    BY DEF IterInv
  <1>4. PICK n \in 1..Len(chains[b]) :
          /\ chains[b][n] = e
          /\ \A i \in 1..Len(entries) : i \in Range(visited) <=> UpTo(i, b, n)
    BY DEF IterInv
  <1>5. Len(chains[b]) \in Nat
    BY <1>2 DEF ChainsInv, MapTypeOK
  <1>6. n < Len(chains[b]) /\ next = chains[b][n + 1]
    BY <1>1, <1>4, NextOfFacts
  <1>7. n + 1 \in 1..Len(chains[b]) /\ n \in Nat
    BY <1>5, <1>6
  <1>8. next \in 1..Len(entries) /\ BucketOf(entries[next]) = b
    BY <1>2, <1>6, <1>7 DEF ChainsInv, Linked, LinkedIn
  <1>9. next \notin Range(visited)
    <2>1. ~(b < b)
      BY <1>2 DEF Bucket
    <2>2. \A m \in 1..n : m \in 1..Len(chains[b]) /\ m # n + 1
      BY <1>5, <1>7
    <2>3. \A m \in 1..n : chains[b][m] # next
      BY <1>2, <1>6, <1>7, <2>2 DEF ChainsInv, Linked, LinkedIn
    <2> QED
      BY <1>4, <1>8, <2>1, <2>3 DEF UpTo
  <1>10. iter' = [bucket |-> iter.bucket, entry |-> next]
    BY <1>1
  <1> HIDE DEF next, e
  <1>11. /\ visited' \in Seq(1..Len(entries)) /\ IsInjective(visited')
         /\ Range(visited') = Range(visited) \cup {next}
    BY <1>8, <1>9, VisitOne DEF IterInv, next, e
  <1>12. ASSUME NEW i \in 1..Len(entries)
         PROVE  i \in Range(visited') <=>
                  BucketOf(entries[i]) < b \/ \E m \in 1..n + 1 : chains[b][m] = i
    <2>1. i \in Range(visited) <=>
            BucketOf(entries[i]) < b \/ \E m \in 1..n : chains[b][m] = i
      BY <1>4 DEF UpTo
    <2>2. (\E m \in 1..n + 1 : chains[b][m] = i)
            <=> (\E m \in 1..n : chains[b][m] = i) \/ i = next
      BY <1>6, <1>7
    <2> QED
      BY <1>11, <2>1, <2>2
  <1>13. Iterating' /\ iter'.entry # 0
    BY <1>8, <1>10 DEF Iterating, NoIter
  <1>14. iter' \in [bucket : 0..Buckets, entry : 0..Len(entries')]
    BY <1>1, <1>8, <1>10
  <1>15. /\ BucketOf(entries'[iter'.entry]) = b /\ iter'.bucket = b + 1
         /\ chains'[b][n + 1] = iter'.entry
    BY <1>3, <1>6, <1>8, <1>10
  <1>16. \E m \in 1..Len(chains'[b]) :
           /\ chains'[b][m] = iter'.entry
           /\ \A i \in 1..Len(entries') : i \in Range(visited') <=> UpTo(i, b, m)'
    BY <1>7, <1>12, <1>15 DEF UpTo
  <1> QED
    BY <1>11, <1>13, <1>14, <1>15, <1>16, Zenon DEF IterInv

(* A chain is at its end: what lies before the next bucket has been visited. *)
LEMMA ChainDone ==
  ASSUME ChainsInv, IterInv, Iterating, iter.entry # 0 => NextOf(iter.entry) = 0
  PROVE  \A i \in 1..Len(entries) :
           i \in Range(visited) <=> BucketOf(entries[i]) < iter.bucket
  <1>1. \A i \in 1..Len(entries) : BucketOf(entries[i]) \in Bucket
    BY ElementOfSeq, BucketOfEntry DEF ChainsInv, MapTypeOK
  <1>2. CASE iter.entry = 0
    <2>1. iter.bucket = 0 /\ Range(visited) = {}
      BY <1>2, EmptySeq DEF IterInv, Range
    <2> QED
      BY <1>1, <2>1 DEF Bucket
  <1>3. CASE iter.entry # 0
    <2> DEFINE e == iter.entry
               b == BucketOf(entries[e])
    <2>1. e \in 1..Len(entries) /\ iter.bucket = b + 1
      BY <1>3 DEF IterInv, ChainsInv, MapTypeOK
    <2>2. b \in Bucket
      BY <1>1, <2>1
    <2>3. PICK n \in 1..Len(chains[b]) :
            /\ chains[b][n] = e
            /\ \A i \in 1..Len(entries) : i \in Range(visited) <=> UpTo(i, b, n)
      BY <1>3 DEF IterInv
    <2>4. n = Len(chains[b])
      <3>1. ASSUME n < Len(chains[b]) PROVE FALSE
        <4>1. n + 1 \in 1..Len(chains[b])
          BY <3>1
        <4>2. NextOf(e) = chains[b][n + 1]
          BY <2>1, <2>3, <3>1, NextOfFacts
        <4>3. chains[b][n + 1] \in 1..Len(entries)
          BY <2>2, <4>1 DEF ChainsInv, Linked, LinkedIn
        <4> QED
          BY <1>3, <4>2, <4>3
      <3>2. Len(chains[b]) \in Nat
        BY <2>2 DEF ChainsInv, MapTypeOK
      <3> QED
        BY <3>1, <3>2
    <2>5. ASSUME NEW i \in 1..Len(entries)
          PROVE  UpTo(i, b, n) <=> BucketOf(entries[i]) < b + 1
      <3>1. BucketOf(entries[i]) < b + 1
              <=> BucketOf(entries[i]) < b \/ BucketOf(entries[i]) = b
        BY <1>1, <2>2 DEF Bucket
      <3>2. (\E m \in 1..n : chains[b][m] = i) <=> BucketOf(entries[i]) = b
        BY <2>2, <2>4 DEF ChainsInv, Linked, LinkedIn
      <3> QED
        BY <3>1, <3>2 DEF UpTo
    <2> QED
      BY <2>1, <2>3, <2>5
  <1> QED
    BY <1>2, <1>3

(* On to the next bucket that is not empty. *)
LEMMA IterToBucket ==
  ASSUME ChainsInv, IterInv, NEW r \in Bucket, chains[r] # <<>>, iter.bucket <= r,
         \A b \in Bucket : iter.bucket <= b /\ chains[b] # <<>> => r <= b,
         \A i \in 1..Len(entries) :
           i \in Range(visited) <=> BucketOf(entries[i]) < iter.bucket,
         iter' = [bucket |-> r + 1, entry |-> Head(chains[r])],
         visited' = Append(visited, Head(chains[r])), UNCHANGED <<chains, entries>>
  PROVE  IterInv'
  <1> DEFINE next == Head(chains[r])
  <1>1. chains[r] \in Seq(Nat) /\ 1 \in 1..Len(chains[r]) /\ next = chains[r][1]
    BY EmptySeq DEF ChainsInv, MapTypeOK
  <1>2. next \in 1..Len(entries) /\ BucketOf(entries[next]) = r
    BY <1>1 DEF ChainsInv, Linked, LinkedIn
  <1>3. iter.bucket \in 0..Buckets /\ r \in 0..Buckets - 1 /\ Buckets \in Nat
    BY KeyAssumption DEF IterInv, Bucket
  <1>4. next \notin Range(visited)
    BY <1>2, <1>3
  <1> HIDE DEF next
  <1>5. /\ visited' \in Seq(1..Len(entries)) /\ IsInjective(visited')
        /\ Range(visited') = Range(visited) \cup {next}
    BY <1>2, <1>4, VisitOne DEF IterInv, next
  <1>6. ASSUME NEW i \in 1..Len(entries)
        PROVE  i \in Range(visited') <=>
                 BucketOf(entries[i]) < r \/ \E m \in 1..1 : chains[r][m] = i
    <2>1. entries[i] \in MapEntry
      BY ElementOfSeq DEF ChainsInv, MapTypeOK
    <2>2. BucketOf(entries[i]) \in Bucket
      BY <2>1, BucketOfEntry
    <2>3. chains[BucketOf(entries[i])] # <<>>
      <3>1. PICK n \in 1..Len(chains[BucketOf(entries[i])]) : TRUE
        BY DEF ChainsInv, Linked, LinkedIn
      <3> QED
        BY <3>1, EmptySeq
    <2>4. BucketOf(entries[i]) < r <=> BucketOf(entries[i]) < iter.bucket
      BY <1>3, <2>2, <2>3 DEF Bucket
    <2>5. (\E m \in 1..1 : chains[r][m] = i) <=> i = next
      BY <1>1 DEF next
    <2> QED
      BY <1>5, <2>4, <2>5
  <1>7. iter' = [bucket |-> r + 1, entry |-> next]
    BY DEF next
  <1>8. Iterating' /\ iter'.entry # 0
    BY <1>2, <1>7 DEF Iterating, NoIter
  <1>9. iter' \in [bucket : 0..Buckets, entry : 0..Len(entries')]
    BY <1>2, <1>3, <1>7
  <1>10. /\ BucketOf(entries'[iter'.entry]) = r /\ iter'.bucket = r + 1
         /\ chains'[r][1] = iter'.entry
    BY <1>1, <1>2, <1>7 DEF next
  <1>11. \E m \in 1..Len(chains'[r]) :
           /\ chains'[r][m] = iter'.entry
           /\ \A i \in 1..Len(entries') : i \in Range(visited') <=> UpTo(i, r, m)'
    BY <1>1, <1>6, <1>10 DEF UpTo
  <1> QED
    BY <1>5, <1>8, <1>9, <1>10, <1>11, Zenon DEF IterInv

(* The last bucket is done: all has been visited. *)
LEMMA IterToEnd ==
  ASSUME ChainsInv, IterInv,
         \A b \in Bucket : iter.bucket <= b => chains[b] = <<>>,
         \A i \in 1..Len(entries) :
           i \in Range(visited) <=> BucketOf(entries[i]) < iter.bucket,
         iter' = NoIter, visited' = visited, UNCHANGED <<chains, entries>>
  PROVE  IterInv' /\ Range(visited') = 1..Len(entries)
  <1>1. ASSUME NEW i \in 1..Len(entries) PROVE i \in Range(visited)
    <2>1. entries[i] \in MapEntry
      BY ElementOfSeq DEF ChainsInv, MapTypeOK
    <2>2. BucketOf(entries[i]) \in Bucket
      BY <2>1, BucketOfEntry
    <2>3. chains[BucketOf(entries[i])] # <<>>
      <3>1. PICK n \in 1..Len(chains[BucketOf(entries[i])]) : TRUE
        BY DEF ChainsInv, Linked, LinkedIn
      <3> QED
        BY <3>1, EmptySeq
    <2>4. iter.bucket \in Int /\ BucketOf(entries[i]) \in Int
      BY <2>2 DEF IterInv, Bucket
    <2> QED
      BY <2>2, <2>3, <2>4
  <1>2. Range(visited) = 1..Len(entries)
    BY <1>1, RangeOfSeq DEF IterInv
  <1>3. NoIter \in [bucket : 0..Buckets, entry : 0..Len(entries)]
    BY KeyAssumption DEF NoIter, ChainsInv, MapTypeOK
  <1> QED
    BY <1>2, <1>3 DEF IterInv, Iterating, NoIter

(* NULL is returned when every entry has been visited, and ends it. *)
IterEnds == iter'.entry = 0 => iter' = NoIter /\ Range(visited') = 1..Len(entries)

LEMMA IterNextKeeps ==
  ASSUME ChainsInv, IterInv, string_map_iter_next
  PROVE  IterInv' /\ IterEnds
  <1> DEFINE next == IF iter.entry = 0 THEN 0 ELSE NextOf(iter.entry)
             rest == {b \in iter.bucket..Buckets - 1 : chains[b] # <<>>}
  <1>1. /\ iter.bucket \in 0..Buckets /\ Buckets \in Nat \ {0}
        /\ iter.entry \in 0..Len(entries)
    BY KeyAssumption DEF IterInv
  <1>2. Iterating
    BY <1>1 DEF string_map_iter_next, Iterating, NoIter
  <1>3. /\ next # 0 => iter' = [iter EXCEPT !.entry = next]
        /\ next = 0 /\ rest # {} =>
             iter' = [bucket |-> NextBucket(Min(rest)), entry |-> Head(chains[Min(rest)])]
        /\ next = 0 /\ rest = {} => iter' = NoIter
    BY Zenon DEF string_map_iter_next
  <1>4. /\ visited' = IF iter'.entry = 0 THEN visited ELSE Append(visited, iter'.entry)
        /\ UNCHANGED <<chains, entries>>
    BY DEF string_map_iter_next
  <1>5. CASE next # 0
    <2>1. iter.entry # 0 /\ next = NextOf(iter.entry)
      BY <1>5
    <2>2. iter.entry \in 1..Len(entries)
      BY <1>1, <2>1 DEF ChainsInv, MapTypeOK
    <2>3. BucketOf(entries[iter.entry]) \in Bucket
      BY <2>2, ElementOfSeq, BucketOfEntry DEF ChainsInv, MapTypeOK
    <2>4. iter' = [iter EXCEPT !.entry = next]
      BY <1>3, <1>5
    <2>5. iter'.entry = next
      <3>1. iter = [bucket |-> iter.bucket, entry |-> iter.entry]
        BY DEF IterInv
      <3> HIDE DEF next
      <3> QED
        BY <2>4, <3>1
    <2>6. visited' = Append(visited, next)
      BY <1>4, <1>5, <2>5
    <2>7. IterEnds
      BY <1>5, <2>5 DEF IterEnds
    <2> HIDE DEF next
    <2> QED
      BY <1>4, <1>5, <2>1, <2>3, <2>4, <2>6, <2>7, IterAlong
  <1>6. CASE next = 0
    <2>1. iter.entry # 0 => NextOf(iter.entry) = 0
      BY <1>6
    <2>2. \A i \in 1..Len(entries) :
            i \in Range(visited) <=> BucketOf(entries[i]) < iter.bucket
      BY <1>2, <2>1, ChainDone
    <2> HIDE DEF next
    <2>3. CASE rest = {}
      <3>1. \A b \in Bucket : iter.bucket <= b => chains[b] = <<>>
        BY <1>1, <2>3 DEF Bucket
      <3>2. iter' = NoIter /\ visited' = visited
        BY <1>3, <1>4, <1>6, <2>3 DEF NoIter
      <3> QED
        BY <1>4, <2>2, <3>1, <3>2, IterToEnd DEF IterEnds
    <2>4. CASE rest # {}
      <3>1. rest \subseteq Nat
        BY <1>1
      <3>2. \A b : b \in rest <=> b \in Bucket /\ iter.bucket <= b /\ chains[b] # <<>>
        BY <1>1 DEF Bucket
      <3>3. /\ iter' = [bucket |-> Min(rest) + 1, entry |-> Head(chains[Min(rest)])]
        BY <1>3, <1>6, <2>4 DEF NextBucket
      <3> HIDE DEF rest
      <3>4. PICK r : r = Min(rest)
        OBVIOUS
      <3>5. r \in rest /\ \A b \in rest : r <= b
        BY <2>4, <3>1, <3>4, MinFacts
      <3>6. r \in Bucket /\ iter.bucket <= r /\ chains[r] # <<>>
        BY <3>2, <3>5
      <3>7. Head(chains[r]) # 0
        <4>1. chains[r] \in Seq(Nat) /\ 1 \in 1..Len(chains[r])
          BY <3>6, EmptySeq DEF ChainsInv, MapTypeOK
        <4>2. chains[r][1] \in 1..Len(entries)
          BY <3>6, <4>1 DEF ChainsInv, Linked, LinkedIn
        <4> QED
          BY <4>1, <4>2
      <3>8. visited' = Append(visited, Head(chains[r]))
        BY <1>4, <3>3, <3>4, <3>7
      <3>9. \A b \in Bucket : iter.bucket <= b /\ chains[b] # <<>> => r <= b
        BY <3>2, <3>5
      <3>10. IterEnds
        BY <3>3, <3>4, <3>7 DEF IterEnds
      <3> QED
        BY <1>4, <2>2, <3>3, <3>4, <3>6, <3>8, <3>9, <3>10, IterToBucket
    <2> QED
      BY <2>3, <2>4
  <1> QED
    BY <1>5, <1>6

LEMMA IterBeginKeeps ==
  ASSUME ChainsInv, string_map_iter_begin
  PROVE  IterInv'
  <1>1. /\ iter' = [bucket |-> 0, entry |-> 0] /\ visited' = <<>>
        /\ UNCHANGED <<chains, entries>>
    BY DEF string_map_iter_begin
  <1>2. iter' \in [bucket : 0..Buckets, entry : 0..Len(entries')]
    BY <1>1, KeyAssumption DEF ChainsInv, MapTypeOK
  <1>3. visited' \in Seq(1..Len(entries')) /\ IsInjective(visited')
    BY <1>1, EmptySeq DEF IsInjective
  <1>4. Iterating'
    BY <1>1, KeyAssumption DEF Iterating, NoIter
  <1> QED
    BY <1>1, <1>2, <1>3, <1>4 DEF IterInv

(* Nothing is remembered of an iteration before a put or a get. *)
LEMMA IdleKeepsIter ==
  ASSUME ChainsInv', ~Iterating, UNCHANGED iter, visited' = <<>>
  PROVE  IterInv'
  <1>1. iter' = NoIter
    BY DEF Iterating
  <1>2. NoIter \in [bucket : 0..Buckets, entry : 0..Len(entries')]
    BY KeyAssumption DEF NoIter, ChainsInv, MapTypeOK
  <1>3. visited' \in Seq(1..Len(entries')) /\ IsInjective(visited')
    BY EmptySeq DEF IsInjective
  <1> QED
    BY <1>1, <1>2, <1>3 DEF IterInv, Iterating, NoIter

LEMMA IterVisits == ChainsInv /\ IterInv => VisitsEachOnce
  BY LenProperties DEF ChainsInv, MapTypeOK, IterInv, VisitsEachOnce

-----------------------------------------------------------------------------
(* The map by itself: chains and iteration, however the buffer moves. *)

MapInv == ChainsInv /\ IterInv

LEMMA MapStart == string_map_init => MapInv
  BY ChainsStart, IterStart DEF MapInv

LEMMA IterNextChains ==
  ChainsInv /\ (string_map_iter_next \/ string_map_iter_begin) => ChainsInv'
  BY SameKeepsChains DEF string_map_iter_next, string_map_iter_begin

(* A put or a get between iterations, whoever makes it. *)
LEMMA CallKeepsMap ==
  ASSUME MapInv, ~Iterating, UNCHANGED iter, visited' = <<>>, NEW k \in Key,
         string_map_get(k) \/ \E v \in Value : string_map_put(k, v)
  PROVE  MapInv'
  <1>1. ChainsInv'
    BY PutKeepsChains, SameKeepsChains DEF string_map_get, MapInv
  <1> QED
    BY <1>1, IdleKeepsIter DEF MapInv

LEMMA IterateKeepsMap ==
  MapInv /\ (string_map_iter_next \/ string_map_iter_begin) => MapInv'
  BY IterNextChains, IterNextKeeps, IterBeginKeeps DEF MapInv

LEMMA SameKeepsMap == MapInv /\ UNCHANGED vars => MapInv'
  <1> SUFFICES ASSUME MapInv, UNCHANGED vars PROVE MapInv'
    OBVIOUS
  <1>1. ChainsInv'
    BY SameKeepsChains DEF vars, MapInv
  <1>2. chains' = chains /\ entries' = entries /\ iter' = iter /\ visited' = visited
    BY DEF vars
  <1>3. IterInv
    BY DEF MapInv
  <1>4. /\ iter' \in [bucket : 0..Buckets, entry : 0..Len(entries')]
        /\ visited' \in Seq(1..Len(entries'))
        /\ IsInjective(visited')
    BY <1>2, <1>3 DEF IterInv
  <1>5. /\ ~Iterating' => visited' = <<>> \/ Range(visited') = 1..Len(entries')
        /\ Iterating' /\ iter'.entry = 0 => iter'.bucket = 0 /\ visited' = <<>>
    BY <1>2, <1>3 DEF IterInv, Iterating
  <1>6. iter'.entry # 0 =>
          LET b == BucketOf(entries'[iter'.entry])
          IN /\ iter'.bucket = b + 1
             /\ \E n \in 1..Len(chains'[b]) :
                  /\ chains'[b][n] = iter'.entry
                  /\ \A i \in 1..Len(entries') :
                       i \in Range(visited') <=>
                         \/ BucketOf(entries'[i]) < b
                         \/ \E m \in 1..n : chains'[b][m] = i
    <2>1. iter.entry # 0 =>
            LET b == BucketOf(entries[iter.entry])
            IN /\ iter.bucket = b + 1
               /\ \E n \in 1..Len(chains[b]) :
                    /\ chains[b][n] = iter.entry
                    /\ \A i \in 1..Len(entries) :
                         i \in Range(visited) <=>
                           \/ BucketOf(entries[i]) < b
                           \/ \E m \in 1..n : chains[b][m] = i
      BY <1>3, Zenon DEF IterInv, UpTo
    <2> QED
      BY <1>2, <2>1
  <1>7. IterInv'
    BY <1>4, <1>5, <1>6, Zenon DEF IterInv, UpTo
  <1> QED
    BY <1>1, <1>7 DEF MapInv

LEMMA MapStep == MapInv /\ [Next]_vars => MapInv'
  BY CallKeepsMap, IterateKeepsMap, SameKeepsMap DEF Next

-----------------------------------------------------------------------------
(* The keys, while the buffer stays where it is. *)

Unmoved == buffer.array = 0

(* keys[i] is the key that the i-th of the entries es was made for, and what *)
(* its pointer points at in data; no key was entered twice.                 *)
EnteredIn(keys, es, data) ==
  /\ keys \in Seq(Key) /\ Len(keys) = Len(es)
  /\ \A i, j \in 1..Len(keys) : keys[i] = keys[j] => i = j
  /\ \A i \in 1..Len(keys) :
       /\ es[i].hash = Hash[keys[i]]
       /\ es[i].key.array = 0
       /\ es[i].key.len = Length[keys[i]]
       /\ es[i].key.offset + Length[keys[i]] <= Len(data)
       /\ SubSeq(data, es[i].key.offset + 1, es[i].key.offset + es[i].key.len)
            = Text(keys[i])

Entered(keys) == EnteredIn(keys, entries, buffer.data)

KeysInv == \E keys : Entered(keys)

(* The dictionary of the entries es over the characters data. *)
DictOf(es, data) ==
  [k \in Key |->
     LET made == {i \in DOMAIN es :
                    SubSeq(data, es[i].key.offset + 1, es[i].key.offset + es[i].key.len)
                      = Text(k)}
     IN IF made = {} THEN None ELSE es[Min(made)].value]

LEMMA TextInjective ==
  ASSUME NEW j \in Key, NEW k \in Key, Text(j) = Text(k)
  PROVE  j = k
  <1>1. Length[j] = Length[k] /\ Length[k] \in Nat
    BY TextFacts
  <1>2. CASE Length[k] = 0
    BY <1>1, <1>2, KeyAssumption
  <1>3. CASE Length[k] # 0
    <2>1. 1 \in 1..Length[k] /\ 1 \in 1..Length[j]
      BY <1>1, <1>3
    <2>2. Text(j)[1] = <<j, 1>> /\ Text(k)[1] = <<k, 1>>
      BY <2>1 DEF Text
    <2> QED
      BY <2>2
  <1> QED
    BY <1>2, <1>3

(* A key is found at the entry that was made for it. *)
LEMMA DictFacts ==
  ASSUME NEW es \in Seq(MapEntry), NEW data, NEW keys, EnteredIn(keys, es, data)
  PROVE  /\ DictOf(es, data) = [k \in Key |-> DictOf(es, data)[k]]
         /\ \A i \in 1..Len(es) : DictOf(es, data)[keys[i]] = es[i].value
         /\ \A k \in Key : (\A i \in 1..Len(es) : keys[i] # k) => DictOf(es, data)[k] = None
  <1> DEFINE made(k) == {i \in DOMAIN es :
                           SubSeq(data, es[i].key.offset + 1,
                                  es[i].key.offset + es[i].key.len) = Text(k)}
  <1>1. DOMAIN es = 1..Len(es) /\ Len(es) \in Nat
    BY LenProperties
  <1>2. \A i \in 1..Len(es) : keys[i] \in Key
    BY ElementOfSeq DEF EnteredIn
  <1>3. \A k \in Key : made(k) = {i \in 1..Len(es) : keys[i] = k}
    <2> SUFFICES ASSUME NEW k \in Key, NEW i \in 1..Len(es)
                 PROVE  i \in made(k) <=> keys[i] = k
      BY <1>1
    <2>1. SubSeq(data, es[i].key.offset + 1, es[i].key.offset + es[i].key.len)
            = Text(keys[i])
      BY DEF EnteredIn
    <2>2. i \in made(k) <=> Text(keys[i]) = Text(k)
      BY <1>1, <2>1
    <2> HIDE DEF made
    <2> QED
      BY <1>2, <2>2, TextInjective
  <1>4. \A k \in Key : DictOf(es, data)[k] =
          IF made(k) = {} THEN None ELSE es[Min(made(k))].value
    BY DEF DictOf
  <1> HIDE DEF made
  <1>5. ASSUME NEW i \in 1..Len(es) PROVE DictOf(es, data)[keys[i]] = es[i].value
    <2>1. made(keys[i]) = {i}
      BY <1>2, <1>3 DEF EnteredIn
    <2>2. i \in Nat
      BY <1>1
    <2>3. Min({i}) \in {i}
      BY <2>2, MinFacts
    <2> QED
      BY <1>2, <1>4, <2>1, <2>3
  <1>6. ASSUME NEW k \in Key, \A i \in 1..Len(es) : keys[i] # k
        PROVE  DictOf(es, data)[k] = None
    BY <1>3, <1>4, <1>6
  <1>7. DictOf(es, data) = [k \in Key |-> DictOf(es, data)[k]]
    BY DEF DictOf
  <1> QED
    BY <1>5, <1>6, <1>7

(* An entry matches the key it was made for and no other. *)
LEMMA MatchesItsKey ==
  ASSUME ChainsInv, Unmoved, NEW keys, Entered(keys),
         NEW k \in Key, NEW reading, NEW i \in 1..Len(entries)
  PROVE  Matches(i, k, reading) <=> keys[i] = k
  <1>1. keys[i] \in Key
    BY ElementOfSeq DEF Entered, EnteredIn
  <1>2. /\ ~Stale(i) /\ Pointed(entries[i].key) = Text(keys[i])
        /\ entries[i].hash = Hash[keys[i]] /\ entries[i].key.len = Length[keys[i]]
    BY DEF Entered, EnteredIn, Stale, Pointed, Unmoved
  <1> QED
    BY <1>1, <1>2, TextInjective DEF Matches, string_eq

LEMMA SubSeqOfFirst ==
  ASSUME NEW S, NEW s \in Seq(S), NEW t \in Seq(S), NEW o \in Nat, NEW l \in Nat,
         o + l <= Len(s)
  PROVE  SubSeq(s \o t, o + 1, o + l) = SubSeq(s, o + 1, o + l)
  <1>1. /\ Len(s) \in Nat /\ Len(t) \in Nat /\ s \o t \in Seq(S)
        /\ \A i \in 1..Len(s) : (s \o t)[i] = s[i] /\ s[i] \in S
    BY ConcatProperties, ElementOfSeq
  <1> DEFINE u == s \o t
             m == o + 1
             n == o + l
  <1>2. m \in Int /\ n \in Int /\ \A i \in m..n : u[i] = s[i] /\ s[i] \in S
    BY <1>1
  <1> HIDE DEF u, m, n
  <1>3. /\ SubSeq(s, m, n) \in Seq(S)
        /\ Len(SubSeq(s, m, n)) = IF m <= n THEN n - m + 1 ELSE 0
        /\ \A i \in 1..n - m + 1 : SubSeq(s, m, n)[i] = s[m + i - 1]
    BY <1>2, SubSeqProperties
  <1>4. /\ SubSeq(u, m, n) \in Seq(S)
        /\ Len(SubSeq(u, m, n)) = IF m <= n THEN n - m + 1 ELSE 0
        /\ \A i \in 1..n - m + 1 : SubSeq(u, m, n)[i] = u[m + i - 1]
    BY <1>2, SubSeqProperties
  <1>5. ASSUME NEW i \in 1..Len(SubSeq(u, m, n))
        PROVE  SubSeq(u, m, n)[i] = SubSeq(s, m, n)[i]
    <2>1. i \in 1..n - m + 1 /\ m + i - 1 \in m..n
      BY <1>2, <1>4
    <2> QED
      BY <1>2, <1>3, <1>4, <2>1
  <1>6. SubSeq(u, m, n) = SubSeq(s, m, n)
    BY <1>3, <1>4, <1>5, SeqEqual
  <1> QED
    BY <1>6 DEF u, m, n

LEMMA SubSeqOfSecond ==
  ASSUME NEW S, NEW s \in Seq(S), NEW t \in Seq(S)
  PROVE  SubSeq(s \o t, Len(s) + 1, Len(s) + Len(t)) = t
  <1>1. /\ Len(s) \in Nat /\ Len(t) \in Nat /\ s \o t \in Seq(S)
        /\ \A i \in 1..Len(t) : (s \o t)[Len(s) + i] = t[i] /\ t[i] \in S
    <2>1. /\ Len(s) \in Nat /\ Len(t) \in Nat /\ s \o t \in Seq(S)
          /\ \A i \in 1..Len(s) + Len(t) : (s \o t)[i] =
               IF i <= Len(s) THEN s[i] ELSE t[i - Len(s)]
      BY ConcatProperties
    <2>2. \A i \in 1..Len(t) : t[i] \in S
      BY ElementOfSeq
    <2> QED
      BY <2>1, <2>2
  <1> DEFINE u == s \o t
             m == Len(s) + 1
             n == Len(s) + Len(t)
  <1>2. /\ m \in Int /\ n \in Int /\ n - m + 1 = Len(t) /\ (m <= n <=> Len(t) > 0)
        /\ \A i \in 1..Len(t) : u[m + i - 1] = t[i]
    BY <1>1
  <1>3. \A i \in m..n : u[i] \in S
    <2> SUFFICES ASSUME NEW i \in m..n PROVE u[i] \in S
      OBVIOUS
    <2>1. i - Len(s) \in 1..Len(t) /\ Len(s) + (i - Len(s)) = i
      BY <1>1
    <2> QED
      BY <1>1, <2>1
  <1> HIDE DEF u, m, n
  <1>4. /\ SubSeq(u, m, n) \in Seq(S)
        /\ Len(SubSeq(u, m, n)) = IF m <= n THEN n - m + 1 ELSE 0
        /\ \A i \in 1..n - m + 1 : SubSeq(u, m, n)[i] = u[m + i - 1]
    BY <1>2, <1>3, SubSeqProperties
  <1>5. Len(SubSeq(u, m, n)) = Len(t)
    BY <1>1, <1>2, <1>4
  <1>6. \A i \in 1..Len(SubSeq(u, m, n)) : SubSeq(u, m, n)[i] = t[i]
    BY <1>2, <1>4, <1>5
  <1>7. SubSeq(u, m, n) = t
    BY <1>4, <1>5, <1>6, SeqEqual
  <1> QED
    BY <1>7 DEF u, m, n

LEMMA EnterAtEnd ==
  ASSUME NEW es \in Seq(MapEntry), NEW data \in Seq(Key \X Nat), NEW keys,
         EnteredIn(keys, es, data), NEW k \in Key, \A i \in 1..Len(es) : keys[i] # k,
         NEW es2, Len(es2) = Len(es) + 1,
         \A i \in 1..Len(es) : es2[i] = es[i],
         NEW v, es2[Len(es) + 1] =
                  [hash |-> Hash[k], value |-> v,
                   key |-> [array |-> 0, len |-> Length[k], offset |-> Len(data)]]
  PROVE  EnteredIn(Append(keys, k), es2, data \o Text(k))
  <1> DEFINE n == Len(es)
             keys2 == Append(keys, k)
             data2 == data \o Text(k)
  <1>1. /\ keys2 \in Seq(Key) /\ Len(keys2) = n + 1 /\ n \in Nat
        /\ \A i \in 1..n : keys2[i] = keys[i]
        /\ keys2[n + 1] = k
    BY AppendProperties DEF EnteredIn
  <1>2. /\ Text(k) \in Seq(Key \X Nat) /\ Len(Text(k)) = Length[k]
        /\ Len(data) \in Nat /\ Length[k] \in Nat
    BY TextFacts
  <1>3. Len(data2) = Len(data) + Length[k]
    <2>1. Len(data \o Text(k)) = Len(data) + Len(Text(k))
      BY <1>2, ConcatProperties, Zenon
    <2> QED
      BY <1>2, <2>1
  <1>4. \A i \in 1..n : es[i].key.offset \in Nat /\ Length[keys[i]] \in Nat
                        /\ es[i].key.len = Length[keys[i]]
    <2> SUFFICES ASSUME NEW i \in 1..n
                 PROVE  es[i].key.offset \in Nat /\ Length[keys[i]] \in Nat
                        /\ es[i].key.len = Length[keys[i]]
      OBVIOUS
    <2>1. es[i] \in MapEntry
      BY ElementOfSeq
    <2>2. keys[i] \in Key /\ es[i].key.len = Length[keys[i]]
      BY ElementOfSeq DEF EnteredIn
    <2> QED
      BY <2>1, <2>2, KeyAssumption DEF MapEntry
  <1>5. \A i \in 1..n + 1 : i \in 1..n \/ i = n + 1
    BY <1>1
  <1>6. \A i, j \in 1..n + 1 : keys2[i] = keys2[j] => i = j
    BY <1>1, <1>5 DEF EnteredIn
  <1>7. ASSUME NEW i \in 1..n
        PROVE  /\ es2[i].hash = Hash[keys2[i]]
               /\ es2[i].key.array = 0
               /\ es2[i].key.len = Length[keys2[i]]
               /\ es2[i].key.offset + Length[keys2[i]] <= Len(data2)
               /\ SubSeq(data2, es2[i].key.offset + 1, es2[i].key.offset + es2[i].key.len)
                    = Text(keys2[i])
    <2>1. /\ es[i].hash = Hash[keys[i]] /\ es[i].key.array = 0
          /\ es[i].key.len = Length[keys[i]]
          /\ es[i].key.offset + Length[keys[i]] <= Len(data)
          /\ SubSeq(data, es[i].key.offset + 1, es[i].key.offset + es[i].key.len)
               = Text(keys[i])
      BY DEF EnteredIn
    <2>2. SubSeq(data2, es[i].key.offset + 1, es[i].key.offset + es[i].key.len)
            = Text(keys[i])
      BY <1>2, <1>4, <2>1, SubSeqOfFirst
    <2>3. es[i].key.offset + Length[keys[i]] <= Len(data2)
      BY <1>2, <1>3, <1>4, <2>1
    <2> QED
      BY <1>1, <2>1, <2>2, <2>3
  <1>8. /\ es2[n + 1].hash = Hash[keys2[n + 1]]
        /\ es2[n + 1].key.array = 0
        /\ es2[n + 1].key.len = Length[keys2[n + 1]]
        /\ es2[n + 1].key.offset + Length[keys2[n + 1]] <= Len(data2)
        /\ SubSeq(data2, es2[n + 1].key.offset + 1,
                  es2[n + 1].key.offset + es2[n + 1].key.len) = Text(keys2[n + 1])
    <2>1. SubSeq(data2, Len(data) + 1, Len(data) + Length[k]) = Text(k)
      BY <1>2, SubSeqOfSecond
    <2> DEFINE e == es2[n + 1]
    <2>2. /\ e.hash = Hash[k] /\ e.key.array = 0 /\ e.key.len = Length[k]
          /\ e.key.offset = Len(data)
      OBVIOUS
    <2> HIDE DEF e, data2
    <2>3. e.key.offset + Length[k] <= Len(data2)
      BY <1>2, <1>3, <2>2
    <2> QED
      BY <1>1, <2>1, <2>2, <2>3 DEF e
  <1> HIDE DEF keys2, data2
  <1>9. EnteredIn(keys2, es2, data2)
    BY <1>1, <1>5, <1>6, <1>7, <1>8, Zenon DEF EnteredIn
  <1> QED
    BY <1>9 DEF keys2, data2

LEMMA AbstractIsDict == Abstract = DictOf(entries, buffer.data)
  BY DEF Abstract, DictOf, Pointed

LEMMA AbstractIsDictThen == Abstract' = DictOf(entries', buffer'.data)
  BY DEF Abstract, DictOf, Pointed

(* Nothing is entered at first. *)
LEMMA KeysStart == string_map_init => KeysInv /\ Promise!Init
  <1> SUFFICES ASSUME string_map_init PROVE KeysInv /\ Promise!Init
    OBVIOUS
  <1>1. entries = <<>> /\ DOMAIN entries = {} /\ call = <<>> /\ reply = None
    BY DEF string_map_init
  <1>2. <<>> \in Seq(Key) /\ Len(<<>>) = 0
    BY EmptySeq
  <1>3. Entered(<<>>)
    BY <1>1, <1>2 DEF Entered, EnteredIn
  <1>4. Abstract = [k \in Key |-> None]
    BY <1>1 DEF Abstract
  <1> QED
    BY <1>1, <1>3, <1>4 DEF KeysInv, Promise!Init

(* What a lookup finds is what the dictionary holds. *)
LEMMA FoundIsHeld ==
  ASSUME ChainsInv, Unmoved, NEW keys, Entered(keys), NEW k \in Key, NEW reading,
         NEW i, i = string_map_get_entry(k, reading)
  PROVE  /\ i \in 0..Len(entries)
         /\ i # 0 => i \in 1..Len(entries) /\ keys[i] = k
                     /\ Abstract[k] = entries[i].value
         /\ i = 0 => (\A j \in 1..Len(entries) : keys[j] # k) /\ Abstract[k] = None
  <1>1. /\ i \in 0..Len(entries)
        /\ i # 0 => Matches(i, k, reading)
        /\ i = 0 => \A j \in 1..Len(entries) : ~Matches(j, k, reading)
    BY GetEntryFacts
  <1>2. entries \in Seq(MapEntry) /\ Len(entries) \in Nat
    BY DEF ChainsInv, MapTypeOK
  <1>3. \A j \in 1..Len(entries) : Matches(j, k, reading) <=> keys[j] = k
    BY MatchesItsKey
  <1>4. /\ \A j \in 1..Len(entries) : Abstract[keys[j]] = entries[j].value
        /\ (\A j \in 1..Len(entries) : keys[j] # k) => Abstract[k] = None
    BY <1>2, AbstractIsDict, DictFacts DEF Entered
  <1>5. i # 0 => i \in 1..Len(entries)
    BY <1>1, <1>2
  <1> QED
    BY <1>1, <1>3, <1>4, <1>5

(* A put that replaces a value. *)
LEMMA ReplaceRefines ==
  ASSUME ChainsInv, NEW keys, Entered(keys),
         NEW i \in 1..Len(entries), NEW v \in Value,
         entries' = [entries EXCEPT ![i].value = v], UNCHANGED <<chains, buffer>>
  PROVE  KeysInv' /\ Abstract' = [Abstract EXCEPT ![keys[i]] = v]
  <1>1. /\ ChainsInv' /\ Len(entries') = Len(entries)
        /\ \A j \in 1..Len(entries) :
             entries'[j] = [hash |-> entries[j].hash, key |-> entries[j].key,
                            value |-> IF j = i THEN v ELSE entries[j].value]
    BY ReplaceKeepsChains
  <1>2. /\ entries \in Seq(MapEntry) /\ entries' \in Seq(MapEntry)
        /\ buffer'.data = buffer.data
    BY <1>1 DEF ChainsInv, MapTypeOK
  <1>3. EnteredIn(keys, entries', buffer.data)
    BY <1>1 DEF Entered, EnteredIn
  <1>4. KeysInv'
    BY <1>2, <1>3 DEF KeysInv, Entered
  <1> DEFINE D == DictOf(entries, buffer.data)
             D2 == DictOf(entries', buffer.data)
  <1>5. /\ D = [k \in Key |-> D[k]]
        /\ \A j \in 1..Len(entries) : D[keys[j]] = entries[j].value
        /\ \A k \in Key : (\A j \in 1..Len(entries) : keys[j] # k) => D[k] = None
    BY <1>2, DictFacts DEF Entered
  <1>6. /\ D2 = [k \in Key |-> D2[k]]
        /\ \A j \in 1..Len(entries) : D2[keys[j]] = entries'[j].value
        /\ \A k \in Key : (\A j \in 1..Len(entries) : keys[j] # k) => D2[k] = None
    <2>1. PICK es : es = entries'
      OBVIOUS
    <2>2. es \in Seq(MapEntry) /\ EnteredIn(keys, es, buffer.data) /\ Len(es) = Len(entries)
      BY <1>1, <1>2, <1>3, <2>1
    <2>3. /\ DictOf(es, buffer.data) = [k \in Key |-> DictOf(es, buffer.data)[k]]
          /\ \A j \in 1..Len(es) : DictOf(es, buffer.data)[keys[j]] = es[j].value
          /\ \A k \in Key : (\A j \in 1..Len(es) : keys[j] # k)
                            => DictOf(es, buffer.data)[k] = None
      BY <2>2, DictFacts
    <2> QED
      BY <2>1, <2>2, <2>3
  <1> HIDE DEF D, D2
  <1>7. \A j \in 1..Len(entries) :
          D2[keys[j]] = IF j = i THEN v ELSE D[keys[j]]
    <2> SUFFICES ASSUME NEW j \in 1..Len(entries)
                 PROVE  D2[keys[j]] = IF j = i THEN v ELSE D[keys[j]]
      OBVIOUS
    <2>1. entries'[j].value = IF j = i THEN v ELSE entries[j].value
      BY <1>1
    <2>2. D2[keys[j]] = entries'[j].value
      BY <1>6
    <2>3. D[keys[j]] = entries[j].value
      BY <1>5
    <2> QED
      BY <2>1, <2>2, <2>3, Zenon
  <1>8. \A k \in Key : D2[k] = IF k = keys[i] THEN v ELSE D[k]
    <2> SUFFICES ASSUME NEW k \in Key
                 PROVE  D2[k] = IF k = keys[i] THEN v ELSE D[k]
      OBVIOUS
    <2>1. CASE \E j \in 1..Len(entries) : keys[j] = k
      <3>1. PICK j \in 1..Len(entries) : keys[j] = k
        BY <2>1
      <3>2. k = keys[i] <=> j = i
        BY <3>1 DEF Entered, EnteredIn
      <3> QED
        BY <1>7, <3>1, <3>2
    <2>2. CASE \A j \in 1..Len(entries) : keys[j] # k
      BY <1>5, <1>6, <2>2
    <2> QED
      BY <2>1, <2>2
  <1>9. D2 = [D EXCEPT ![keys[i]] = v]
    BY <1>5, <1>6, <1>8
  <1>10. Abstract = D /\ Abstract' = D2
    BY <1>2, AbstractIsDict, AbstractIsDictThen DEF D, D2
  <1> QED
    BY <1>4, <1>9, <1>10

(* A put that adds an entry. *)
LEMMA AddRefines ==
  ASSUME ChainsInv, NEW keys, Entered(keys), NEW k \in Key, NEW v \in Value,
         NewEntry(k, v), NEW array \in Arrays(k), buffer' = buffer_puts(k, array),
         Unmoved', \A i \in 1..Len(entries) : keys[i] # k
  PROVE  KeysInv' /\ Abstract' = [Abstract EXCEPT ![k] = v]
  <1> DEFINE n == Len(entries)
             keys2 == Append(keys, k)
             data2 == buffer.data \o Text(k)
  <1>1. /\ ChainsInv' /\ Len(entries') = n + 1
        /\ \A j \in 1..n : entries'[j] = entries[j]
        /\ entries'[n + 1] = [hash |-> Hash[k], value |-> v,
                              key |-> [array |-> buffer'.array, len |-> Length[k],
                                       offset |-> Len(buffer.data)]]
    BY NewEntryKeepsChains
  <1>2. /\ entries \in Seq(MapEntry) /\ entries' \in Seq(MapEntry) /\ n \in Nat
        /\ buffer.data \in Seq(Key \X Nat)
        /\ buffer'.data = data2 /\ buffer'.array = 0
    BY <1>1 DEF ChainsInv, MapTypeOK, buffer_puts, Unmoved
  <1>3. EnteredIn(keys2, entries', data2)
    BY <1>1, <1>2, EnterAtEnd DEF Entered
  <1>4. KeysInv'
    BY <1>2, <1>3 DEF KeysInv, Entered
  <1> DEFINE D == DictOf(entries, buffer.data)
             D2 == DictOf(entries', data2)
  <1>5. /\ D = [j \in Key |-> D[j]]
        /\ \A i \in 1..n : D[keys[i]] = entries[i].value
        /\ \A j \in Key : (\A i \in 1..n : keys[i] # j) => D[j] = None
    BY <1>2, DictFacts DEF Entered
  <1>6. /\ D2 = [j \in Key |-> D2[j]]
        /\ \A i \in 1..n + 1 : D2[keys2[i]] = entries'[i].value
        /\ \A j \in Key : (\A i \in 1..n + 1 : keys2[i] # j) => D2[j] = None
    <2>1. PICK es : es = entries'
      OBVIOUS
    <2>2. es \in Seq(MapEntry) /\ EnteredIn(keys2, es, data2) /\ Len(es) = n + 1
      BY <1>1, <1>2, <1>3, <2>1
    <2> HIDE DEF keys2, data2
    <2>3. /\ DictOf(es, data2) = [j \in Key |-> DictOf(es, data2)[j]]
          /\ \A i \in 1..Len(es) : DictOf(es, data2)[keys2[i]] = es[i].value
          /\ \A j \in Key : (\A i \in 1..Len(es) : keys2[i] # j)
                            => DictOf(es, data2)[j] = None
      BY <2>2, DictFacts
    <2> QED
      BY <2>1, <2>2, <2>3
  <1>7. /\ \A i \in 1..n : keys2[i] = keys[i]
        /\ keys2[n + 1] = k
    BY AppendProperties DEF Entered, EnteredIn
  <1>8. Abstract = D /\ Abstract' = D2
    BY <1>2, AbstractIsDict, AbstractIsDictThen DEF D, D2
  <1> HIDE DEF D, D2, keys2, data2
  <1>9. \A j \in Key : D2[j] = IF j = k THEN v ELSE D[j]
    <2> SUFFICES ASSUME NEW j \in Key PROVE D2[j] = IF j = k THEN v ELSE D[j]
      OBVIOUS
    <2>1. CASE j = k
      <3>1. n + 1 \in 1..n + 1 /\ entries'[n + 1].value = v
        BY <1>1, <1>2
      <3> QED
        BY <1>6, <1>7, <2>1, <3>1
    <2>2. CASE j # k /\ \E i \in 1..n : keys[i] = j
      <3>1. PICK i \in 1..n : keys[i] = j
        BY <2>2
      <3>2. i \in 1..n + 1
        BY <1>2, <3>1
      <3>3. keys2[i] = j /\ entries'[i] = entries[i]
        BY <1>1, <1>7, <3>1
      <3>4. D2[j] = entries[i].value
        BY <1>6, <3>2, <3>3
      <3> QED
        BY <1>5, <2>2, <3>1, <3>4
    <2>3. CASE j # k /\ \A i \in 1..n : keys[i] # j
      <3>1. \A i \in 1..n + 1 : i \in 1..n \/ i = n + 1
        BY <1>2
      <3> QED
        BY <1>5, <1>6, <1>7, <2>3, <3>1
    <2> QED
      BY <2>1, <2>2, <2>3
  <1>10. D2 = [D EXCEPT ![k] = v]
    BY <1>5, <1>6, <1>9
  <1> QED
    BY <1>4, <1>8, <1>10

LEMMA PutRefines ==
  ASSUME ChainsInv, KeysInv, Unmoved, Unmoved', NEW k \in Key, NEW v \in Value,
         string_map_put(k, v)
  PROVE  KeysInv' /\ Promise!Put(k, v)
  <1>1. PICK keys : Entered(keys)
    BY DEF KeysInv
  <1>2. PICK reading \in Readings :
          LET i == string_map_get_entry(k, reading)
          IN IF i # 0
               THEN /\ entries' = [entries EXCEPT ![i].value = v]
                    /\ reply' = entries[i].value
                    /\ UNCHANGED <<chains, buffer>>
               ELSE /\ \E array \in Arrays(k) : buffer' = buffer_puts(k, array)
                    /\ NewEntry(k, v)
                    /\ reply' = None
    BY DEF string_map_put
  <1> DEFINE i == string_map_get_entry(k, reading)
  <1>3. /\ i # 0 => i \in 1..Len(entries) /\ keys[i] = k
                    /\ Abstract[k] = entries[i].value
        /\ i = 0 => (\A j \in 1..Len(entries) : keys[j] # k) /\ Abstract[k] = None
    BY <1>1, FoundIsHeld
  <1>4. call' = <<"put", k, v>>
    BY DEF string_map_put
  <1>5. KeysInv' /\ Abstract' = [Abstract EXCEPT ![k] = v] /\ reply' = Abstract[k]
    <2>1. CASE i # 0
      <3>1. KeysInv' /\ Abstract' = [Abstract EXCEPT ![keys[i]] = v]
        BY <1>1, <1>2, <1>3, <2>1, ReplaceRefines
      <3> QED
        BY <1>2, <1>3, <2>1, <3>1
    <2>2. CASE i = 0
      BY <1>1, <1>2, <1>3, <2>2, AddRefines
    <2> QED
      BY <2>1, <2>2
  <1> QED
    BY <1>4, <1>5 DEF Promise!Put

LEMMA SameKeepsKeys ==
  UNCHANGED <<entries, buffer>> =>
    /\ KeysInv => KeysInv'
    /\ Abstract' = Abstract
  BY AbstractIsDict, AbstractIsDictThen DEF KeysInv, Entered

LEMMA GetRefines ==
  ASSUME ChainsInv, KeysInv, Unmoved, NEW k \in Key, string_map_get(k)
  PROVE  KeysInv' /\ Promise!Get(k)
  <1>1. PICK keys : Entered(keys)
    BY DEF KeysInv
  <1>2. PICK reading \in Readings :
          LET i == string_map_get_entry(k, reading)
          IN reply' = IF i = 0 THEN None ELSE entries[i].value
    BY DEF string_map_get
  <1>3. reply' = Abstract[k]
    BY <1>1, <1>2, FoundIsHeld
  <1>4. KeysInv' /\ Abstract' = Abstract /\ call' = <<"get", k>>
    BY SameKeepsKeys DEF string_map_get
  <1> QED
    BY <1>3, <1>4 DEF Promise!Get

(* What a key pointer points at is what it pointed at before a put. *)
LEMMA PutKeepsPointed ==
  ASSUME ChainsInv, KeysInv, NEW k \in Key, NEW v \in Value, string_map_put(k, v)
  PROVE  /\ 1..Len(entries) \subseteq 1..Len(entries')
         /\ \A i \in 1..Len(entries) : Pointed(entries[i].key)' = Pointed(entries[i].key)
  <1>1. PICK reading \in Readings :
          LET i == string_map_get_entry(k, reading)
          IN IF i # 0
               THEN /\ entries' = [entries EXCEPT ![i].value = v]
                    /\ UNCHANGED <<chains, buffer>>
               ELSE /\ \E array \in Arrays(k) : buffer' = buffer_puts(k, array)
                    /\ NewEntry(k, v)
    BY DEF string_map_put
  <1> DEFINE i == string_map_get_entry(k, reading)
  <1>2. i \in 0..Len(entries)
    BY GetEntryFacts
  <1>3. Len(entries) \in Nat
    BY DEF ChainsInv, MapTypeOK
  <1>4. CASE i # 0
    <2>1. i \in 1..Len(entries)
      BY <1>2, <1>3, <1>4
    <2>2. /\ Len(entries') = Len(entries)
          /\ \A j \in 1..Len(entries) : entries'[j].key = entries[j].key
      <3> HIDE DEF i
      <3>1. entries' = [entries EXCEPT ![i].value = v] /\ UNCHANGED <<chains, buffer>>
        BY <1>1, <1>4 DEF i
      <3> QED
        BY <2>1, <3>1, ReplaceKeepsChains
    <2>3. buffer' = buffer
      BY <1>1, <1>4
    <2> QED
      BY <2>2, <2>3 DEF Pointed
  <1>5. CASE i = 0
    <2>1. PICK array \in Arrays(k) : buffer' = buffer_puts(k, array)
      BY <1>1, <1>5
    <2>2. /\ Len(entries') = Len(entries) + 1
          /\ \A j \in 1..Len(entries) : entries'[j] = entries[j]
      BY <1>1, <1>5, <2>1, NewEntryKeepsChains
    <2>3. PICK keys : Entered(keys)
      BY DEF KeysInv
    <2>4. ASSUME NEW j \in 1..Len(entries)
          PROVE  Pointed(entries[j].key)' = Pointed(entries[j].key)
      <3>1. entries[j] \in MapEntry
        BY ElementOfSeq DEF ChainsInv, MapTypeOK
      <3>2. /\ entries[j].key.offset \in Nat /\ entries[j].key.len \in Nat
            /\ entries[j].key.offset + entries[j].key.len <= Len(buffer.data)
        BY <2>3, <3>1 DEF Entered, EnteredIn, MapEntry
      <3>3. /\ buffer.data \in Seq(Key \X Nat) /\ Text(k) \in Seq(Key \X Nat)
            /\ buffer'.data = buffer.data \o Text(k)
        BY <2>1, TextFacts DEF ChainsInv, MapTypeOK, buffer_puts
      <3>4. entries'[j].key = entries[j].key
        BY <2>2
      <3> DEFINE o == entries[j].key.offset
                 l == entries[j].key.len
      <3>5. SubSeq(buffer.data \o Text(k), o + 1, o + l) = SubSeq(buffer.data, o + 1, o + l)
        <4> HIDE DEF o, l
        <4>1. o \in Nat /\ l \in Nat /\ o + l <= Len(buffer.data)
          BY <3>2 DEF o, l
        <4> QED
          BY <3>3, <4>1, SubSeqOfFirst
      <3> QED
        BY <3>3, <3>4, <3>5, Zenon DEF Pointed
    <2> QED
      BY <1>3, <2>2, <2>4
  <1> QED
    BY <1>4, <1>5

-----------------------------------------------------------------------------
(* When the buffer stays where it is. *)

(* As many of the longest keys as there may be entries, and the 0 that ends *)
(* them, have room in the buffer that the map begins with.                  *)
Fits == \E max \in Nat : (\A k \in Key : Length[k] <= max) /\ MaxEntries * max < Capacity

Room(max) ==
  /\ Unmoved /\ buffer.capacity = Capacity
  /\ Len(entries) <= MaxEntries
  /\ Len(buffer.data) <= Len(entries) * max

LEMMA TimesMonotone ==
  ASSUME NEW m \in Nat, NEW n \in Nat, NEW l \in Nat, m < n
  PROVE  m * l \in Nat /\ m * l + l = (m + 1) * l /\ m * l + l <= n * l
  <1>1. m * l \in Nat /\ m * l + l = (m + 1) * l
    BY SMT
  <1>2. PICK d \in Nat : n = (m + 1) + d
    <2>1. n - (m + 1) \in Nat /\ n = (m + 1) + (n - (m + 1))
      OBVIOUS
    <2> QED
      BY <2>1
  <1>3. n * l = (m + 1) * l + d * l /\ d * l \in Nat /\ n * l \in Nat /\ (m + 1) * l \in Nat
    BY <1>2, SMT
  <1> QED
    BY <1>1, <1>3

LEMMA PutKeepsRoom ==
  ASSUME ChainsInv, NEW max \in Nat, \A k \in Key : Length[k] <= max,
         MaxEntries * max < Capacity, Room(max),
         NEW k \in Key, NEW v \in Value, string_map_put(k, v)
  PROVE  Room(max)'
  <1>1. PICK reading \in Readings :
          LET i == string_map_get_entry(k, reading)
          IN IF i # 0
               THEN /\ entries' = [entries EXCEPT ![i].value = v]
                    /\ UNCHANGED <<chains, buffer>>
               ELSE /\ Len(entries) < MaxEntries
                    /\ \E array \in Arrays(k) : buffer' = buffer_puts(k, array)
                    /\ NewEntry(k, v)
    BY DEF string_map_put
  <1> DEFINE i == string_map_get_entry(k, reading)
             n == Len(entries)
  <1>2. i \in 0..Len(entries)
    BY GetEntryFacts
  <1>3. n \in Nat /\ MaxEntries \in Nat
    BY KeyAssumption DEF ChainsInv, MapTypeOK
  <1>4. CASE i # 0
    <2>1. i \in 1..n
      BY <1>2, <1>3, <1>4
    <2>2. Len(entries') = n
      <3> HIDE DEF i
      <3>1. entries' = [entries EXCEPT ![i].value = v] /\ UNCHANGED <<chains, buffer>>
        BY <1>1, <1>4 DEF i
      <3> QED
        BY <2>1, <3>1, ReplaceKeepsChains
    <2>3. buffer' = buffer
      BY <1>1, <1>4
    <2> QED
      BY <2>2, <2>3 DEF Room, Unmoved
  <1>5. CASE i = 0
    <2>1. n < MaxEntries
      BY <1>1, <1>5
    <2>2. PICK array \in Arrays(k) : buffer' = buffer_puts(k, array)
      BY <1>1, <1>5
    <2>3. Len(entries') = n + 1
      BY <1>1, <1>5, <2>2, NewEntryKeepsChains
    <2>4. /\ Text(k) \in Seq(Key \X Nat) /\ Len(Text(k)) = Length[k]
          /\ buffer.data \in Seq(Key \X Nat) /\ Len(buffer.data) \in Nat
          /\ Length[k] \in Nat /\ Length[k] <= max
      BY TextFacts DEF ChainsInv, MapTypeOK
    <2>5. Len(buffer.data \o Text(k)) = Len(buffer.data) + Length[k]
      <3>1. Len(buffer.data \o Text(k)) = Len(buffer.data) + Len(Text(k))
        BY <2>4, ConcatProperties, Zenon
      <3> QED
        BY <2>4, <3>1
    <2>6. Len(buffer.data) + Length[k] <= (n + 1) * max
      BY <1>3, <2>1, <2>4, TimesMonotone DEF Room
    <2>7. Len(buffer.data) + Length[k] + 1 <= Capacity
      <3>1. n * max \in Nat /\ n * max + max <= MaxEntries * max
        BY <1>3, <2>1, TimesMonotone
      <3>2. Capacity \in Nat /\ Len(buffer.data) <= n * max
        BY KeyAssumption DEF Room
      <3>3. MaxEntries * max \in Nat
        BY <1>3
      <3> DEFINE a == n * max
                 b == MaxEntries * max
      <3>4. a \in Nat /\ b \in Nat /\ a + max <= b /\ b < Capacity /\ Len(buffer.data) <= a
        BY <3>1, <3>2, <3>3
      <3> HIDE DEF a, b
      <3> QED
        BY <2>4, <3>2, <3>4
    <2>8. Grown(Len(buffer.data) + Length[k]) = buffer.capacity
      BY <2>7 DEF Grown, Room
    <2>9. /\ buffer'.array = 0 /\ buffer'.capacity = Capacity
          /\ buffer'.data = buffer.data \o Text(k)
      BY <2>2, <2>8 DEF Arrays, buffer_puts, Room, Unmoved
    <2>10. Len(buffer'.data) <= Len(entries') * max
      BY <2>3, <2>5, <2>6, <2>9
    <2>11. Len(entries') <= MaxEntries
      BY <1>3, <2>1, <2>3
    <2> QED
      BY <2>9, <2>10, <2>11 DEF Room, Unmoved
  <1> QED
    BY <1>4, <1>5

LEMMA RoomAtFirst ==
  ASSUME string_map_init, NEW max \in Nat
  PROVE  Room(max)
  <1>1. /\ entries = <<>> /\ buffer.data = <<>> /\ buffer.array = 0
        /\ buffer.capacity = Capacity
    BY DEF string_map_init
  <1>2. Len(entries) = 0 /\ Len(buffer.data) = 0
    BY <1>1, EmptySeq
  <1> QED
    BY <1>1, <1>2, KeyAssumption DEF Room, Unmoved

LEMMA SameKeepsRoom ==
  ASSUME UNCHANGED <<entries, buffer>>, NEW max
  PROVE  Room(max) => Room(max)'
  BY DEF Room, Unmoved
=============================================================================
