-------------------------- MODULE ContainersProofs --------------------------
(* The containers in the hands of their clients, for every hash function,  *)
(* set of keys, number of buckets and size of blocks.                      *)
EXTENDS Containers, StringMapProofs

-----------------------------------------------------------------------------
(* The arena keeps its items where they are and iterates over all of them, *)
(* for every size of blocks: what every action keeps.                      *)

(* What the owner knows of an item. *)
OwnedItem == [place : Place, item : Item]

TypeOKArena ==
  /\ arena \in [len : 0..MaxItems, blocks : Nat]
  /\ memory \in [Place -> Item \cup {"uninitialized"}]
  /\ owned \in Seq(OwnedItem)
  /\ Len(owned) = arena.len
  /\ scan \in [block : Nat, index : Nat, item : Place \cup {NULL_ITEM}]
  /\ read \in Seq(Item)

(* An item is at the place its number says, and nothing is over it. *)
InPlace ==
  \A i \in 1..arena.len :
    /\ owned[i].place = Walk(i - 1)
    /\ owned[i].place[1] <= arena.blocks
    /\ memory[owned[i].place] = owned[i].item

(* What was read are the first items; the iterator is at the last of them. *)
ReadSoFar ==
  /\ Len(read) <= arena.len
  /\ \A i \in 1..Len(read) : read[i] = owned[i].item
  /\ scan = NoScan /\ read # <<>> => Len(read) = arena.len
  /\ scan # NoScan /\ scan.item = NULL_ITEM =>
       arena.len > 0 /\ read = <<>> /\ scan.block = 1 /\ scan.index = 0
  /\ scan # NoScan /\ scan.item # NULL_ITEM =>
       /\ scan.index + 1 = Len(read)
       /\ scan.block = 1 + scan.index \div items_per_block

ArenaInv == TypeOKArena /\ InPlace /\ ReadSoFar

-----------------------------------------------------------------------------
(* Places. *)

LEMMA WalkFacts ==
  ASSUME NEW n \in Nat
  PROVE  /\ Walk(n)[1] = 1 + n \div items_per_block
         /\ Walk(n)[2] = n % items_per_block
         /\ n \div items_per_block \in Nat
         /\ n % items_per_block \in 0..items_per_block - 1
         /\ n < MaxItems => Walk(n) \in Place
  <1>1. n \div items_per_block \in Nat /\ n % items_per_block \in 0..items_per_block - 1
    BY ArenaAssumption
  <1>2. n < MaxItems => n \div items_per_block <= MaxItems \div items_per_block
    BY ArenaAssumption
  <1>3. MaxItems \div items_per_block \in Nat
    BY ArenaAssumption
  <1> QED
    BY <1>1, <1>2, <1>3 DEF Walk, Place

(* Two items are never in one place. *)
LEMMA WalkInjective ==
  ASSUME NEW m \in Nat, NEW n \in Nat, Walk(m) = Walk(n)
  PROVE  m = n
  <1>1. m \div items_per_block = n \div items_per_block
    BY ArenaAssumption DEF Walk
  <1>2. m % items_per_block = n % items_per_block
    BY ArenaAssumption DEF Walk
  <1> QED
    BY <1>1, <1>2, ArenaAssumption

(* The iterator goes to the next block exactly when arena_push does. *)
LEMMA NextBlock ==
  ASSUME NEW n \in Nat
  PROVE  (n + 1) \div items_per_block =
           IF (n + 1) % items_per_block = 0 THEN n \div items_per_block + 1
           ELSE n \div items_per_block
  BY ArenaAssumption

-----------------------------------------------------------------------------
LEMMA ArenaStart == arena_init => ArenaInv
  <1> SUFFICES ASSUME arena_init PROVE ArenaInv
    OBVIOUS
  <1>1. TypeOKArena
    BY ArenaAssumption DEF arena_init, TypeOKArena, NoScan, NULL_ITEM
  <1>2. InPlace
    BY DEF arena_init, InPlace
  <1>3. ReadSoFar
    BY DEF arena_init, ReadSoFar
  <1> QED
    BY <1>1, <1>2, <1>3 DEF ArenaInv

LEMMA PushKeeps ==
  ASSUME ArenaInv, NEW x \in Item, arena_push(x), scan = NoScan, arena.len < MaxItems
  PROVE  ArenaInv'
  <1> DEFINE n == arena.len
             place == Walk(n)
  <1>1. n \in Nat /\ Len(owned) = n /\ place \in Place
    <2>1. n \in Nat /\ Len(owned) = n
      BY ArenaAssumption DEF ArenaInv, TypeOKArena
    <2> QED
      BY <2>1, WalkFacts
  <1>2. /\ arena' = [len |-> n + 1,
                     blocks |-> IF place[1] > arena.blocks THEN place[1] ELSE arena.blocks]
        /\ memory' = [memory EXCEPT ![place] = x]
        /\ owned' = Append(owned, [place |-> place, item |-> x])
        /\ read' = <<>> /\ scan' = scan
    BY DEF arena_push
  <1>3. place[1] \in Nat
    <2>1. place[1] = 1 + n \div items_per_block /\ n \div items_per_block \in Nat
      BY <1>1, WalkFacts
    <2> QED
      BY <2>1
  <1> HIDE DEF place
  <1>4. TypeOKArena'
    <2>1. [place |-> place, item |-> x] \in OwnedItem
      BY <1>1 DEF OwnedItem
    <2>2. owned' \in Seq(OwnedItem) /\ Len(owned') = n + 1
      BY <1>1, <1>2, <2>1 DEF ArenaInv, TypeOKArena
    <2> QED
      BY <1>1, <1>2, <1>3, <2>2, EmptySeq, ArenaAssumption DEF ArenaInv, TypeOKArena
  <1>5. ASSUME NEW i \in 1..arena'.len
        PROVE  /\ owned'[i].place = Walk(i - 1)
               /\ owned'[i].place[1] <= arena'.blocks
               /\ memory'[owned'[i].place] = owned'[i].item
    <2>1. CASE i = n + 1
      <3>1. owned'[i] = [place |-> place, item |-> x]
        BY <1>1, <1>2, <2>1 DEF ArenaInv, TypeOKArena
      <3> QED
        BY <1>1, <1>2, <1>3, <2>1, <3>1 DEF ArenaInv, TypeOKArena, place
    <2>2. CASE i \in 1..n
      <3>1. owned'[i] = owned[i] /\ owned[i].place \in Place
        <4>1. owned \in Seq(OwnedItem)
          BY DEF ArenaInv, TypeOKArena
        <4>2. owned[i] \in OwnedItem
          BY <1>1, <2>2, <4>1, ElementOfSeq
        <4> QED
          BY <1>1, <1>2, <2>2, <4>1, <4>2 DEF OwnedItem
      <3>2. owned[i].place = Walk(i - 1) /\ i - 1 \in Nat /\ i - 1 # n
        BY <1>1, <2>2 DEF ArenaInv, InPlace
      <3>3. owned[i].place # place
        BY <1>1, <3>2, WalkInjective DEF place
      <3>4. owned[i].place[1] <= arena.blocks /\ memory[owned[i].place] = owned[i].item
        BY <2>2 DEF ArenaInv, InPlace
      <3>5. owned[i].place[1] \in Nat
        BY <3>2, WalkFacts
      <3>6. owned[i].place[1] <= arena'.blocks
        BY <1>2, <1>3, <3>4, <3>5 DEF ArenaInv, TypeOKArena
      <3>7. memory'[owned[i].place] = owned[i].item
        BY <1>2, <3>1, <3>3, <3>4 DEF ArenaInv, TypeOKArena
      <3> QED
        BY <3>1, <3>2, <3>6, <3>7
    <2> QED
      BY <1>1, <1>2, <2>1, <2>2
  <1>6. ReadSoFar'
    BY <1>1, <1>2 DEF ReadSoFar
  <1> QED
    BY <1>4, <1>5, <1>6 DEF ArenaInv, InPlace

LEMMA TruncateKeeps ==
  ASSUME ArenaInv, NEW len \in 0..arena.len, arena_truncate(len), scan = NoScan
  PROVE  ArenaInv'
  <1>1. /\ arena' = [len |-> len, blocks |-> arena.blocks]
        /\ owned' = SubSeq(owned, 1, len)
        /\ read' = <<>> /\ UNCHANGED <<memory, scan>>
    BY DEF arena_truncate
  <1>2. len \in Nat /\ len <= arena.len /\ arena.len \in Nat /\ arena.len <= MaxItems
    BY ArenaAssumption DEF ArenaInv, TypeOKArena
  <1>3. \A i \in 1..len : owned[i] \in OwnedItem
    <2>1. owned \in Seq(OwnedItem) /\ Len(owned) = arena.len
      BY DEF ArenaInv, TypeOKArena
    <2> QED
      BY <1>2, <2>1, ElementOfSeq
  <1>4. /\ owned' \in Seq(OwnedItem)
        /\ Len(owned') = IF 1 <= len THEN len - 1 + 1 ELSE 0
        /\ \A i \in 1..len - 1 + 1 : owned'[i] = owned[1 + i - 1]
    BY <1>1, <1>2, <1>3, SubSeqProperties
  <1>5. Len(owned') = len /\ \A i \in 1..len : owned'[i] = owned[i]
    BY <1>2, <1>4
  <1>6. TypeOKArena'
    BY <1>1, <1>2, <1>4, <1>5, EmptySeq, ArenaAssumption DEF ArenaInv, TypeOKArena
  <1>7. InPlace'
    BY <1>1, <1>2, <1>5 DEF ArenaInv, InPlace, TypeOKArena
  <1>8. ReadSoFar'
    BY <1>1, <1>2 DEF ReadSoFar, ArenaInv, TypeOKArena
  <1> QED
    BY <1>6, <1>7, <1>8 DEF ArenaInv

LEMMA BeginKeeps ==
  ASSUME ArenaInv, arena_iter_begin, arena.len > 0
  PROVE  ArenaInv'
  <1>1. /\ scan' = [block |-> 1, index |-> 0, item |-> NULL_ITEM]
        /\ read' = <<>> /\ UNCHANGED <<arena, memory, owned>>
    BY DEF arena_iter_begin
  <1>2. TypeOKArena'
    BY <1>1, EmptySeq DEF ArenaInv, TypeOKArena
  <1>3. InPlace'
    BY <1>1 DEF ArenaInv, InPlace
  <1>4. ReadSoFar'
    BY <1>1, EmptySeq DEF ReadSoFar, ArenaInv, TypeOKArena
  <1> QED
    BY <1>2, <1>3, <1>4 DEF ArenaInv

(* The iterator is at place Walk(n) when it has read n items. *)
LEMMA ScanNextKeeps ==
  ASSUME ArenaInv, scan # NoScan, arena_iter_next
  PROVE  ArenaInv'
  <1> DEFINE n == Len(read)
             index == IF scan.item = NULL_ITEM THEN scan.index ELSE scan.index + 1
             block == IF index > 0 /\ index % items_per_block = 0 THEN scan.block + 1
                      ELSE scan.block
             item == <<block, index % items_per_block>>
  <1>1. /\ n \in Nat /\ arena.len \in Nat /\ arena.len <= MaxItems
        /\ owned \in Seq(OwnedItem) /\ Len(owned) = arena.len /\ read \in Seq(Item)
        /\ scan.index \in Nat /\ scan.block \in Nat
    BY ArenaAssumption DEF ArenaInv, TypeOKArena
  <1>2. index = n
    <2>1. CASE scan.item = NULL_ITEM
      BY <2>1, EmptySeq DEF ArenaInv, ReadSoFar
    <2>2. CASE scan.item # NULL_ITEM
      BY <2>2 DEF ArenaInv, ReadSoFar
    <2> QED
      BY <2>1, <2>2
  <1>3. block = 1 + n \div items_per_block
    <2>1. CASE scan.item = NULL_ITEM
      <3>1. scan.block = 1 /\ n = 0
        BY <2>1, EmptySeq DEF ArenaInv, ReadSoFar
      <3>2. 0 \div items_per_block = 0
        BY ArenaAssumption
      <3> QED
        BY <1>2, <3>1, <3>2
    <2>2. CASE scan.item # NULL_ITEM
      <3>1. n = scan.index + 1 /\ scan.block = 1 + scan.index \div items_per_block
        BY <2>2 DEF ArenaInv, ReadSoFar
      <3>2. (scan.index + 1) \div items_per_block =
              IF (scan.index + 1) % items_per_block = 0
              THEN scan.index \div items_per_block + 1
              ELSE scan.index \div items_per_block
        BY <1>1, NextBlock
      <3>3. scan.index \div items_per_block \in Nat
        BY <1>1, WalkFacts
      <3> QED
        BY <1>1, <1>2, <3>1, <3>2, <3>3
    <2> QED
      BY <2>1, <2>2
  <1>4. item = Walk(n)
    BY <1>2, <1>3 DEF Walk
  <1>5. n < arena.len \/ (n = arena.len /\ scan.item # NULL_ITEM)
    BY <1>1, EmptySeq DEF ArenaInv, ReadSoFar
  <1>6. UNCHANGED <<arena, memory, owned>>
    BY DEF arena_iter_next
  <1>7. InPlace'
    BY <1>6 DEF ArenaInv, InPlace
  <1>8. CASE n < arena.len
    <2>1. Walk(n) \in Place
      <3>1. n < MaxItems
        BY <1>1, <1>8, ArenaAssumption
      <3> QED
        BY <1>1, <3>1, WalkFacts
    <2>2. /\ scan' = [block |-> block, index |-> index, item |-> item]
          /\ read' = Append(read, memory[item])
      BY <1>1, <1>2, <1>8 DEF arena_iter_next, AtEnd
    <2>3. memory[item] = owned[n + 1].item
      <3>1. n + 1 \in 1..arena.len /\ (n + 1) - 1 = n
        BY <1>1, <1>8
      <3> QED
        BY <1>4, <3>1 DEF ArenaInv, InPlace
    <2>4. owned[n + 1] \in OwnedItem
      BY <1>1, <1>8, ElementOfSeq
    <2>5. memory[item] \in Item
      BY <2>3, <2>4 DEF OwnedItem
    <2>6. /\ read' \in Seq(Item) /\ Len(read') = n + 1
          /\ \A i \in 1..n : read'[i] = read[i]
          /\ read'[n + 1] = owned[n + 1].item
      BY <1>1, <2>2, <2>3, <2>5, AppendProperties
    <2>7. scan' \in [block : Nat, index : Nat, item : Place \cup {NULL_ITEM}]
      <3>1. block \in Nat
        BY <1>1
      <3> QED
        BY <1>1, <1>2, <1>4, <2>1, <2>2, <3>1
    <2>8. TypeOKArena'
      BY <1>6, <2>6, <2>7 DEF ArenaInv, TypeOKArena
    <2>9. scan'.item # NULL_ITEM
      BY <2>2 DEF NULL_ITEM
    <2>10. /\ scan'.index + 1 = Len(read')
           /\ scan'.block = 1 + scan'.index \div items_per_block
      BY <1>2, <1>3, <2>2, <2>6
    <2>11. scan' # NoScan
      BY <2>9 DEF NoScan
    <2>12. /\ Len(read') <= arena'.len
           /\ \A i \in 1..Len(read') : read'[i] = owned'[i].item
      BY <1>1, <1>6, <1>8, <2>6 DEF ArenaInv, ReadSoFar
    <2>13. ReadSoFar'
      BY <2>9, <2>10, <2>11, <2>12 DEF ReadSoFar
    <2> QED
      BY <1>7, <2>8, <2>13 DEF ArenaInv
  <1>9. CASE n = arena.len /\ scan.item # NULL_ITEM
    <2>1. scan' = NoScan /\ read' = read
      BY <1>1, <1>2, <1>9 DEF arena_iter_next, AtEnd
    <2>2. TypeOKArena'
      BY <1>6, <2>1 DEF ArenaInv, TypeOKArena, NoScan
    <2>3. ReadSoFar'
      BY <1>6, <1>9, <2>1 DEF ArenaInv, ReadSoFar
    <2> QED
      BY <1>7, <2>2, <2>3 DEF ArenaInv
  <1> QED
    BY <1>5, <1>8, <1>9

LEMMA FreeKeeps ==
  ASSUME ArenaInv, scan = NoScan, arena_free
  PROVE  ArenaInv'
  <1>1. /\ arena' = [len |-> 0, blocks |-> 0] /\ owned' = <<>> /\ read' = <<>>
        /\ UNCHANGED <<memory, scan>>
    BY DEF arena_free
  <1>2. TypeOKArena'
    BY <1>1, EmptySeq, ArenaAssumption DEF ArenaInv, TypeOKArena
  <1> QED
    BY <1>1, <1>2, EmptySeq DEF ArenaInv, InPlace, ReadSoFar

LEMMA ArenaStep == ArenaInv /\ [arena_next]_arenaVars => ArenaInv'
  <1> SUFFICES ASSUME ArenaInv, [arena_next]_arenaVars PROVE ArenaInv'
    OBVIOUS
  <1>1. CASE UNCHANGED arenaVars
    BY <1>1 DEF arenaVars, ArenaInv, TypeOKArena, InPlace, ReadSoFar
  <1> QED
    BY <1>1, PushKeeps, TruncateKeeps, BeginKeeps, ScanNextKeeps, FreeKeeps DEF arena_next

(* What the owner wrote stays in its block, for all the invariant says. *)
LEMMA ArenaPinned == ArenaInv => ItemsPinned
  <1> SUFFICES ASSUME ArenaInv PROVE ItemsPinned
    OBVIOUS
  <1>1. owned \in Seq(OwnedItem) /\ Len(owned) = arena.len
    BY DEF ArenaInv, TypeOKArena
  <1>2. \A i \in DOMAIN owned : i \in 1..arena.len /\ owned[i] \in OwnedItem
    BY <1>1, LenProperties
  <1> QED
    BY <1>1, <1>2 DEF ItemsPinned, ArenaInv, InPlace, OwnedItem

LEMMA ArenaIterates == ArenaInv => IteratesInOrder
  <1> SUFFICES ASSUME ArenaInv PROVE IteratesInOrder
    OBVIOUS
  <1> DEFINE items == [i \in DOMAIN owned |-> owned[i].item]
             n == Len(read)
  <1>1. /\ owned \in Seq(OwnedItem) /\ Len(owned) = arena.len /\ arena.len \in Nat
        /\ read \in Seq(Item) /\ n \in Nat /\ n <= arena.len
        /\ \A i \in 1..n : read[i] = owned[i].item
    BY ArenaAssumption DEF ArenaInv, TypeOKArena, ReadSoFar
  <1>2. \A i \in DOMAIN owned : i \in 1..arena.len /\ owned[i].item \in Item
    <2>1. \A i \in DOMAIN owned : i \in 1..arena.len /\ owned[i] \in OwnedItem
      BY <1>1, LenProperties
    <2> QED
      BY <2>1 DEF OwnedItem
  <1>3. items \in Seq(Item) /\ Len(items) = arena.len
    BY <1>1, <1>2, LenProperties
  <1>4. \A i \in 1..n : items[i] = read[i] /\ items[i] \in Item
    BY <1>1, <1>2, LenProperties
  <1> HIDE DEF items
  <1>5. /\ SubSeq(items, 1, n) \in Seq(Item)
        /\ Len(SubSeq(items, 1, n)) = n
        /\ \A i \in 1..n : SubSeq(items, 1, n)[i] = read[i]
    <2>1. /\ SubSeq(items, 1, n) \in Seq(Item)
          /\ Len(SubSeq(items, 1, n)) = IF 1 <= n THEN n - 1 + 1 ELSE 0
          /\ \A i \in 1..n - 1 + 1 : SubSeq(items, 1, n)[i] = items[1 + i - 1]
      BY <1>1, <1>4, SubSeqProperties
    <2> QED
      BY <1>1, <1>4, <2>1
  <1>6. read = SubSeq(items, 1, n)
    BY <1>1, <1>5, SeqEqual
  <1>7. scan = NoScan /\ read # <<>> => n = Len(items)
    BY <1>1, <1>3 DEF ArenaInv, ReadSoFar
  <1>8. scan = NoScan /\ read # <<>> => read = items
    BY <1>3, <1>6, <1>7, SubSeqFull
  <1> QED
    BY <1>1, <1>6, <1>8 DEF IteratesInOrder, items

-----------------------------------------------------------------------------
(* The module. *)

(* Every HValue that was made is at one entry. *)
EachHasOne(vs, n) ==
  /\ n \in Nat /\ vs \in Seq(Nat)
  /\ \A i \in 1..Len(vs) : vs[i] <= n
  /\ \A value \in 1..n : \E i \in 1..Len(vs) : vs[i] = value
  /\ \A i, j \in 1..Len(vs) : vs[i] = vs[j] /\ vs[i] # 0 => i = j

(* What was dropped is what the iteration came by. *)
DroppedIn(drops, vs, is) ==
  /\ drops \in Seq(Nat) /\ IsInjective(drops)
  /\ \A value \in Nat :
       value \in Range(drops) <=> value # 0 /\ \E i \in Range(is) : vs[i] = value

Members == EachHasOne(values, made) /\ Len(values) = Len(entries)

ModuleInv ==
  /\ Members
  /\ DroppedIn(dropped, values, visited)
  /\ life \in {"used", "freeing", "freed"}
  /\ life = "used" => iter = NoIter /\ visited = <<>>
  /\ life = "freeing" => Iterating
  /\ life = "freed" => Range(visited) = 1..Len(entries)

(* A put reports a value exactly when it came by an entry that was there. *)
LEMMA PutReports ==
  ASSUME ChainsInv, NEW k \in Key, NEW v \in Value, string_map_put(k, v)
  PROVE  \/ reply' # None /\ entry' \in 1..Len(entries) /\ Len(entries') = Len(entries)
         \/ reply' = None /\ Len(entries') = Len(entries) + 1
  <1>1. PICK reading \in Readings :
          LET i == string_map_get_entry(k, reading)
          IN IF i # 0
               THEN /\ entries' = [entries EXCEPT ![i].value = v]
                    /\ reply' = entries[i].value
                    /\ entry' = i
                    /\ UNCHANGED <<chains, buffer>>
               ELSE /\ \E arr \in Arrays(k) : buffer' = buffer_puts(k, arr)
                    /\ NewEntry(k, v)
                    /\ reply' = None
    BY DEF string_map_put
  <1> DEFINE i == string_map_get_entry(k, reading)
  <1>2. i \in 0..Len(entries) /\ Len(entries) \in Nat
    BY GetEntryFacts DEF ChainsInv, MapTypeOK
  <1>3. CASE i # 0
    <2>1. i \in 1..Len(entries)
      BY <1>2, <1>3
    <2>2. Len(entries') = Len(entries)
      <3> HIDE DEF i
      <3>1. entries' = [entries EXCEPT ![i].value = v] /\ UNCHANGED <<chains, buffer>>
        BY <1>1, <1>3 DEF i
      <3> QED
        BY <2>1, <3>1, ReplaceKeepsChains
    <2>3. entries[i] \in MapEntry
      BY <2>1, ElementOfSeq DEF ChainsInv, MapTypeOK
    <2>4. entries[i].value # None
      BY <2>3, NoneAssumption DEF MapEntry
    <2> QED
      BY <1>1, <1>3, <2>1, <2>2, <2>4
  <1>4. CASE i = 0
    BY <1>1, <1>4, NewEntryKeepsChains
  <1> QED
    BY <1>3, <1>4

LEMMA SomeValueIsValue == SomeValue \in Value
  BY NoneAssumption DEF SomeValue

(* A member without an HValue is added. *)
LEMMA DefineMember ==
  ASSUME NEW vs, NEW n, EachHasOne(vs, n)
  PROVE  EachHasOne(Append(vs, 0), n)
  <1> DEFINE vs2 == Append(vs, 0)
  <1>1. /\ vs2 \in Seq(Nat) /\ Len(vs2) = Len(vs) + 1 /\ Len(vs) \in Nat
        /\ \A i \in 1..Len(vs) : vs2[i] = vs[i]
        /\ vs2[Len(vs) + 1] = 0
    BY AppendProperties DEF EachHasOne
  <1> HIDE DEF vs2
  <1>2. \A i \in 1..Len(vs2) : i \in 1..Len(vs) \/ i = Len(vs) + 1
    BY <1>1
  <1>3. \A i \in 1..Len(vs) : i \in 1..Len(vs2)
    BY <1>1
  <1>4. n \in Nat /\ \A i \in 1..Len(vs2) : vs2[i] <= n
    <2>1. n \in Nat /\ \A i \in 1..Len(vs) : vs[i] <= n
      BY DEF EachHasOne
    <2>2. 0 <= n
      BY <2>1
    <2> SUFFICES ASSUME NEW i \in 1..Len(vs2) PROVE vs2[i] <= n
      BY <2>1
    <2>3. CASE i \in 1..Len(vs)
      BY <1>1, <2>1, <2>3
    <2>4. CASE i = Len(vs) + 1
      BY <1>1, <2>2, <2>4
    <2> QED
      BY <1>2, <2>3, <2>4
  <1>5. ASSUME NEW value \in 1..n PROVE \E i \in 1..Len(vs2) : vs2[i] = value
    <2>1. PICK i \in 1..Len(vs) : vs[i] = value
      BY DEF EachHasOne
    <2> QED
      BY <1>1, <1>3, <2>1
  <1>6. \A i, j \in 1..Len(vs2) : vs2[i] = vs2[j] /\ vs2[i] # 0 => i = j
    BY <1>1, <1>2 DEF EachHasOne
  <1>7. EachHasOne(vs2, n)
    BY <1>1, <1>4, <1>5, <1>6 DEF EachHasOne
  <1> QED
    BY <1>7 DEF vs2

(* A member gets its HValue. *)
LEMMA MakeMember ==
  ASSUME NEW vs, NEW n, EachHasOne(vs, n), NEW e \in 1..Len(vs), vs[e] = 0
  PROVE  /\ EachHasOne([vs EXCEPT ![e] = n + 1], n + 1)
         /\ Len([vs EXCEPT ![e] = n + 1]) = Len(vs)
  <1> DEFINE vs2 == [vs EXCEPT ![e] = n + 1]
  <1>0. n \in Nat /\ vs \in Seq(Nat) /\ n + 1 \in Nat
    BY DEF EachHasOne
  <1>1. /\ vs2 \in Seq(Nat) /\ Len(vs2) = Len(vs)
        /\ \A i \in 1..Len(vs) : vs2[i] = IF i = e THEN n + 1 ELSE vs[i]
    BY <1>0, ExceptSeq
  <1> HIDE DEF vs2
  <1>2. \A i \in 1..Len(vs) : vs[i] \in Nat /\ vs[i] <= n
    BY <1>0, ElementOfSeq DEF EachHasOne
  <1>3. \A i \in 1..Len(vs2) : vs2[i] <= n + 1
    BY <1>0, <1>1, <1>2
  <1>4. ASSUME NEW value \in 1..n + 1 PROVE \E i \in 1..Len(vs2) : vs2[i] = value
    <2>1. CASE value = n + 1
      BY <1>1, <2>1
    <2>2. CASE value \in 1..n
      <3>1. PICK i \in 1..Len(vs) : vs[i] = value
        BY <2>2 DEF EachHasOne
      <3>2. i # e
        BY <2>2, <3>1
      <3> QED
        BY <1>1, <3>1, <3>2
    <2> QED
      BY <1>0, <2>1, <2>2
  <1>5. \A i, j \in 1..Len(vs2) : vs2[i] = vs2[j] /\ vs2[i] # 0 => i = j
    <2> SUFFICES ASSUME NEW i \in 1..Len(vs), NEW j \in 1..Len(vs),
                        vs2[i] = vs2[j], vs2[i] # 0
                 PROVE  i = j
      BY <1>1
    <2>1. CASE i = e \/ j = e
      BY <1>0, <1>1, <1>2, <2>1
    <2>2. CASE i # e /\ j # e
      BY <1>1, <2>2 DEF EachHasOne
    <2> QED
      BY <2>1, <2>2
  <1>6. EachHasOne(vs2, n + 1)
    BY <1>0, <1>1, <1>3, <1>4, <1>5 DEF EachHasOne
  <1> QED
    BY <1>1, <1>6 DEF vs2

LEMMA RangeOfAppend ==
  ASSUME NEW is \in Seq(Nat), NEW e \in Nat
  PROVE  Range(Append(is, e)) = Range(is) \cup {e}
  <1>1. /\ Append(is, e) \in Seq(Nat) /\ Len(Append(is, e)) = Len(is) + 1 /\ Len(is) \in Nat
        /\ \A i \in 1..Len(is) : Append(is, e)[i] = is[i]
        /\ Append(is, e)[Len(is) + 1] = e
    BY AppendProperties
  <1>2. /\ DOMAIN Append(is, e) = 1..Len(is) + 1 /\ DOMAIN is = 1..Len(is)
    BY <1>1, LenProperties
  <1>3. \A i \in 1..Len(is) + 1 : i \in 1..Len(is) \/ i = Len(is) + 1
    BY <1>1
  <1>4. Len(is) + 1 \in 1..Len(is) + 1 /\ \A i \in 1..Len(is) : i \in 1..Len(is) + 1
    BY <1>1
  <1> QED
    BY <1>1, <1>2, <1>3, <1>4 DEF Range

LEMMA DefineKeeps ==
  ASSUME MapInv, ModuleInv, life = "used", NEW name \in Key, module_define(name)
  PROVE  MapInv' /\ ModuleInv'
  <1>1. /\ string_map_put(name, SomeValue)
        /\ reply' # None => values[entry'] = 0
        /\ values' = IF reply' = None THEN Append(values, 0)
                     ELSE [values EXCEPT ![entry'] = 0]
        /\ UNCHANGED <<made, dropped, life, iter, visited>>
    BY DEF module_define
  <1>2. iter = NoIter /\ visited = <<>> /\ Members /\ DroppedIn(dropped, values, visited)
    BY DEF ModuleInv
  <1>3. MapInv'
    BY <1>1, <1>2, SomeValueIsValue, CallKeepsMap DEF Iterating
  <1>4. Members'
    <2>1. CASE reply' = None
      <3>1. Len(entries') = Len(entries) + 1
        BY <1>1, <2>1, SomeValueIsValue, PutReports DEF MapInv
      <3>2. EachHasOne(Append(values, 0), made)
        BY <1>2, DefineMember DEF Members
      <3>3. Len(Append(values, 0)) = Len(values) + 1
        BY <1>2, AppendProperties DEF Members, EachHasOne
      <3> QED
        BY <1>1, <1>2, <2>1, <3>1, <3>2, <3>3 DEF Members
    <2>2. CASE reply' # None
      <3>1. entry' \in 1..Len(entries) /\ Len(entries') = Len(entries)
        BY <1>1, <2>2, SomeValueIsValue, PutReports DEF MapInv
      <3>2. values \in Seq(Nat) /\ DOMAIN values = 1..Len(values)
        BY <1>2, LenProperties DEF Members, EachHasOne
      <3>3. values' = values
        BY <1>1, <1>2, <2>2, <3>1, <3>2 DEF Members
      <3> QED
        BY <1>1, <1>2, <3>1, <3>3 DEF Members
    <2> QED
      BY <2>1, <2>2
  <1>5. DroppedIn(dropped', values', visited')
    <2>1. Range(<<>>) = {}
      BY EmptySeq DEF Range
    <2> QED
      BY <1>1, <1>2, <2>1 DEF DroppedIn
  <1> QED
    BY <1>1, <1>2, <1>3, <1>4, <1>5 DEF ModuleInv

LEMMA GetKeeps ==
  ASSUME MapInv, ModuleInv, life = "used", NEW name \in Key, module_get(name)
  PROVE  MapInv' /\ ModuleInv'
  <1>1. /\ string_map_get(name)
        /\ IF entry' # 0 /\ values[entry'] = 0
             THEN made' = made + 1 /\ values' = [values EXCEPT ![entry'] = made + 1]
             ELSE UNCHANGED <<made, values>>
        /\ UNCHANGED <<dropped, life, iter, visited>>
    BY DEF module_get
  <1>2. iter = NoIter /\ visited = <<>> /\ Members /\ DroppedIn(dropped, values, visited)
    BY DEF ModuleInv
  <1>3. MapInv'
    BY <1>1, <1>2, CallKeepsMap DEF Iterating
  <1>4. entries' = entries /\ entry' \in 0..Len(entries) /\ Len(entries) \in Nat
    BY <1>1, GetEntryFacts DEF string_map_get, MapInv, ChainsInv, MapTypeOK
  <1>5. Members'
    <2>1. CASE entry' # 0 /\ values[entry'] = 0
      <3>1. entry' \in 1..Len(values)
        BY <1>2, <1>4, <2>1 DEF Members
      <3>2. PICK e \in 1..Len(values) : e = entry'
        BY <3>1
      <3>3. /\ EachHasOne([values EXCEPT ![e] = made + 1], made + 1)
            /\ Len([values EXCEPT ![e] = made + 1]) = Len(values)
        BY <1>2, <2>1, <3>2, MakeMember DEF Members
      <3> QED
        BY <1>1, <1>2, <1>4, <2>1, <3>2, <3>3 DEF Members
    <2>2. CASE ~(entry' # 0 /\ values[entry'] = 0)
      BY <1>1, <1>2, <1>4, <2>2 DEF Members
    <2> QED
      BY <2>1, <2>2
  <1>6. DroppedIn(dropped', values', visited')
    <2>1. Range(<<>>) = {}
      BY EmptySeq DEF Range
    <2> QED
      BY <1>1, <1>2, <2>1 DEF DroppedIn
  <1> QED
    BY <1>1, <1>2, <1>3, <1>5, <1>6 DEF ModuleInv

LEMMA ModuleFreeKeeps ==
  ASSUME MapInv, ModuleInv, life = "used", module_free
  PROVE  MapInv' /\ ModuleInv'
  <1>1. /\ string_map_iter_begin
        /\ life' = "freeing" /\ UNCHANGED <<values, made, dropped>>
    BY DEF module_free
  <1>2. /\ iter' = [bucket |-> 0, entry |-> 0] /\ visited' = <<>> /\ visited = <<>>
        /\ entries' = entries
    BY <1>1 DEF string_map_iter_begin, ModuleInv
  <1>3. Iterating'
    BY <1>2, KeyAssumption DEF Iterating, NoIter
  <1> QED
    BY <1>1, <1>2, <1>3, IterateKeepsMap DEF ModuleInv, Members

(* One more member is dropped. *)
LEMMA DropOne ==
  ASSUME NEW drops, NEW vs, NEW n, NEW is \in Seq(Nat), NEW e \in Nat,
         EachHasOne(vs, n), DroppedIn(drops, vs, is), e \in 1..Len(vs),
         \A i \in Range(is) : i \in 1..Len(vs), e \notin Range(is)
  PROVE  /\ vs[e] # 0 => DroppedIn(Append(drops, vs[e]), vs, Append(is, e))
         /\ vs[e] = 0 => DroppedIn(drops, vs, Append(is, e))
  <1>1. vs[e] \in Nat
    BY ElementOfSeq DEF EachHasOne
  <1>2. \A i \in Range(Append(is, e)) : i \in Range(is) \/ i = e
    BY RangeOfAppend
  <1>3. e \in Range(Append(is, e)) /\ \A i \in Range(is) : i \in Range(Append(is, e))
    BY RangeOfAppend
  <1>4. CASE vs[e] # 0
    <2>1. vs[e] \notin Range(drops)
      BY <1>1, <1>4 DEF DroppedIn, EachHasOne
    <2>2. /\ Append(drops, vs[e]) \in Seq(Nat) /\ IsInjective(Append(drops, vs[e]))
          /\ Range(Append(drops, vs[e])) = Range(drops) \cup {vs[e]}
      BY <1>1, <2>1, VisitOne DEF DroppedIn
    <2>3. ASSUME NEW value \in Nat
          PROVE  value \in Range(Append(drops, vs[e])) <=>
                   value # 0 /\ \E i \in Range(Append(is, e)) : vs[i] = value
      BY <1>2, <1>3, <1>4, <2>2 DEF DroppedIn
    <2> QED
      BY <1>4, <2>2, <2>3 DEF DroppedIn
  <1>5. CASE vs[e] = 0
    BY <1>2, <1>3, <1>5 DEF DroppedIn
  <1> QED
    BY <1>4, <1>5

LEMMA FreeMemberKeeps ==
  ASSUME MapInv, ModuleInv, life = "freeing", module_free_member
  PROVE  MapInv' /\ ModuleInv'
  <1> DEFINE e == iter'.entry
  <1>1. /\ string_map_iter_next
        /\ dropped' = IF e # 0 /\ values[e] # 0 THEN Append(dropped, values[e]) ELSE dropped
        /\ life' = IF e = 0 THEN "freed" ELSE life
        /\ UNCHANGED <<values, made>>
    BY DEF module_free_member
  <1>2. /\ visited' = IF e = 0 THEN visited ELSE Append(visited, e)
        /\ UNCHANGED entries
    BY <1>1 DEF string_map_iter_next
  <1>3. MapInv' /\ IterInv' /\ IterEnds
    BY <1>1, IterateKeepsMap, IterNextKeeps DEF MapInv
  <1>4. Members /\ DroppedIn(dropped, values, visited) /\ Len(values) = Len(entries)
    BY DEF ModuleInv, Members
  <1>5. Members'
    BY <1>1, <1>2, <1>4 DEF Members
  <1>6. CASE e = 0
    <2>1. life' = "freed" /\ dropped' = dropped /\ visited' = visited
      BY <1>1, <1>2, <1>6
    <2>2. Range(visited') = 1..Len(entries)
      BY <1>3, <1>6 DEF IterEnds
    <2> QED
      BY <1>1, <1>2, <1>3, <1>4, <1>5, <2>1, <2>2 DEF ModuleInv
  <1>7. CASE e # 0
    <2>1. /\ iter'.entry \in 0..Len(entries) /\ visited \in Seq(1..Len(entries))
          /\ Len(entries) \in Nat /\ iter' \in [bucket : 0..Buckets, entry : 0..Len(entries)]
      BY <1>2, <1>3 DEF IterInv, MapInv, ChainsInv, MapTypeOK
    <2>2. e \in 1..Len(values) /\ e \in Nat
      BY <1>4, <1>7, <2>1
    <2>3. visited \in Seq(Nat) /\ \A i \in Range(visited) : i \in 1..Len(values)
      <3>1. Range(visited) \subseteq 1..Len(entries)
        BY <2>1, RangeOfSeq
      <3>2. \A i \in 1..Len(visited) : visited[i] \in Nat
        BY <2>1, ElementOfSeq
      <3>3. visited \in Seq(Nat)
        BY <2>1, <3>2, LenProperties
      <3> QED
        BY <1>4, <3>1, <3>3
    <2>4. visited' = Append(visited, e) /\ IsInjective(visited')
      BY <1>2, <1>3, <1>7 DEF IterInv
    <2> HIDE DEF e
    <2>5. e \notin Range(visited)
      <3>1. /\ Len(Append(visited, e)) = Len(visited) + 1 /\ Len(visited) \in Nat
            /\ \A i \in 1..Len(visited) : Append(visited, e)[i] = visited[i]
            /\ Append(visited, e)[Len(visited) + 1] = e
            /\ Append(visited, e) \in Seq(Nat)
        BY <2>2, <2>3, AppendProperties
      <3>2. /\ DOMAIN Append(visited, e) = 1..Len(visited) + 1
            /\ DOMAIN visited = 1..Len(visited)
        BY <2>3, <3>1, LenProperties
      <3>3. \A i \in 1..Len(visited) : i \in 1..Len(visited) + 1 /\ i # Len(visited) + 1
        BY <3>1
      <3>4. Len(visited) + 1 \in 1..Len(visited) + 1
        BY <3>1
      <3> QED
        BY <2>4, <3>1, <3>2, <3>3, <3>4 DEF IsInjective, Range
    <2>6. DroppedIn(dropped', values, visited')
      BY <1>1, <1>4, <1>7, <2>2, <2>3, <2>4, <2>5, DropOne DEF Members
    <2>7. life' = "freeing"
      BY <1>1, <1>7
    <2>8. Iterating'
      BY <1>7 DEF Iterating, NoIter, e
    <2> QED
      BY <1>1, <1>3, <1>5, <2>6, <2>7, <2>8 DEF ModuleInv
  <1> QED
    BY <1>6, <1>7

LEMMA ModuleStep ==
  ASSUME MapInv, ModuleInv, module_next
  PROVE  MapInv' /\ ModuleInv'
  BY DefineKeeps, GetKeeps, ModuleFreeKeeps, FreeMemberKeeps DEF module_next

(* A freed module has dropped each of its HValues. *)
LEMMA ModuleDrops == ModuleInv => MembersDroppedOnce
  <1> SUFFICES ASSUME ModuleInv, life = "freed"
               PROVE  IsInjective(dropped) /\ Range(dropped) = 1..made
    BY DEF MembersDroppedOnce
  <1>1. /\ EachHasOne(values, made) /\ Len(values) = Len(entries)
        /\ DroppedIn(dropped, values, visited) /\ Range(visited) = 1..Len(values)
    BY DEF ModuleInv, Members
  <1>2. \A value \in Nat : value \in Range(dropped) <=> value \in 1..made
    <2> SUFFICES ASSUME NEW value \in Nat
                 PROVE  value \in Range(dropped) <=> value \in 1..made
      OBVIOUS
    <2>1. value \in Range(dropped) <=>
            value # 0 /\ \E i \in 1..Len(values) : values[i] = value
      BY <1>1 DEF DroppedIn
    <2>2. made \in Nat /\ \A i \in 1..Len(values) : values[i] <= made
      BY <1>1 DEF EachHasOne
    <2>3. value \in 1..made => \E i \in 1..Len(values) : values[i] = value
      BY <1>1 DEF EachHasOne
    <2> QED
      BY <2>1, <2>2, <2>3
  <1>3. Range(dropped) \subseteq Nat /\ 1..made \subseteq Nat
    BY <1>1, RangeOfSeq DEF DroppedIn
  <1> QED
    BY <1>1, <1>2, <1>3 DEF DroppedIn

-----------------------------------------------------------------------------
(* The string pool, while the buffer stays where it is. *)

PoolInv ==
  /\ \A s \in symbols :
       /\ s.string \in Key /\ s.symbol \in 1..Len(entries)
       /\ Pointed(entries[s.symbol].key) = Text(s.string)
  /\ interning # None => interning \in Key /\ Abstract[interning] # None

LEMMA InternKeeps ==
  ASSUME MapInv, KeysInv, PoolInv, Unmoved, Unmoved', NEW k \in Key, string_pool_intern(k)
  PROVE  PoolInv'
  <1>1. /\ string_map_put(k, SomeValue) /\ SomeValue \in Value /\ SomeValue # None
        /\ interning' = k /\ symbols' = symbols
    BY SomeValueIsValue, NoneAssumption DEF string_pool_intern
  <1>2. Abstract' = [Abstract EXCEPT ![k] = SomeValue]
    BY <1>1, PutRefines DEF MapInv, Promise!Put
  <1>3. k \in DOMAIN Abstract
    BY DEF Abstract
  <1>4. Abstract'[interning'] # None
    BY <1>1, <1>2, <1>3
  <1>5. /\ 1..Len(entries) \subseteq 1..Len(entries')
        /\ \A i \in 1..Len(entries) : Pointed(entries[i].key)' = Pointed(entries[i].key)
    BY <1>1, PutKeepsPointed DEF MapInv
  <1>6. ASSUME NEW s \in symbols
        PROVE  /\ s.string \in Key /\ s.symbol \in 1..Len(entries')
               /\ Pointed(entries[s.symbol].key)' = Text(s.string)
    <2>1. /\ s.string \in Key /\ s.symbol \in 1..Len(entries)
          /\ Pointed(entries[s.symbol].key) = Text(s.string)
      BY DEF PoolInv
    <2> QED
      BY <1>5, <2>1
  <1> QED
    BY <1>1, <1>4, <1>6 DEF PoolInv

LEMMA InternedKeeps ==
  ASSUME MapInv, KeysInv, PoolInv, Unmoved, string_pool_interned
  PROVE  PoolInv'
  <1>1. /\ interning \in Key /\ Abstract[interning] # None
        /\ string_map_get(interning)
        /\ symbols' = symbols \cup {[string |-> interning, symbol |-> entry']}
        /\ interning' = None
    BY DEF string_pool_interned, PoolInv
  <1>2. PICK keys : Entered(keys)
    BY DEF KeysInv
  <1>3. entry' \in 1..Len(entries) /\ keys[entry'] = interning
    BY <1>1, <1>2, FoundIsHeld DEF string_map_get, MapInv
  <1>4. Pointed(entries[entry'].key) = Text(interning)
    BY <1>2, <1>3 DEF Entered, EnteredIn, Pointed
  <1>5. entries' = entries /\ buffer' = buffer
    BY <1>1 DEF string_map_get
  <1>6. ASSUME NEW s \in symbols'
        PROVE  /\ s.string \in Key /\ s.symbol \in 1..Len(entries)
               /\ Pointed(entries[s.symbol].key) = Text(s.string)
    <2>1. CASE s \in symbols
      BY <2>1 DEF PoolInv
    <2>2. CASE s = [string |-> interning, symbol |-> entry']
      BY <1>1, <1>3, <1>4, <2>2
    <2> QED
      BY <1>1, <2>1, <2>2
  <1> QED
    BY <1>1, <1>5, <1>6 DEF PoolInv, Pointed

(* Each symbol is the entry of its string and of no other. *)
LEMMA PoolIdentifies == KeysInv /\ Unmoved /\ PoolInv => SymbolsIdentify
  <1> SUFFICES ASSUME KeysInv, Unmoved, PoolInv, NEW s \in symbols
               PROVE  /\ s.symbol # 0 /\ ~Stale(s.symbol)
                      /\ Pointed(string_pool_get_entry(s.symbol)) = Text(s.string)
                      /\ \A t \in symbols : (s.symbol = t.symbol) = (s.string = t.string)
    BY DEF SymbolsIdentify
  <1>1. PICK keys : Entered(keys)
    BY DEF KeysInv
  <1>2. ASSUME NEW t \in symbols
        PROVE  /\ t.symbol \in 1..Len(keys) /\ t.string \in Key
               /\ keys[t.symbol] = t.string
    <2>1. /\ t.symbol \in 1..Len(keys) /\ t.string \in Key
          /\ Pointed(entries[t.symbol].key) = Text(t.string)
      BY <1>1 DEF PoolInv, Entered, EnteredIn
    <2>2. Pointed(entries[t.symbol].key) = Text(keys[t.symbol]) /\ keys[t.symbol] \in Key
      BY <1>1, <2>1, ElementOfSeq DEF Entered, EnteredIn, Pointed
    <2> QED
      BY <2>1, <2>2, TextInjective
  <1>3. \A i, j \in 1..Len(keys) : keys[i] = keys[j] => i = j
    BY <1>1 DEF Entered, EnteredIn
  <1>4. ASSUME NEW t \in symbols PROVE (s.symbol = t.symbol) = (s.string = t.string)
    BY <1>2, <1>3
  <1>5. s.symbol # 0
    BY DEF PoolInv
  <1>6. ~Stale(s.symbol)
    BY <1>1, <1>2 DEF Entered, EnteredIn, Stale, Unmoved
  <1>7. Pointed(string_pool_get_entry(s.symbol)) = Text(s.string)
    BY DEF Pointed, string_pool_get_entry, PoolInv
  <1> QED
    BY <1>4, <1>5, <1>6, <1>7

-----------------------------------------------------------------------------
(* Every client, however the key buffer moves. *)

ClientInv ==
  /\ MapInv /\ ArenaInv /\ interning \in Key \cup {None}
  /\ client = "pool" => iter = NoIter /\ visited = <<>>
  /\ client = "module" => ModuleInv

LEMMA ClientStart == ClientInit => ClientInv
  <1> SUFFICES ASSUME ClientInit PROVE ClientInv
    OBVIOUS
  <1>1. MapInv /\ ArenaInv
    BY MapStart, ArenaStart DEF ClientInit
  <1>2. iter = NoIter /\ visited = <<>> /\ entries = <<>>
    BY DEF ClientInit, string_map_init
  <1>3. values = <<>> /\ made = 0 /\ dropped = <<>> /\ life = "used"
    BY DEF ClientInit, module_init
  <1>4. <<>> \in Seq(Nat) /\ Len(<<>>) = 0 /\ Range(<<>>) = {} /\ IsInjective(<<>>)
    BY EmptySeq DEF Range, IsInjective
  <1>5. interning \in Key \cup {None}
    BY DEF ClientInit, string_pool_init
  <1>6. Members
    BY <1>2, <1>3, <1>4 DEF Members, EachHasOne
  <1>7. DroppedIn(dropped, values, visited)
    BY <1>2, <1>3, <1>4 DEF DroppedIn
  <1> QED
    BY <1>1, <1>2, <1>3, <1>5, <1>6, <1>7 DEF ClientInv, ModuleInv

LEMMA ClientStep == ClientInv /\ [ClientNext]_allVars => ClientInv'
  <1> SUFFICES ASSUME ClientInv, [ClientNext]_allVars PROVE ClientInv'
    OBVIOUS
  <1>1. CASE MapClient /\ UNCHANGED client
    <2>1. MapInv'
      BY <1>1, MapStep DEF ClientInv, MapClient
    <2>2. ArenaInv'
      BY <1>1, ArenaStep DEF ClientInv, MapClient
    <2> QED
      BY <1>1, <2>1, <2>2 DEF ClientInv, MapClient, poolVars
  <1>2. CASE PoolClient /\ UNCHANGED client
    <2>1. /\ iter = NoIter /\ visited = <<>> /\ UNCHANGED <<iter, visited>>
          /\ client = "pool" /\ client' = "pool"
      BY <1>2 DEF ClientInv, PoolClient, string_pool_next
    <2>2. \E k \in Key : string_map_get(k) \/ string_map_put(k, SomeValue)
      <3>1. CASE string_pool_interned
        BY <3>1 DEF string_pool_interned, ClientInv
      <3>2. CASE \E k \in Key : string_pool_intern(k)
        BY <3>2 DEF string_pool_intern
      <3> QED
        BY <1>2, <3>1, <3>2 DEF PoolClient, string_pool_next
    <2>3. MapInv'
      BY <2>1, <2>2, SomeValueIsValue, CallKeepsMap DEF ClientInv, Iterating
    <2>4. ArenaInv'
      BY <1>2, ArenaStep DEF ClientInv, PoolClient
    <2>5. interning' \in Key \cup {None}
      BY <1>2 DEF PoolClient, string_pool_next, string_pool_intern, string_pool_interned
    <2> QED
      BY <2>1, <2>3, <2>4, <2>5 DEF ClientInv
  <1>3. CASE ModuleClient /\ UNCHANGED client
    <2>1. MapInv' /\ ModuleInv'
      BY <1>3, ModuleStep DEF ClientInv, ModuleClient
    <2>2. ArenaInv'
      BY <1>3, ArenaStep DEF ClientInv, ModuleClient
    <2> QED
      BY <1>3, <2>1, <2>2 DEF ClientInv, ModuleClient, poolVars
  <1>4. CASE ArenaClient /\ UNCHANGED client
    <2>1. MapInv'
      BY <1>4, SameKeepsMap DEF ClientInv, ArenaClient
    <2>2. ArenaInv'
      BY <1>4, ArenaStep DEF ClientInv, ArenaClient
    <2> QED
      BY <1>4, <2>1, <2>2 DEF ClientInv, ArenaClient, poolVars
  <1>6. CASE OpstackClient /\ UNCHANGED client
    <2>1. MapInv'
      BY <1>6, SameKeepsMap DEF ClientInv, OpstackClient
    <2>2. ArenaInv'
      BY <1>6, ArenaStep DEF ClientInv, OpstackClient
    <2> QED
      BY <1>6, <2>1, <2>2 DEF ClientInv, OpstackClient, poolVars
  <1>5. CASE UNCHANGED allVars
    <2>1. MapInv'
      BY <1>5, SameKeepsMap DEF ClientInv, allVars
    <2>2. ArenaInv'
      BY <1>5, ArenaStep DEF ClientInv, allVars
    <2>3. ModuleInv => ModuleInv'
      BY <1>5 DEF allVars, vars, moduleVars, ModuleInv, Members, Iterating
    <2> QED
      BY <1>5, <2>1, <2>2, <2>3 DEF ClientInv, allVars, vars, poolVars
  <1> QED
    BY <1>1, <1>2, <1>3, <1>4, <1>5, <1>6 DEF ClientNext

-----------------------------------------------------------------------------
(* Every client, while the key buffer is not moved. *)

DictInv == KeysInv /\ (client = "pool" => PoolInv) /\ (client # "pool" => symbols = {})

LEMMA DictStart == ClientInit => DictInv /\ Promise!Init
  <1> SUFFICES ASSUME ClientInit PROVE DictInv /\ Promise!Init
    OBVIOUS
  <1>1. KeysInv /\ Promise!Init
    BY KeysStart DEF ClientInit
  <1>2. symbols = {} /\ interning = None
    BY DEF ClientInit, string_pool_init
  <1> QED
    BY <1>1, <1>2 DEF DictInv, PoolInv

(* What every container makes of the map is a step of the dictionary. *)
LEMMA DictStep ==
  ASSUME ClientInv, DictInv, Unmoved, Unmoved', [ClientNext]_allVars
  PROVE  DictInv' /\ [Promise!Next]_<<Abstract, call, reply>>
  <1> DEFINE Same == UNCHANGED <<Abstract, call, reply>>
  <1>1. ASSUME UNCHANGED <<entries, buffer, call, reply>>
        PROVE  KeysInv' /\ Same
    BY <1>1, SameKeepsKeys DEF DictInv
  <1>2. ASSUME NEW k \in Key,
               string_map_get(k) \/ \E v \in Value : string_map_put(k, v)
        PROVE  KeysInv' /\ Promise!Next
    <2>1. CASE string_map_get(k)
      <3>1. KeysInv' /\ Promise!Get(k)
        BY <2>1, GetRefines DEF ClientInv, MapInv, DictInv
      <3> QED
        BY <3>1 DEF Promise!Next
    <2>2. CASE \E v \in Value : string_map_put(k, v)
      <3>1. PICK v \in Value : string_map_put(k, v)
        BY <2>2
      <3>2. KeysInv' /\ Promise!Put(k, v)
        BY <3>1, PutRefines DEF ClientInv, MapInv, DictInv
      <3> QED
        BY <3>2 DEF Promise!Next
    <2> QED
      BY <1>2, <2>1, <2>2
  <1>3. ASSUME string_map_iter_begin \/ string_map_iter_next
        PROVE  KeysInv' /\ Same
    BY <1>1, <1>3 DEF string_map_iter_begin, string_map_iter_next
  <1> HIDE DEF Same
  <1>4. CASE MapClient /\ UNCHANGED client
    <2>1. KeysInv' /\ (Promise!Next \/ Same)
      BY <1>2, <1>3, <1>4 DEF MapClient, Next
    <2> QED
      BY <1>4, <2>1 DEF Same, DictInv, MapClient, poolVars
  <1>5. CASE PoolClient /\ UNCHANGED client
    <2>1. PoolInv /\ MapInv /\ KeysInv /\ client = "pool" /\ client' = "pool"
      BY <1>5 DEF DictInv, ClientInv, PoolClient
    <2>2. CASE string_pool_interned
      <3>1. interning \in Key /\ string_map_get(interning)
        BY <2>2 DEF string_pool_interned, ClientInv
      <3> QED
        BY <1>2, <2>1, <2>2, <3>1, InternedKeeps DEF DictInv
    <2>3. CASE \E k \in Key : string_pool_intern(k)
      <3>1. PICK k \in Key : string_pool_intern(k)
        BY <2>3
      <3>2. \E v \in Value : string_map_put(k, v)
        BY <3>1, SomeValueIsValue DEF string_pool_intern
      <3> QED
        BY <1>2, <2>1, <3>1, <3>2, InternKeeps DEF DictInv
    <2> QED
      BY <1>5, <2>2, <2>3 DEF PoolClient, string_pool_next
  <1>6. CASE ModuleClient /\ UNCHANGED client
    <2>1. KeysInv' /\ (Promise!Next \/ Same)
      <3>1. CASE \E name \in Key : module_get(name) \/ module_define(name)
        BY <1>2, <3>1, SomeValueIsValue DEF module_get, module_define
      <3>2. CASE module_free \/ module_free_member
        BY <1>3, <3>2 DEF module_free, module_free_member
      <3> QED
        BY <1>6, <3>1, <3>2 DEF ModuleClient, module_next
    <2> QED
      BY <1>6, <2>1 DEF Same, DictInv, ModuleClient, poolVars
  <1>7. CASE ArenaClient /\ UNCHANGED client
    <2>1. KeysInv' /\ Same
      BY <1>1, <1>7 DEF ArenaClient, vars
    <2> QED
      BY <1>7, <2>1 DEF Same, DictInv, ArenaClient, poolVars
  <1>9. CASE OpstackClient /\ UNCHANGED client
    <2>1. KeysInv' /\ Same
      BY <1>1, <1>9 DEF OpstackClient, vars
    <2> QED
      BY <1>9, <2>1 DEF Same, DictInv, OpstackClient, poolVars
  <1>8. CASE UNCHANGED allVars
    <2>1. KeysInv' /\ Same /\ Abstract' = Abstract
      BY <1>1, <1>8 DEF allVars, vars, Same
    <2>2. PoolInv => PoolInv'
      BY <1>8, <2>1 DEF allVars, vars, poolVars, PoolInv, Pointed
    <2> QED
      BY <1>8, <2>1, <2>2 DEF Same, DictInv, allVars, poolVars
  <1> QED
    BY <1>4, <1>5, <1>6, <1>7, <1>8, <1>9 DEF ClientNext

LEMMA DictIdentifies == DictInv /\ Unmoved => SymbolsIdentify
  BY PoolIdentifies DEF DictInv, SymbolsIdentify

(* A key is put into the map, or the map stays what it is. *)
LEMMA ClientPuts ==
  ASSUME ClientInv, [ClientNext]_allVars
  PROVE  \/ UNCHANGED <<entries, buffer>>
         \/ \E k \in Key : \E v \in Value : string_map_put(k, v)
  BY SomeValueIsValue
     DEF ClientNext, MapClient, PoolClient, ModuleClient, ArenaClient, OpstackClient, Next,
         string_pool_next, string_pool_intern, string_pool_interned, module_next,
         module_get, module_define, module_free, module_free_member, string_map_get,
         string_map_iter_begin, string_map_iter_next, allVars, vars

-----------------------------------------------------------------------------
(* The theorems. *)

LEMMA ClientAlways == ClientSpec => []ClientInv
  BY ClientStart, ClientStep, PTL DEF ClientSpec

(* string_map_iter_next comes by every entry once, for every client and for *)
(* any hash function, and ends after the last.                              *)
THEOREM IterationComplete == ClientSpec => []VisitsEachOnce
  <1>1. ClientInv => VisitsEachOnce
    BY IterVisits DEF ClientInv, MapInv
  <1> QED
    BY <1>1, ClientAlways, PTL

(* module_free drops each HValue that module_get made, and none twice.      *)
THEOREM ModuleReleases == ClientSpec => []MembersDroppedOnce
  <1> DEFINE Idle == client # "module" => life = "used"
  <1>1. ClientInit => Idle
    BY DEF ClientInit, module_init
  <1>2. Idle /\ [ClientNext]_allVars => Idle'
    BY DEF ClientNext, MapClient, PoolClient, ModuleClient, ArenaClient, OpstackClient,
           moduleVars, allVars
  <1>3. ClientInv /\ Idle => MembersDroppedOnce
    BY ModuleDrops DEF ClientInv, MembersDroppedOnce
  <1> HIDE DEF Idle
  <1> QED
    BY <1>1, <1>2, <1>3, ClientAlways, PTL DEF ClientSpec

(* An item that arena_push returned stays where it is, with what its owner  *)
(* wrote there, until it is truncated or the arena is freed.                *)
THEOREM ArenaPinsItems == ClientSpec => []ItemsPinned
  <1>1. ClientInv => ItemsPinned
    BY ArenaPinned DEF ClientInv
  <1> QED
    BY <1>1, ClientAlways, PTL

(* arena_iter_next comes by the items in the order they were pushed, and by *)
(* each of them before it returns NULL.                                     *)
THEOREM ArenaInOrder == ClientSpec => []IteratesInOrder
  <1>1. ClientInv => IteratesInOrder
    BY ArenaIterates DEF ClientInv
  <1> QED
    BY <1>1, ClientAlways, PTL

(* The key buffer is not moved as long as the keys fit into what            *)
(* buffer_init allocated.                                                   *)
THEOREM BufferStays == Fits /\ ClientSpec => []Unmoved
  <1>1. ASSUME NEW max \in Nat, \A k \in Key : Length[k] <= max,
               MaxEntries * max < Capacity
        PROVE  ClientSpec => []Unmoved
    <2>1. ClientInit => Room(max)
      BY RoomAtFirst DEF ClientInit
    <2>2. ClientInv /\ Room(max) /\ [ClientNext]_allVars => Room(max)'
      <3> SUFFICES ASSUME ClientInv, Room(max), [ClientNext]_allVars
                   PROVE  Room(max)'
        OBVIOUS
      <3>1. CASE UNCHANGED <<entries, buffer>>
        BY <3>1, SameKeepsRoom
      <3>2. CASE \E k \in Key : \E v \in Value : string_map_put(k, v)
        BY <1>1, <3>2, PutKeepsRoom DEF ClientInv, MapInv
      <3> QED
        BY <3>1, <3>2, ClientPuts
    <2>3. Room(max) => Unmoved
      BY DEF Room
    <2> QED
      BY <2>1, <2>2, <2>3, ClientAlways, PTL DEF ClientSpec
  <1>2. Fits => (ClientSpec => []Unmoved)
    BY <1>1 DEF Fits
  <1> QED
    BY <1>2

LEMMA DictAlways ==
  ClientSpec /\ []Unmoved => []DictInv /\ ImplementsDictionary
  <1>1. ClientInit => DictInv /\ Promise!Init
    BY DictStart
  <1>2. ClientInv /\ DictInv /\ Unmoved /\ Unmoved' /\ [ClientNext]_allVars
          => DictInv' /\ [Promise!Next]_<<Abstract, call, reply>>
    BY DictStep
  <1> QED
    BY <1>1, <1>2, ClientAlways, PTL DEF ClientSpec, ImplementsDictionary, Promise!Spec

(* While the key buffer is not moved, string_map_put and string_map_get     *)
(* report what a dictionary would, to every client and whatever hashes and  *)
(* buckets collide.                                                         *)
THEOREM MapIsDictionary == ClientSpec /\ []Unmoved => ImplementsDictionary
  BY DictAlways, PTL

(* While the key buffer is not moved, the symbols of string_pool_intern are *)
(* equal exactly when the strings are, and each points at its string.       *)
THEOREM SymbolsAreStrings == ClientSpec /\ []Unmoved => []SymbolsIdentify
  <1>1. DictInv /\ Unmoved => SymbolsIdentify
    BY DictIdentifies
  <1> QED
    BY <1>1, DictAlways, PTL

-----------------------------------------------------------------------------
(* The operand stack: whatever opcodes run, and wherever realloc moves the  *)
(* array, it is the abstract Stack.  What every call keeps, by what the      *)
(* opcode that makes it has still to do.                                     *)

(* The stages of an opcode, by the calls that it has still to make. *)
Peeking ==
  {<<"last", "push", "ref", "store">>, <<"last", "ref", "push", "store">>,
   <<"last", "part", "push", "store">>, <<"last", "check", "push", "store">>}
PushingFirst == <<"push", "ref", "store">>
Referencing == <<"ref", "push", "store">>
Parting == <<"part", "push", "store">>
Checking == <<"check", "push", "store">>
DroppingTop == <<"pop", "push", "store">>
PoppingTwo == <<"pop", "pop", "join", "push", "store">>
PoppingOne == <<"pop", "join", "push", "store">>
Joining == <<"join", "push", "store">>
Pushing == <<"push", "store">>
ReferencingLate == <<"ref", "store">>
Storing == <<"store">>
Popping == <<"pop">>
Swapping == <<"swap">>

Pending ==
  Peeking \cup {<<>>, PushingFirst, Referencing, Parting, Checking, DroppingTop, PoppingTwo,
    PoppingOne, Joining, Pushing, ReferencingLate, Storing, Popping, Swapping}

OpstackTypeOK ==
  /\ array \in Nat /\ length \in Nat /\ slot \in Nat
  /\ capacity \in Nat \ {0} /\ room \in Nat \ {0}
  /\ data \in [1..capacity -> Operand \cup {"garbage"}]
  /\ instr \in Instr \cup {<<>>}
  /\ todo \in Pending
  /\ last \in [array : Nat, index : Nat]
  /\ taken \in Seq(Operand)

(* The array holds the items but for the one that was pushed and is not     *)
(* stored yet, and has grown if there was no room for that one.             *)
ArrayHolds ==
  /\ \A i \in 1..Held : data[i] \in Operand
  /\ slot = 0 => length <= capacity /\ capacity = room
  /\ slot # 0 =>
       /\ slot = length /\ length - 1 <= room
       /\ capacity = IF length - 1 = room THEN room * 2 ELSE room
  /\ slot # 0 <=> todo \in {Storing, ReferencingLate}

TopItem == Items[Len(Items)]
ItemBelow == Items[Len(Items) - 1]
AtTop == last = [array |-> array, index |-> length]

(* What the opcode has found out: where it is, what is in its C variables. *)
DupFound ==
  \/ todo \in Peeking /\ Tail(todo) \in {PushingFirst, Referencing}
  \/ todo \in {PushingFirst, Referencing} /\ AtTop
  \/ /\ todo = ReferencingLate
     /\ last.index = length - 1 /\ (last.array = array \/ length - 1 = room)
  \/ /\ todo \in {Pushing, Storing}
     /\ operand \in Operand /\ (operand = TopItem \/ Len(Items) = room)

TupleGetFound ==
  \/ todo \in Peeking /\ Tail(todo) = Parting
  \/ todo = Parting /\ AtTop
  \/ todo \in {Pushing, Storing} /\ operand = Part[TopItem]

CheckFound ==
  \/ todo \in Peeking /\ Tail(todo) = Checking
  \/ todo = Checking /\ AtTop
  \/ todo = DroppingTop /\ TopItem \notin Passing /\ operand = Verdict[FALSE]
  \/ /\ todo \in {Pushing, Storing}
     /\ IF TopItem \in Passing THEN operand = Verdict[TRUE] /\ taken = <<>>
        ELSE operand = Verdict[FALSE] /\ Len(taken) = 1

JoinFound ==
  \/ todo = PoppingTwo
  \/ todo = PoppingOne /\ Len(taken) = 1
  \/ todo = Joining /\ Len(taken) = 2
  \/ /\ todo \in {Pushing, Storing} /\ Len(taken) = 2
     /\ operand = Joined[<<ItemBelow, TopItem>>]

Found ==
  /\ instr = <<>> <=> todo = <<>>
  /\ instr # <<>> => Takes[instr] <= Len(Items)
  /\ \/ taken = <<>>
     \/ todo \in {PoppingOne, Joining}
     \/ todo \in {Pushing, Storing} /\ instr[1] \in {"check", "join"}
  /\ instr # <<>> =>
       /\ instr[1] = "push" => todo \in {Pushing, Storing} /\ operand = instr[2]
       /\ instr[1] = "pop" => todo = Popping
       /\ instr[1] = "swap" => todo = Swapping
       /\ instr[1] = "dup" => DupFound
       /\ instr[1] = "tupleget" => TupleGetFound
       /\ instr[1] = "check" => CheckFound
       /\ instr[1] = "join" => JoinFound

OpstackInv == OpstackTypeOK /\ ArrayHolds /\ Found

LEMMA StageSteps ==
  /\ \A t \in Peeking : t # <<>> /\ Head(t) = "last"
       /\ Tail(t) \in {PushingFirst, Referencing, Parting, Checking}
  /\ Head(PushingFirst) = "push" /\ Tail(PushingFirst) = ReferencingLate
  /\ Head(Pushing) = "push" /\ Tail(Pushing) = Storing
  /\ Head(Referencing) = "ref" /\ Tail(Referencing) = Pushing
  /\ Head(ReferencingLate) = "ref" /\ Tail(ReferencingLate) = Storing
  /\ Head(Parting) = "part" /\ Tail(Parting) = Pushing
  /\ Head(Checking) = "check" /\ Tail(Checking) = Pushing
  /\ Head(DroppingTop) = "pop" /\ Tail(DroppingTop) = Pushing
  /\ Head(PoppingTwo) = "pop" /\ Tail(PoppingTwo) = PoppingOne
  /\ Head(PoppingOne) = "pop" /\ Tail(PoppingOne) = Joining
  /\ Head(Joining) = "join" /\ Tail(Joining) = Pushing
  /\ Head(Storing) = "store" /\ Tail(Storing) = <<>>
  /\ Head(Popping) = "pop" /\ Tail(Popping) = <<>>
  /\ Head(Swapping) = "swap" /\ Tail(Swapping) = <<>>
  <1>1. \A t \in Peeking : t # <<>> /\ Head(t) = "last"
       /\ Tail(t) \in {PushingFirst, Referencing, Parting, Checking}
    <2>1. ASSUME NEW t, t = <<"last", "push", "ref", "store">>
          PROVE  t # <<>> /\ Head(t) = "last" /\ Tail(t) = PushingFirst
      BY <2>1 DEF PushingFirst
    <2>2. ASSUME NEW t, t = <<"last", "ref", "push", "store">>
          PROVE  t # <<>> /\ Head(t) = "last" /\ Tail(t) = Referencing
      BY <2>2 DEF Referencing
    <2>3. ASSUME NEW t, t = <<"last", "part", "push", "store">>
          PROVE  t # <<>> /\ Head(t) = "last" /\ Tail(t) = Parting
      BY <2>3 DEF Parting
    <2>4. ASSUME NEW t, t = <<"last", "check", "push", "store">>
          PROVE  t # <<>> /\ Head(t) = "last" /\ Tail(t) = Checking
      BY <2>4 DEF Checking
    <2> QED
      BY <2>1, <2>2, <2>3, <2>4, Zenon DEF Peeking
  <1>2. Head(PushingFirst) = "push" /\ Tail(PushingFirst) = ReferencingLate
    BY DEF PushingFirst, ReferencingLate
  <1>3. Head(Pushing) = "push" /\ Tail(Pushing) = Storing
    BY DEF Pushing, Storing
  <1>4. Head(Referencing) = "ref" /\ Tail(Referencing) = Pushing
    BY DEF Referencing, Pushing
  <1>5. Head(ReferencingLate) = "ref" /\ Tail(ReferencingLate) = Storing
    BY DEF ReferencingLate, Storing
  <1>6. Head(Parting) = "part" /\ Tail(Parting) = Pushing
    BY DEF Parting, Pushing
  <1>7. Head(Checking) = "check" /\ Tail(Checking) = Pushing
    BY DEF Checking, Pushing
  <1>8. Head(DroppingTop) = "pop" /\ Tail(DroppingTop) = Pushing
    BY DEF DroppingTop, Pushing
  <1>9. Head(PoppingTwo) = "pop" /\ Tail(PoppingTwo) = PoppingOne
    BY DEF PoppingTwo, PoppingOne
  <1>10. Head(PoppingOne) = "pop" /\ Tail(PoppingOne) = Joining
    BY DEF PoppingOne, Joining
  <1>11. Head(Joining) = "join" /\ Tail(Joining) = Pushing
    BY DEF Joining, Pushing
  <1>12. Head(Storing) = "store" /\ Tail(Storing) = <<>>
    BY DEF Storing
  <1>13. Head(Popping) = "pop" /\ Tail(Popping) = <<>>
    BY DEF Popping
  <1>14. Head(Swapping) = "swap" /\ Tail(Swapping) = <<>>
    BY DEF Swapping
  <1> QED
    BY <1>1, <1>2, <1>3, <1>4, <1>5, <1>6, <1>7, <1>8, <1>9, <1>10, <1>11, <1>12, <1>13, <1>14

LEMMA StagesDiffer ==
  /\ <<>> \notin Peeking \cup {PushingFirst, Referencing, Parting, Checking, DroppingTop,
       PoppingTwo, PoppingOne, Joining, Pushing, ReferencingLate, Storing, Popping, Swapping}
  /\ \A t \in Peeking : t \notin {PushingFirst, Referencing, Parting, Checking, DroppingTop,
       PoppingTwo, PoppingOne, Joining, Pushing, ReferencingLate, Storing, Popping, Swapping}
  /\ PushingFirst \notin {Referencing, Parting, Checking, DroppingTop, PoppingTwo, PoppingOne,
       Joining, Pushing, ReferencingLate, Storing, Popping, Swapping}
  /\ Referencing \notin {Parting, Checking, DroppingTop, PoppingTwo, PoppingOne, Joining,
       Pushing, ReferencingLate, Storing, Popping, Swapping}
  /\ Parting \notin {Checking, DroppingTop, PoppingTwo, PoppingOne, Joining, Pushing,
       ReferencingLate, Storing, Popping, Swapping}
  /\ Checking \notin {DroppingTop, PoppingTwo, PoppingOne, Joining, Pushing, ReferencingLate,
       Storing, Popping, Swapping}
  /\ DroppingTop \notin {PoppingTwo, PoppingOne, Joining, Pushing, ReferencingLate, Storing,
       Popping, Swapping}
  /\ PoppingTwo \notin {PoppingOne, Joining, Pushing, ReferencingLate, Storing, Popping, Swapping}
  /\ PoppingOne \notin {Joining, Pushing, ReferencingLate, Storing, Popping, Swapping}
  /\ Joining \notin {Pushing, ReferencingLate, Storing, Popping, Swapping}
  /\ Pushing \notin {ReferencingLate, Storing, Popping, Swapping}
  /\ ReferencingLate \notin {Storing, Popping, Swapping}
  /\ Storing \notin {Popping, Swapping}
  /\ Popping # Swapping
  BY DEF Peeking, PushingFirst, Referencing, Parting, Checking, DroppingTop, PoppingTwo,
    PoppingOne, Joining, Pushing, ReferencingLate, Storing, Popping, Swapping

LEMMA InstrFacts ==
  ASSUME NEW i \in Instr
  PROVE  /\ i # <<>> /\ i[1] \in Opcodes /\ i[1] \in OpcodeNames
         /\ i[1] = "push" => i[2] \in Operand
         /\ Takes[i] = IF i[1] = "push" THEN 0 ELSE IF i[1] \in {"join", "swap"} THEN 2 ELSE 1
  <1>1. /\ i # <<>> /\ i[1] \in Opcodes
        /\ i[1] = "push" => i[2] \in Operand
    BY DEF Instr
  <1>2. Takes[i] = IF i[1] = "push" THEN 0 ELSE IF i[1] \in {"join", "swap"} THEN 2 ELSE 1
    BY DEF Takes
  <1> QED
    BY <1>1, <1>2, OpcodeAssumption

(* The items that are those in an array and, the last popped first, those   *)
(* that were popped.                                                       *)
ItemsIn(d, n, t) == [i \in 1..n |-> d[i]] \o Reverse(t)

ReadAs(items, d, n, t) ==
  /\ items \in Seq(Operand)
  /\ Len(items) = n + Len(t)
  /\ \A i \in 1..n : items[i] = d[i]
  /\ \A i \in 1..Len(t) : items[n + i] = t[Len(t) + 1 - i]

LEMMA ItemsOf ==
  ASSUME NEW d, NEW n \in Nat, \A i \in 1..n : d[i] \in Operand, NEW t \in Seq(Operand)
  PROVE  ReadAs(ItemsIn(d, n, t), d, n, t)
  <1>1. Len(t) \in Nat
    OBVIOUS
  <1> DEFINE low == [i \in 1..n |-> d[i]]
             high == Reverse(t)
             items == ItemsIn(d, n, t)
  <1>2. low \in Seq(Operand) /\ Len(low) = n /\ \A i \in 1..n : low[i] = d[i]
    BY IsASeq
  <1>3. /\ high \in Seq(Operand) /\ Len(high) = Len(t)
        /\ \A i \in 1..Len(t) : high[i] = t[Len(t) + 1 - i]
    <2>1. \A i \in 1..Len(t) : Len(t) - i + 1 \in 1..Len(t) /\ t[Len(t) - i + 1] \in Operand
      BY <1>1, ElementOfSeq
    <2>2. high = [i \in 1..Len(t) |-> t[Len(t) - i + 1]]
      BY DEF Reverse
    <2> HIDE DEF high
    <2>3. high \in Seq(Operand) /\ Len(high) = Len(t)
      BY <1>1, <2>1, <2>2, IsASeq
    <2> QED
      BY <1>1, <2>2, <2>3
  <1>4. items = low \o high
    BY DEF ItemsIn
  <1> HIDE DEF low, high, items
  <1>5. /\ items \in Seq(Operand) /\ Len(items) = n + Len(t)
        /\ \A i \in 1..n + Len(t) : items[i] = IF i <= n THEN low[i] ELSE high[i - n]
    <2>1. low \in Seq(Operand) /\ high \in Seq(Operand)
      BY <1>2, <1>3
    <2>2. /\ low \o high \in Seq(Operand) /\ Len(low \o high) = Len(low) + Len(high)
          /\ \A i \in 1..Len(low) + Len(high) :
               (low \o high)[i] = IF i <= Len(low) THEN low[i] ELSE high[i - Len(low)]
      BY <2>1, ConcatProperties, Zenon
    <2> QED
      BY <1>2, <1>3, <1>4, <2>2
  <1>6. \A i \in 1..n : items[i] = d[i]
    BY <1>1, <1>2, <1>5
  <1>7. ASSUME NEW i \in 1..Len(t) PROVE items[n + i] = t[Len(t) + 1 - i]
    <2>1. ASSUME NEW k \in 1..n + Len(t), ~(k <= n) PROVE items[k] = high[k - n]
      BY <1>5, <2>1
    <2>2. PICK k : k = n + i
      OBVIOUS
    <2>3. k \in 1..n + Len(t) /\ ~(k <= n) /\ k - n = i
      BY <1>1, <2>2
    <2>4. items[k] = high[i]
      BY <2>1, <2>3
    <2> QED
      BY <1>3, <2>2, <2>4
  <1> QED
    BY <1>1, <1>5, <1>6, <1>7 DEF items, ReadAs

LEMMA ItemsFacts ==
  ASSUME OpstackTypeOK, ArrayHolds
  PROVE  /\ Held \in Nat /\ Len(taken) \in Nat
         /\ Items \in Seq(Operand)
         /\ Len(Items) = Held + Len(taken)
         /\ \A i \in 1..Held : Items[i] = data[i]
         /\ \A i \in 1..Len(taken) : Items[Held + i] = taken[Len(taken) + 1 - i]
  <1>1. Held \in Nat /\ \A i \in 1..Held : data[i] \in Operand
    BY DEF Held, OpstackTypeOK, ArrayHolds
  <1>2. Items = ItemsIn(data, Held, taken)
    BY DEF Items, ItemsIn
  <1>3. taken \in Seq(Operand)
    BY DEF OpstackTypeOK
  <1>4. ReadAs(Items, data, Held, taken)
    BY <1>1, <1>2, <1>3, ItemsOf, Zenon
  <1>5. Len(taken) \in Nat
    BY <1>3
  <1> QED
    BY <1>1, <1>4, <1>5, Zenon DEF ReadAs

(* What an action that leaves these alone leaves of the invariant. *)
LEMMA SameItems ==
  ASSUME UNCHANGED <<data, length, slot, taken>>
  PROVE  UNCHANGED <<Held, Items, TopItem, ItemBelow>>
  BY DEF Held, Items, TopItem, ItemBelow

(* Where an opcode is, and what there is then. *)
LEMMA AtStage ==
  ASSUME OpstackInv, todo # <<>>
  PROVE  /\ instr \in Instr /\ instr[1] \in OpcodeNames
         /\ Takes[instr] = IF instr[1] = "push" THEN 0
                           ELSE IF instr[1] \in {"join", "swap"} THEN 2 ELSE 1
         /\ Takes[instr] <= Len(Items)
         /\ Head(todo) = "last" => todo \in Peeking
         /\ Head(todo) = "push" => todo \in {Pushing, PushingFirst}
         /\ Head(todo) = "ref" => todo \in {Referencing, ReferencingLate}
         /\ Head(todo) = "part" => todo = Parting
         /\ Head(todo) = "check" => todo = Checking
         /\ Head(todo) = "pop" => todo \in {DroppingTop, PoppingTwo, PoppingOne, Popping}
         /\ Head(todo) = "join" => todo = Joining
         /\ Head(todo) = "store" => todo = Storing
         /\ Head(todo) = "swap" => todo = Swapping
  <1>1. instr \in Instr /\ Takes[instr] <= Len(Items) /\ todo \in Pending
    BY DEF OpstackInv, OpstackTypeOK, Found, DupFound, TupleGetFound, CheckFound, JoinFound
  <1>2. /\ instr[1] \in OpcodeNames
        /\ Takes[instr] = IF instr[1] = "push" THEN 0
                          ELSE IF instr[1] \in {"join", "swap"} THEN 2 ELSE 1
    BY <1>1, InstrFacts
  <1> HIDE
     DEF Peeking, PushingFirst, Referencing, Parting, Checking, DroppingTop, PoppingTwo,
    PoppingOne, Joining, Pushing, ReferencingLate, Storing, Popping, Swapping
  <1> QED
    BY <1>1, <1>2, StageSteps DEF Pending

LEMMA LastKeeps ==
  ASSUME OpstackInv, vector_last
  PROVE  OpstackInv' /\ UNCHANGED <<Items, room, instr>>
  <1>1. todo \in Peeking /\ todo' = Tail(todo) /\ todo # <<>>
    BY AtStage DEF vector_last, Call, Then
  <1>2. todo' \in {PushingFirst, Referencing, Parting, Checking}
    BY <1>1, StageSteps
  <1>3. UNCHANGED <<data, array, length, capacity, slot, operand, taken, room, instr>> /\ AtTop'
    BY <1>2, <1>1, StagesDiffer DEF vector_last, Then, AtTop
  <1>4. UNCHANGED <<Held, Items, TopItem, ItemBelow>>
    BY <1>3, SameItems
  <1>5. OpstackTypeOK'
    BY <1>2, <1>3 DEF OpstackInv, OpstackTypeOK, Pending, AtTop
  <1>6. ArrayHolds'
    BY <1>1, <1>2, <1>3, <1>4, StagesDiffer DEF OpstackInv, ArrayHolds
  <1>7. Found'
    BY <1>1, <1>2, <1>3, <1>4, AtStage, StagesDiffer
       DEF OpstackInv, Found, DupFound, TupleGetFound, CheckFound, JoinFound
  <1> QED
    BY <1>3, <1>4, <1>5, <1>6, <1>7 DEF OpstackInv

LEMMA RefKeeps ==
  ASSUME OpstackInv, hvalue_ref
  PROVE  OpstackInv' /\ UNCHANGED <<Items, room, instr>>
  <1>1. /\ todo \in {Referencing, ReferencingLate} /\ todo' = Tail(todo)
        /\ Tail(todo) \in {Pushing, Storing} /\ instr[1] = "dup"
    <2>1. todo \in {Referencing, ReferencingLate} /\ todo' = Tail(todo)
      BY AtStage DEF hvalue_ref, Call, Then
    <2>2. instr[1] = "dup"
      BY <2>1, AtStage, StagesDiffer
         DEF OpcodeNames, OpstackInv, Found, DupFound, TupleGetFound, CheckFound,
           JoinFound, hvalue_ref, Call
    <2> QED
      BY <2>1, <2>2, StageSteps
  <1>2. UNCHANGED <<data, array, length, capacity, last, slot, taken, room, instr>>
    BY <1>1, StagesDiffer DEF hvalue_ref, Then
  <1>3. UNCHANGED <<Held, Items, TopItem, ItemBelow>>
    BY <1>2, SameItems
  <1>4. /\ taken = <<>> /\ Len(Items) = Held /\ Held \in Nat \ {0}
        /\ TopItem = data[Held] /\ data[Held] \in Operand
    <2>1. taken = <<>> /\ 1 <= Len(Items)
      BY <1>1, AtStage, StagesDiffer
         DEF OpstackInv, Found, DupFound, TupleGetFound, CheckFound, JoinFound, hvalue_ref,
           Call
    <2>2. Len(Items) = Held /\ Held \in Nat /\ \A i \in 1..Held : Items[i] = data[i]
      BY <2>1, ItemsFacts DEF OpstackInv
    <2> QED
      BY <2>1, <2>2 DEF OpstackInv, ArrayHolds, TopItem
  <1>5. operand' \in Operand /\ (operand' = TopItem' \/ Len(Items') = room')
    <2>1. CASE todo = Referencing
      <3>1. AtTop /\ slot = 0
        BY <2>1, <1>1, AtStage, StagesDiffer
           DEF OpstackInv, Found, DupFound, TupleGetFound, CheckFound, JoinFound,
             ArrayHolds, hvalue_ref, Call
      <3>2. operand' = data[Held]
        BY <3>1 DEF hvalue_ref, Deref, AtTop, Held
      <3> QED
        BY <3>2, <1>3, <1>4
    <2>2. CASE todo = ReferencingLate
      <3>1. /\ slot # 0 /\ last.index = length - 1
            /\ last.array = array \/ length - 1 = room
        BY <2>2, <1>1, AtStage, StagesDiffer
           DEF OpstackInv, Found, DupFound, TupleGetFound, CheckFound, JoinFound,
             ArrayHolds, hvalue_ref, Call
      <3>2. Held = length - 1
        BY <3>1 DEF Held
      <3>3. CASE last.array = array
        <4>1. operand' = data[Held]
          BY <3>1, <3>2, <3>3 DEF hvalue_ref, Deref
        <4> QED
          BY <4>1, <1>3, <1>4
      <3>4. CASE last.array # array
        <4>1. operand' \in Operand
          BY <3>4 DEF hvalue_ref, Deref
        <4> QED
          BY <4>1, <3>1, <3>2, <3>4, <1>2, <1>3, <1>4
      <3> QED
        BY <3>3, <3>4
    <2> QED
      BY <1>1, <2>1, <2>2
  <1>6. OpstackTypeOK'
    BY <1>1, <1>2 DEF OpstackInv, OpstackTypeOK, Pending
  <1>7. ArrayHolds'
    BY <1>1, <1>2, <1>3, StageSteps, StagesDiffer DEF OpstackInv, ArrayHolds
  <1>8. Found'
    BY <1>1, <1>2, <1>3, <1>4, <1>5, AtStage, StagesDiffer
       DEF OpstackInv, Found, DupFound, TupleGetFound, CheckFound, JoinFound, hvalue_ref,
         Call
  <1> QED
    BY <1>2, <1>3, <1>6, <1>7, <1>8 DEF OpstackInv

LEMMA TupleGetKeeps ==
  ASSUME OpstackInv, hvalue_tuple_get
  PROVE  OpstackInv' /\ UNCHANGED <<Items, room, instr>>
  <1>1. todo = Parting /\ todo' = Pushing /\ instr[1] = "tupleget"
    <2>1. todo = Parting /\ todo' = Pushing
      BY AtStage, StageSteps DEF hvalue_tuple_get, Call, Then
    <2>2. instr[1] = "tupleget"
      BY <2>1, AtStage, StagesDiffer
         DEF OpcodeNames, OpstackInv, Found, DupFound, TupleGetFound, CheckFound,
           JoinFound, hvalue_tuple_get, Call
    <2> QED
      BY <2>1, <2>2
  <1>2. UNCHANGED <<data, array, length, capacity, last, slot, taken, room, instr>>
    BY <1>1, StageSteps, StagesDiffer DEF hvalue_tuple_get, Then
  <1>3. UNCHANGED <<Held, Items, TopItem, ItemBelow>>
    BY <1>2, SameItems
  <1>4. taken = <<>> /\ AtTop /\ slot = 0 /\ 1 <= Len(Items)
    BY <1>1, AtStage, StagesDiffer
       DEF OpstackInv, Found, DupFound, TupleGetFound, CheckFound, JoinFound, ArrayHolds,
         hvalue_tuple_get, Call
  <1>5. Held = length /\ Len(Items) = Held /\ TopItem = data[length]
    <2>1. Len(Items) = Held /\ Held \in Nat /\ \A i \in 1..Held : Items[i] = data[i]
      BY <1>4, ItemsFacts DEF OpstackInv
    <2> QED
      BY <1>4, <2>1 DEF Held, TopItem
  <1>6. operand' = Part[TopItem']
    BY <1>3, <1>4, <1>5 DEF hvalue_tuple_get, Deref, AtTop
  <1>7. OpstackTypeOK'
    BY <1>1, <1>2 DEF OpstackInv, OpstackTypeOK, Pending
  <1>8. ArrayHolds'
    BY <1>1, <1>2, <1>3, StagesDiffer DEF OpstackInv, ArrayHolds
  <1>9. Found'
    BY <1>1, <1>2, <1>3, <1>4, <1>6, AtStage, StagesDiffer
       DEF OpstackInv, Found, DupFound, TupleGetFound, CheckFound, JoinFound,
         hvalue_tuple_get, Call
  <1> QED
    BY <1>2, <1>3, <1>7, <1>8, <1>9 DEF OpstackInv

LEMMA CheckKeeps ==
  ASSUME OpstackInv, check_last
  PROVE  OpstackInv' /\ UNCHANGED <<Items, room, instr>>
  <1>1. todo = Checking /\ todo' \in {Pushing, DroppingTop} /\ instr[1] = "check" /\ instr' = instr
    <2>1. todo = Checking /\ todo' \in {Pushing, DroppingTop}
      BY AtStage DEF check_last, Call, Then, Pushing, DroppingTop
    <2>2. instr[1] = "check"
      BY <2>1, AtStage, StagesDiffer
         DEF OpcodeNames, OpstackInv, Found, DupFound, TupleGetFound, CheckFound,
           JoinFound, check_last, Call
    <2>3. instr' = instr
      BY <2>1, StagesDiffer DEF check_last, Then
    <2> QED
      BY <2>1, <2>2, <2>3
  <1>2. UNCHANGED <<data, array, length, capacity, last, slot, taken, room, instr>>
    BY <1>1 DEF check_last
  <1>3. UNCHANGED <<Held, Items, TopItem, ItemBelow>>
    BY <1>2, SameItems
  <1>4. taken = <<>> /\ AtTop /\ slot = 0 /\ 1 <= Len(Items)
    BY <1>1, AtStage, StagesDiffer
       DEF OpstackInv, Found, DupFound, TupleGetFound, CheckFound, JoinFound, ArrayHolds,
         check_last, Call
  <1>5. Held = length /\ Len(Items) = Held /\ TopItem = data[length]
    <2>1. Len(Items) = Held /\ Held \in Nat /\ \A i \in 1..Held : Items[i] = data[i]
      BY <1>4, ItemsFacts DEF OpstackInv
    <2> QED
      BY <1>4, <2>1 DEF Held, TopItem
  <1>6. IF TopItem \in Passing THEN operand' = Verdict[TRUE] /\ todo' = Pushing
        ELSE operand' = Verdict[FALSE] /\ todo' = DroppingTop
    <2>1. Deref(last) = {TopItem}
      BY <1>4, <1>5 DEF Deref, AtTop
    <2>2. operand' = Verdict[(TopItem \in Passing)]
      BY <2>1 DEF check_last
    <2>3. todo' = IF TopItem \in Passing THEN Pushing ELSE DroppingTop
      BY <2>1 DEF check_last, Then, Pushing, DroppingTop
    <2>4. CASE TopItem \in Passing
      <3>1. (TopItem \in Passing) = TRUE
        BY <2>4
      <3> QED
        BY <2>2, <2>3, <2>4, <3>1, Zenon
    <2>5. CASE TopItem \notin Passing
      <3>1. (TopItem \in Passing) = FALSE
        BY <2>5
      <3> QED
        BY <2>2, <2>3, <2>5, <3>1, Zenon
    <2> QED
      BY <2>4, <2>5
  <1>7. OpstackTypeOK'
    BY <1>1, <1>2 DEF OpstackInv, OpstackTypeOK, Pending
  <1>8. ArrayHolds'
    BY <1>1, <1>2, <1>3, StagesDiffer DEF OpstackInv, ArrayHolds
  <1>9. Found'
    BY <1>1, <1>2, <1>3, <1>4, <1>6, AtStage, StagesDiffer
       DEF OpstackInv, Found, DupFound, TupleGetFound, CheckFound, JoinFound, check_last,
         Call
  <1> QED
    BY <1>2, <1>3, <1>7, <1>8, <1>9 DEF OpstackInv

LEMMA VectorPushKeeps ==
  ASSUME OpstackInv, vector_push
  PROVE  OpstackInv' /\ UNCHANGED <<Items, room, instr>>
  <1>1. /\ todo \in {Pushing, PushingFirst} /\ todo # <<>>
        /\ todo' = IF todo = Pushing THEN Storing ELSE ReferencingLate
    BY AtStage, StageSteps, StagesDiffer DEF vector_push, Call, Then
  <1>2. UNCHANGED <<last, operand, taken, room, instr>>
    BY <1>1, StagesDiffer DEF vector_push, Then
  <1>3. /\ slot = 0 /\ Held = length /\ length \in Nat /\ length <= capacity /\ capacity = room
        /\ capacity \in Nat \ {0}
    BY <1>1, StagesDiffer DEF OpstackInv, OpstackTypeOK, ArrayHolds, Held
  <1>4. /\ slot' = length + 1 /\ length' = length + 1 /\ Held' = length
        /\ capacity' = IF length = room THEN room * 2 ELSE room
    BY <1>3 DEF vector_push, Full, Held
  <1>5. /\ data' \in [1..capacity' -> Operand \cup {"garbage"}]
        /\ \A i \in 1..length : data'[i] = data[i]
        /\ array' \in Nat
        /\ array' = array \/ length = room
    BY <1>3, <1>4 DEF vector_push, Full, Reallocated, OpstackInv, OpstackTypeOK
  <1>6. UNCHANGED <<Held, Items, TopItem, ItemBelow>>
    <2>1. [i \in 1..Held |-> data[i]]' = [i \in 1..Held |-> data[i]]
      BY <1>3, <1>4, <1>5
    <2>2. Held' = Held /\ Reverse(taken)' = Reverse(taken)
      BY <1>2, <1>3, <1>4 DEF Reverse
    <2>3. Items' = Items
      BY <2>1, <2>2, Zenon DEF Items
    <2> QED
      BY <2>2, <2>3 DEF TopItem, ItemBelow
  <1>7. OpstackTypeOK'
    BY <1>1, <1>2, <1>3, <1>4, <1>5 DEF OpstackInv, OpstackTypeOK, Pending
  <1>8. ArrayHolds'
    BY <1>1, <1>2, <1>3, <1>4, <1>5, <1>6 DEF OpstackInv, ArrayHolds
  <1>9. Found'
    <2>1. CASE todo = Pushing
      BY <1>1, <1>2, <1>6, <2>1, AtStage, StagesDiffer
         DEF OpstackInv, Found, DupFound, TupleGetFound, CheckFound, JoinFound, OpcodeNames
    <2>2. CASE todo = PushingFirst
      <3>1. instr[1] = "dup" /\ AtTop /\ taken = <<>>
        BY <1>1, <2>2, AtStage, StagesDiffer
           DEF OpstackInv, Found, DupFound, TupleGetFound, CheckFound, JoinFound,
             OpcodeNames
      <3>2. last'.index = length' - 1 /\ (last'.array = array' \/ length' - 1 = room')
        BY <1>2, <1>3, <1>4, <1>5, <3>1 DEF AtTop
      <3> QED
        BY <1>1, <1>2, <1>6, <2>2, <3>1, <3>2, AtStage, StagesDiffer
           DEF OpstackInv, Found, DupFound, TupleGetFound, CheckFound, JoinFound
    <2> QED
      BY <1>1, <2>1, <2>2
  <1> QED
    BY <1>2, <1>6, <1>7, <1>8, <1>9 DEF OpstackInv

LEMMA JoinKeeps ==
  ASSUME OpstackInv, join_taken
  PROVE  OpstackInv' /\ UNCHANGED <<Items, room, instr>>
  <1>1. todo = Joining /\ todo' = Pushing /\ instr[1] = "join" /\ Len(taken) = 2
    <2>1. todo = Joining /\ todo' = Pushing
      BY AtStage, StageSteps DEF join_taken, Call, Then
    <2>2. instr[1] = "join" /\ Len(taken) = 2
      BY <2>1, AtStage, StagesDiffer
         DEF OpcodeNames, OpstackInv, Found, DupFound, TupleGetFound, CheckFound,
           JoinFound, join_taken, Call
    <2> QED
      BY <2>1, <2>2
  <1>2. UNCHANGED <<data, array, length, capacity, last, slot, taken, room, instr>>
    BY <1>1, StageSteps, StagesDiffer DEF join_taken, Then
  <1>3. UNCHANGED <<Held, Items, TopItem, ItemBelow>>
    BY <1>2, SameItems
  <1>4. TopItem = taken[1] /\ ItemBelow = taken[2]
    <2>1. /\ Held \in Nat /\ Len(Items) = Held + 2
          /\ \A i \in 1..2 : Items[Held + i] = taken[2 + 1 - i]
      BY <1>1, ItemsFacts DEF OpstackInv
    <2>2. Items[Held + 2] = taken[1] /\ Items[Held + 1] = taken[2]
      BY <2>1
    <2>3. Len(Items) - 1 = Held + 1
      BY <2>1
    <2> QED
      BY <2>1, <2>2, <2>3, Zenon DEF TopItem, ItemBelow
  <1>5. operand' = Joined[<<ItemBelow', TopItem'>>]
    BY <1>3, <1>4 DEF join_taken
  <1>6. OpstackTypeOK'
    BY <1>1, <1>2 DEF OpstackInv, OpstackTypeOK, Pending
  <1>7. ArrayHolds'
    BY <1>1, <1>2, <1>3, StagesDiffer DEF OpstackInv, ArrayHolds
  <1>8. Found'
    BY <1>1, <1>2, <1>3, <1>5, AtStage, StagesDiffer
       DEF OpstackInv, Found, DupFound, TupleGetFound, CheckFound, JoinFound, join_taken,
         Call
  <1> QED
    BY <1>2, <1>3, <1>6, <1>7, <1>8 DEF OpstackInv

(* A pop that is not the end of its opcode. *)
LEMMA PopKeeps ==
  ASSUME OpstackInv, vector_pop, Tail(todo) # <<>>
  PROVE  OpstackInv' /\ UNCHANGED <<Items, room, instr>>
  <1>1. /\ todo \in {DroppingTop, PoppingTwo, PoppingOne}
        /\ todo' = Tail(todo) /\ todo' \in {Pushing, PoppingOne, Joining}
        /\ todo' = Pushing <=> todo = DroppingTop
        /\ todo' = Joining <=> todo = PoppingOne
    BY AtStage, StageSteps, StagesDiffer DEF vector_pop, Call, Then
  <1>2. UNCHANGED <<data, array, capacity, last, slot, operand, room, instr>>
    BY <1>1 DEF vector_pop, Then
  <1>3. /\ slot = 0 /\ taken \in Seq(Operand) /\ length \in Nat /\ Held = length
        /\ \A i \in 1..length : data[i] \in Operand
        /\ length <= capacity /\ capacity = room
    BY <1>1, StagesDiffer DEF OpstackInv, OpstackTypeOK, ArrayHolds, Held
  <1>4. /\ instr[1] = IF todo = DroppingTop THEN "check" ELSE "join"
        /\ Len(taken) = IF todo = PoppingOne THEN 1 ELSE 0
        /\ Takes[instr] <= Len(Items) /\ Takes[instr] = IF todo = DroppingTop THEN 1 ELSE 2
    <2>1. taken = <<>> => Len(taken) = 0
      BY EmptySeq
    <2>2. Call("pop") /\ todo # <<>>
      BY DEF vector_pop, Call
    <2>3. instr[1] = IF todo = DroppingTop THEN "check" ELSE "join"
      BY <1>1, <2>2, AtStage, StagesDiffer
         DEF OpcodeNames, OpstackInv, Found, DupFound, TupleGetFound, CheckFound, JoinFound
    <2>4. Len(taken) = IF todo = PoppingOne THEN 1 ELSE 0
      BY <1>1, <2>1, <2>2, <2>3, AtStage, StagesDiffer
         DEF OpstackInv, Found, DupFound, TupleGetFound, CheckFound, JoinFound
    <2> QED
      BY <1>1, <2>2, <2>3, <2>4, AtStage, StagesDiffer
  <1>5. /\ Len(Items) = length + Len(taken) /\ length >= 1 /\ Len(taken) \in Nat
        /\ \A i \in 1..length : Items[i] = data[i]
        /\ \A i \in 1..Len(taken) : Items[length + i] = taken[Len(taken) + 1 - i]
        /\ Items \in Seq(Operand)
    <2>1. /\ Held \in Nat /\ Len(taken) \in Nat /\ Items \in Seq(Operand)
          /\ Len(Items) = Held + Len(taken)
          /\ \A i \in 1..Held : Items[i] = data[i]
          /\ \A i \in 1..Len(taken) : Items[Held + i] = taken[Len(taken) + 1 - i]
      BY ItemsFacts DEF OpstackInv
    <2>2. length >= 1
      BY <1>1, <1>3, <1>4, <2>1, StagesDiffer
    <2> QED
      BY <1>3, <2>1, <2>2, Zenon
  <1>6. /\ length' = length - 1 /\ Held' = length - 1
        /\ taken' = Append(taken, data[length])
    BY <1>2, <1>3, <1>5 DEF vector_pop, Held
  <1>7. /\ taken' \in Seq(Operand) /\ Len(taken') = Len(taken) + 1
        /\ taken'[Len(taken) + 1] = data[length]
        /\ \A i \in 1..Len(taken) : taken'[i] = taken[i]
    BY <1>3, <1>5, <1>6, AppendProperties
  <1>8. OpstackTypeOK'
    BY <1>1, <1>2, <1>3, <1>5, <1>6, <1>7 DEF OpstackInv, OpstackTypeOK, Pending
  <1>9. ArrayHolds'
    <2>1. \A i \in 1..Held' : data'[i] \in Operand
      BY <1>2, <1>3, <1>5, <1>6
    <2>2. slot' = 0 /\ length' <= capacity' /\ capacity' = room'
      BY <1>2, <1>3, <1>5, <1>6, <1>8 DEF OpstackTypeOK
    <2> QED
      BY <1>1, <2>1, <2>2, StagesDiffer DEF ArrayHolds
  <1>10. Items' = Items
    <2>1. /\ Items' \in Seq(Operand) /\ Len(Items') = length - 1 + (Len(taken) + 1)
          /\ \A i \in 1..length - 1 : Items'[i] = data[i]
          /\ \A i \in 1..Len(taken) + 1 :
               Items'[length - 1 + i] = taken'[Len(taken) + 1 + 1 - i]
      <3>1. /\ length - 1 \in Nat
            /\ \A i \in 1..length - 1 : data[i] \in Operand
            /\ Items' = ItemsIn(data, length - 1, taken')
        <4>1. length - 1 \in Nat /\ \A i \in 1..length - 1 : data[i] \in Operand
          BY <1>3, <1>5
        <4>2. Items' = [i \in 1..length - 1 |-> data'[i]] \o Reverse(taken')
          BY <1>6, Zenon DEF Items, Reverse
        <4> QED
          BY <1>2, <4>1, <4>2, Zenon DEF ItemsIn
      <3> DEFINE m == length - 1
      <3>2. m \in Nat /\ \A i \in 1..m : data[i] \in Operand
        BY <3>1
      <3>3. Items' = ItemsIn(data, m, taken')
        BY <3>1
      <3> HIDE DEF m
      <3>4. ReadAs(Items', data, m, taken')
        BY <3>2, <3>3, <1>7, ItemsOf, Zenon
      <3>5. Len(taken') = Len(taken) + 1
        BY <1>7
      <3> QED
        BY <3>4, <3>5, Zenon DEF m, ReadAs
    <2>2. Len(Items') = Len(Items)
      BY <1>3, <1>5, <2>1
    <2>3. ASSUME NEW k \in 1..Len(Items) PROVE Items[k] = Items'[k]
      <3>1. CASE k < length
        BY <1>3, <1>5, <2>1, <3>1
      <3>2. CASE k = length
        <4>1. Items'[length - 1 + 1] = taken'[Len(taken) + 1 + 1 - 1]
          BY <1>5, <2>1
        <4>2. length - 1 + 1 = length /\ Len(taken) + 1 + 1 - 1 = Len(taken) + 1
          BY <1>3, <1>5
        <4>3. Items'[length] = data[length]
          BY <4>1, <4>2, <1>7, Zenon
        <4> QED
          BY <4>3, <1>3, <1>5, <3>2
      <3>3. CASE k > length
        <4>1. PICK j : j = k - length
          OBVIOUS
        <4>2. /\ j \in 1..Len(taken) /\ k = length + j /\ j + 1 \in 1..Len(taken) + 1
              /\ k = length - 1 + (j + 1)
              /\ Len(taken) + 1 + 1 - (j + 1) = Len(taken) + 1 - j
              /\ Len(taken) + 1 - j \in 1..Len(taken)
          BY <1>3, <1>5, <3>3, <4>1
        <4>3. Items'[k] = taken'[Len(taken) + 1 - j]
          BY <2>1, <4>2, Zenon
        <4>4. Items[k] = taken[Len(taken) + 1 - j]
          BY <1>5, <4>2, Zenon
        <4> QED
          BY <1>7, <4>2, <4>3, <4>4, Zenon
      <3> QED
        BY <1>3, <1>5, <3>1, <3>2, <3>3
    <2> QED
      BY <1>5, <2>1, <2>2, <2>3, SeqEqual
  <1>11. UNCHANGED <<TopItem, ItemBelow>>
    BY <1>10 DEF TopItem, ItemBelow
  <1>12. Len(taken') = IF todo' = Joining THEN 2 ELSE 1
    BY <1>1, <1>4, <1>7, StagesDiffer
  <1>13. Found'
    <2>1. Call("pop") /\ todo # <<>>
      BY DEF vector_pop, Call
    <2> QED
      BY <2>1, <1>1, <1>2, <1>4, <1>10, <1>11, <1>12, AtStage, StagesDiffer
         DEF OpstackInv, Found, DupFound, TupleGetFound, CheckFound, JoinFound
  <1> QED
    BY <1>2, <1>8, <1>9, <1>10, <1>13 DEF OpstackInv

-----------------------------------------------------------------------------
(* The ends of the opcodes: what they leave on the abstract stack. *)

LEMMA StoreEnds ==
  ASSUME OpstackInv, store
  PROVE  /\ OpstackInv'
         /\ AbstractStack!End /\ (AbstractStack!Dup \/ AbstractStack!Other)
  <1>1. /\ todo = Storing /\ todo # <<>> /\ todo' = <<>> /\ instr' = <<>>
        /\ instr \in Instr /\ instr # <<>>
    BY AtStage, StageSteps, StagesDiffer, InstrFacts DEF store, Call, Then
  <1>2. /\ slot = length /\ length \in Nat \ {0} /\ length <= capacity /\ Held = length - 1
        /\ Held \in Nat
        /\ capacity = IF length - 1 >= room THEN room * 2 ELSE room
        /\ capacity \in Nat \ {0} /\ room \in Nat \ {0}
    BY <1>1, StagesDiffer DEF OpstackInv, OpstackTypeOK, ArrayHolds, Held
  <1>3. /\ data' = [data EXCEPT ![length] = operand]
        /\ last' = NoPtr /\ slot' = 0 /\ taken' = <<>> /\ room' = capacity
        /\ UNCHANGED <<array, length, capacity>>
    BY <1>2 DEF store
  <1>4. operand \in Operand
    <2>1. (TopItem \in Operand /\ ItemBelow \in Operand) \/ Len(Items) < 2
      BY ItemsFacts, ElementOfSeq DEF OpstackInv, TopItem, ItemBelow
    <2>2. TopItem \in Operand \/ Len(Items) = 0
      BY ItemsFacts, ElementOfSeq DEF OpstackInv, TopItem
    <2>3. CASE instr[1] = "push"
      BY <1>1, <2>3, InstrFacts
         DEF OpstackInv, Found, DupFound, TupleGetFound, CheckFound, JoinFound
    <2>4. CASE instr[1] = "dup"
      BY <1>1, <2>4, StagesDiffer
         DEF OpstackInv, Found, DupFound, TupleGetFound, CheckFound, JoinFound
    <2>5. CASE instr[1] = "tupleget"
      <3>1. operand = Part[TopItem] /\ Len(Items) # 0
        BY <1>1, <2>5, AtStage, StagesDiffer
           DEF OpstackInv, Found, DupFound, TupleGetFound, CheckFound, JoinFound
      <3> QED
        BY <3>1, <2>2, OperandAssumption
    <2>6. CASE instr[1] = "check"
      <3>1. operand = Verdict[TRUE] \/ operand = Verdict[FALSE]
        BY <1>1, <2>6, AtStage, StagesDiffer
           DEF OpstackInv, Found, DupFound, TupleGetFound, CheckFound, JoinFound
      <3> QED
        BY <3>1, OperandAssumption
    <2>7. CASE instr[1] = "join"
      <3>1. operand = Joined[<<ItemBelow, TopItem>>] /\ Len(Items) >= 2
        BY <1>1, <2>7, AtStage, StagesDiffer
           DEF OpstackInv, Found, DupFound, TupleGetFound, CheckFound, JoinFound
      <3>2. Len(Items) \in Nat
        BY ItemsFacts DEF OpstackInv
      <3> QED
        BY <3>1, <3>2, <2>1, OperandAssumption
    <2> QED
      BY <1>1, <2>3, <2>4, <2>5, <2>6, <2>7, AtStage, StagesDiffer
         DEF OpcodeNames, OpstackInv, Found, DupFound, TupleGetFound, CheckFound, JoinFound
  <1>5. /\ Len(taken) \in Nat /\ Items \in Seq(Operand) /\ Len(Items) = length - 1 + Len(taken)
        /\ \A i \in 1..length - 1 : Items[i] = data[i] /\ data[i] \in Operand
    BY <1>2, ItemsFacts DEF OpstackInv, ArrayHolds
  <1>6. /\ data' \in [1..capacity' -> Operand \cup {"garbage"}]
        /\ Held' = length
        /\ \A i \in 1..length : data'[i] = IF i = length THEN operand ELSE data[i]
        /\ \A i \in 1..length : data'[i] \in Operand
    <2>1. data \in [1..capacity -> Operand \cup {"garbage"}] /\ length \in 1..capacity
      BY <1>2 DEF OpstackInv, OpstackTypeOK
    <2>2. \A i \in 1..length : data'[i] = IF i = length THEN operand ELSE data[i]
      BY <1>2, <1>3, <2>1
    <2>3. data' \in [1..capacity' -> Operand \cup {"garbage"}]
      BY <1>3, <1>4, <2>1
    <2>4. ASSUME NEW i \in 1..length PROVE data'[i] \in Operand
      BY <1>2, <1>4, <1>5, <2>2
    <2> QED
      BY <1>3, <2>2, <2>3, <2>4 DEF Held
  <1>7. OpstackTypeOK' /\ ArrayHolds'
    <2>1. OpstackTypeOK'
      BY <1>1, <1>2, <1>3, <1>6, EmptySeq DEF OpstackInv, OpstackTypeOK, Pending, NoPtr
    <2>2. ArrayHolds'
      BY <1>1, <1>2, <1>3, <1>6, StagesDiffer DEF ArrayHolds
    <2> QED
      BY <2>1, <2>2
  <1>8. /\ Items' \in Seq(Operand) /\ Len(Items') = length
        /\ \A i \in 1..length : Items'[i] = data'[i]
    <2>1. Items' = ItemsIn(data', length, <<>>)
      BY <1>3, <1>6, Zenon DEF Items, ItemsIn, Reverse
    <2>2. <<>> \in Seq(Operand) /\ Len(<<>>) = 0 /\ length \in Nat
      BY <1>2, EmptySeq
    <2>3. ReadAs(Items', data', length, <<>>)
      BY <1>6, <2>1, <2>2, ItemsOf, Zenon
    <2> QED
      BY <2>2, <2>3 DEF ReadAs
  <1>9. Items' = Append(SubSeq(Items, 1, Len(Items) - Len(taken)), operand)
    <2> DEFINE low == SubSeq(Items, 1, length - 1)
    <2>1. low \in Seq(Operand) /\ Len(low) = length - 1 /\ \A i \in 1..length - 1 : low[i] = Items[i]
      BY <1>2, <1>5
    <2>2. Len(Items) - Len(taken) = length - 1
      BY <1>2, <1>5
    <2> HIDE DEF low
    <2>3. /\ Append(low, operand) \in Seq(Operand) /\ Len(Append(low, operand)) = length
          /\ \A i \in 1..length :
               Append(low, operand)[i] = IF i = length THEN operand ELSE low[i]
      BY <1>2, <1>4, <2>1
    <2>4. \A i \in 1..length : Items'[i] = Append(low, operand)[i]
      BY <1>2, <1>5, <1>6, <1>8, <2>1, <2>3
    <2>5. Items' = Append(low, operand)
      BY <1>8, <2>3, <2>4, SeqEqual
    <2> QED
      BY <2>2, <2>5 DEF low
  <1>10. ASSUME NEW k, k = Len(taken) PROVE AbstractStack!Replace(k, operand)
    <2>1. Len(Items) - k = length - 1
      BY <1>2, <1>5, <1>10
    <2>2. room' = IF Len(Items) - k >= room THEN room * 2 ELSE room
      BY <1>2, <1>3, <2>1
    <2> QED
      BY <1>9, <1>10, <2>2, Zenon DEF AbstractStack!Replace
  <1>11. AbstractStack!Dup \/ AbstractStack!Other
    <2>1. Len(<<>>) = 0
      BY EmptySeq
    <2>2. TopItem = AbstractStack!Top /\ ItemBelow = AbstractStack!Below
      BY DEF TopItem, ItemBelow, AbstractStack!Top, AbstractStack!Below
    <2>3. CASE instr[1] = "push"
      <3>1. Len(taken) = 0 /\ operand = instr[2]
        BY <1>1, <2>1, <2>3, StagesDiffer
           DEF OpstackInv, Found, DupFound, TupleGetFound, CheckFound, JoinFound
      <3> QED
        BY <1>10, <2>3, <3>1 DEF AbstractStack!Push, AbstractStack!Other
    <2>4. CASE instr[1] = "dup"
      <3>1. Len(taken) = 0 /\ (operand = TopItem \/ Len(Items) = room)
        BY <1>1, <2>1, <2>4, StagesDiffer
           DEF OpstackInv, Found, DupFound, TupleGetFound, CheckFound, JoinFound
      <3>2. AbstractStack!Replace(0, operand) /\ (Len(Items) < room => operand = TopItem)
        BY <1>2, <1>10, <3>1
      <3> QED
        BY <1>4, <2>2, <2>4, <3>2 DEF AbstractStack!Dup
    <2>5. CASE instr[1] = "tupleget"
      <3>1. Len(taken) = 0 /\ operand = Part[TopItem]
        BY <1>1, <2>1, <2>5, StagesDiffer
           DEF OpstackInv, Found, DupFound, TupleGetFound, CheckFound, JoinFound
      <3> QED
        BY <1>10, <2>2, <2>5, <3>1 DEF AbstractStack!TupleGet, AbstractStack!Other
    <2>6. CASE instr[1] = "check"
      <3>1. IF TopItem \in Passing THEN operand = Verdict[TRUE] /\ Len(taken) = 0
            ELSE operand = Verdict[FALSE] /\ Len(taken) = 1
        BY <1>1, <2>1, <2>6, AtStage, StagesDiffer
           DEF OpstackInv, Found, DupFound, TupleGetFound, CheckFound, JoinFound
      <3> QED
        BY <1>10, <2>2, <2>6, <3>1 DEF AbstractStack!Check, AbstractStack!Other
    <2>7. CASE instr[1] = "join"
      <3>1. operand = Joined[<<ItemBelow, TopItem>>] /\ Len(taken) = 2
        BY <1>1, <2>7, AtStage, StagesDiffer
           DEF OpstackInv, Found, DupFound, TupleGetFound, CheckFound, JoinFound
      <3> QED
        BY <1>10, <2>2, <2>7, <3>1 DEF AbstractStack!Join, AbstractStack!Other
    <2> QED
      BY <1>1, <2>3, <2>4, <2>5, <2>6, <2>7, AtStage, StagesDiffer
         DEF OpcodeNames, OpstackInv, Found, DupFound, TupleGetFound, CheckFound, JoinFound
  <1>12. Found'
    BY <1>1, <1>3, StagesDiffer DEF Found, DupFound, TupleGetFound, CheckFound, JoinFound
  <1> QED
    BY <1>1, <1>7, <1>11, <1>12 DEF OpstackInv, AbstractStack!End

LEMMA PopEnds ==
  ASSUME OpstackInv, vector_pop, Tail(todo) = <<>>
  PROVE  OpstackInv' /\ AbstractStack!End /\ AbstractStack!Pop
  <1>1. /\ todo = Popping /\ todo # <<>> /\ todo' = <<>> /\ instr' = <<>>
        /\ instr \in Instr /\ instr # <<>> /\ instr[1] = "pop"
    <2>1. /\ todo = Popping /\ todo # <<>> /\ todo' = <<>> /\ instr' = <<>>
      BY AtStage, StageSteps, StagesDiffer DEF vector_pop, Call, Then
    <2>2. instr[1] = "pop"
      BY <2>1, AtStage, StagesDiffer
         DEF OpcodeNames, OpstackInv, Found, DupFound, TupleGetFound, CheckFound, JoinFound
    <2> QED
      BY <2>1, <2>2, AtStage, InstrFacts
  <1>2. /\ taken = <<>> /\ slot = 0 /\ Held = length /\ length \in Nat /\ length <= capacity
        /\ capacity = room /\ capacity \in Nat \ {0} /\ 1 <= Len(Items)
    BY <1>1, AtStage, StagesDiffer
       DEF OpstackInv, OpstackTypeOK, ArrayHolds, Found, DupFound, TupleGetFound,
         CheckFound, JoinFound, Held
  <1>3. /\ Items \in Seq(Operand) /\ Len(Items) = length
        /\ \A i \in 1..length : Items[i] = data[i] /\ data[i] \in Operand
    BY <1>2, ItemsFacts, EmptySeq DEF OpstackInv, ArrayHolds
  <1>4. /\ length' = length - 1 /\ length' \in Nat /\ Held' = length' /\ taken' = <<>>
        /\ UNCHANGED <<data, array, capacity, last, slot, operand, room>>
    BY <1>1, <1>2, <1>3, StageSteps DEF vector_pop, Held
  <1>5. OpstackTypeOK'
    BY <1>1, <1>4, EmptySeq DEF OpstackInv, OpstackTypeOK, Pending
  <1>6. ArrayHolds'
    BY <1>1, <1>2, <1>3, <1>4, StagesDiffer DEF ArrayHolds
  <1>7. Items' = SubSeq(Items, 1, Len(Items) - 1)
    <2> DEFINE m == length - 1
               low == SubSeq(Items, 1, m)
    <2>1. low \in Seq(Operand) /\ Len(low) = m /\ \A i \in 1..m : low[i] = data[i]
      BY <1>2, <1>3
    <2>2. m \in Nat /\ m = length' /\ \A i \in 1..m : data[i] \in Operand
      BY <1>2, <1>3, <1>4
    <2>3. Items' = ItemsIn(data, m, <<>>)
      BY <1>4, Zenon DEF Items, ItemsIn, Reverse
    <2>4. <<>> \in Seq(Operand) /\ Len(<<>>) = 0
      BY EmptySeq
    <2> HIDE DEF m
    <2>5. ReadAs(Items', data, m, <<>>)
      BY <2>2, <2>3, <2>4, ItemsOf, Zenon
    <2>6. Items' \in Seq(Operand) /\ Len(Items') = m /\ \A i \in 1..m : Items'[i] = data[i]
      <3>1. /\ Items' \in Seq(Operand) /\ Len(Items') = m + Len(<<>>)
            /\ \A i \in 1..m : Items'[i] = data[i]
        BY <2>5, Zenon DEF ReadAs
      <3>2. m + Len(<<>>) = m + 0 /\ m + 0 = m
        <4>1. m + Len(<<>>) = m + 0
          BY <2>4, Zenon
        <4>2. m + 0 = m
          <5>1. m \in Nat
            BY <2>2, Zenon
          <5> QED
            BY <5>1
        <4> QED
          BY <4>1, <4>2
      <3> QED
        BY <3>1, <3>2, Zenon
    <2> HIDE DEF low
    <2>7. Items' = low
      BY <2>1, <2>6, SeqEqual
    <2> QED
      BY <1>3, <2>7 DEF low, m
  <1>8. Found'
    BY <1>1, <1>4, StagesDiffer DEF Found, DupFound, TupleGetFound, CheckFound, JoinFound
  <1> QED
    BY <1>1, <1>4, <1>5, <1>6, <1>7, <1>8
       DEF OpstackInv, AbstractStack!End, AbstractStack!Pop

LEMMA SwapEnds ==
  ASSUME OpstackInv, swap_last
  PROVE  /\ OpstackInv'
         /\ AbstractStack!End /\ AbstractStack!Swap
  <1>1. /\ todo = Swapping /\ todo # <<>> /\ todo' = <<>> /\ instr' = <<>>
        /\ instr \in Instr /\ instr # <<>> /\ instr[1] = "swap"
    <2>1. /\ todo = Swapping /\ todo # <<>> /\ todo' = <<>> /\ instr' = <<>>
      BY AtStage, StageSteps, StagesDiffer DEF swap_last, Call, Then
    <2>2. instr[1] = "swap"
      BY <2>1, AtStage, StagesDiffer
         DEF OpcodeNames, OpstackInv, Found, DupFound, TupleGetFound, CheckFound, JoinFound
    <2> QED
      BY <2>1, <2>2, AtStage, InstrFacts
  <1>2. /\ taken = <<>> /\ slot = 0 /\ Held = length /\ length \in Nat /\ length <= capacity
        /\ capacity = room /\ capacity \in Nat \ {0} /\ 2 <= Len(Items)
    BY <1>1, AtStage, StagesDiffer
       DEF OpstackInv, OpstackTypeOK, ArrayHolds, Found, DupFound, TupleGetFound,
         CheckFound, JoinFound, Held
  <1>3. /\ Items \in Seq(Operand) /\ Len(Items) = length
        /\ \A i \in 1..length : Items[i] = data[i] /\ data[i] \in Operand
    BY <1>2, ItemsFacts, EmptySeq DEF OpstackInv, ArrayHolds
  <1>4. UNCHANGED <<array, length, capacity, last, slot, operand, taken, room>> /\ Held' = Held
    BY DEF swap_last, Held
  <1>5. /\ data' \in [1..capacity' -> Operand \cup {"garbage"}]
        /\ \A i \in 1..length : data'[i] = IF i = length THEN data[length - 1]
                                           ELSE IF i = length - 1 THEN data[length] ELSE data[i]
        /\ \A i \in 1..length : data'[i] \in Operand
    <2>1. data \in [1..capacity -> Operand \cup {"garbage"}]
      BY DEF OpstackInv, OpstackTypeOK
    <2>2. /\ length \in 1..length /\ length - 1 \in 1..length /\ 1..length \subseteq 1..capacity
          /\ length # length - 1
      BY <1>2, <1>3
    <2> DEFINE d == [data EXCEPT ![length] = data[length - 1]]
    <2>3. /\ d \in [1..capacity -> Operand \cup {"garbage"}]
          /\ \A i \in 1..length : d[i] = IF i = length THEN data[length - 1] ELSE data[i]
      BY <2>1, <2>2
    <2>4. data' = [d EXCEPT ![length - 1] = data[length]]
      BY DEF swap_last
    <2> HIDE DEF d
    <2>5. /\ data' \in [1..capacity -> Operand \cup {"garbage"}]
          /\ \A i \in 1..length : data'[i] = IF i = length - 1 THEN data[length] ELSE d[i]
      BY <1>3, <2>1, <2>2, <2>3, <2>4
    <2>6. \A i \in 1..length : data'[i] = IF i = length THEN data[length - 1]
                                          ELSE IF i = length - 1 THEN data[length] ELSE data[i]
      BY <2>2, <2>3, <2>5
    <2>7. \A i \in 1..length : data'[i] \in Operand
      BY <1>3, <2>2, <2>6
    <2> QED
      BY <1>4, <2>5, <2>6, <2>7
  <1>6. OpstackTypeOK'
    BY <1>1, <1>4, <1>5 DEF OpstackInv, OpstackTypeOK, Pending
  <1>7. ArrayHolds'
    BY <1>1, <1>2, <1>4, <1>5, StagesDiffer DEF ArrayHolds
  <1>8. Items' = SubSeq(Items, 1, Len(Items) - 2) \o <<TopItem, ItemBelow>>
    <2> DEFINE m == length - 2
               low == SubSeq(Items, 1, m)
               high == <<TopItem, ItemBelow>>
    <2>1. TopItem = data[length] /\ ItemBelow = data[length - 1]
      BY <1>2, <1>3 DEF TopItem, ItemBelow
    <2>2. low \in Seq(Operand) /\ Len(low) = m /\ \A i \in 1..m : low[i] = data[i]
      BY <1>2, <1>3
    <2>3. high \in Seq(Operand) /\ Len(high) = 2 /\ high[1] = data[length] /\ high[2] = data[length - 1]
      BY <1>2, <1>3, <2>1
    <2>4. m \in Nat /\ length = m + 2
      BY <1>2, <1>3
    <2>5. Items' = ItemsIn(data', length, <<>>)
      BY <1>2, <1>4, Zenon DEF Items, ItemsIn, Reverse
    <2>6. <<>> \in Seq(Operand) /\ Len(<<>>) = 0
      BY EmptySeq
    <2>7. ReadAs(Items', data', length, <<>>)
      BY <1>2, <1>5, <2>5, <2>6, ItemsOf, Zenon
    <2>8. Items' \in Seq(Operand) /\ Len(Items') = length /\ \A i \in 1..length : Items'[i] = data'[i]
      BY <1>2, <2>6, <2>7 DEF ReadAs
    <2> HIDE DEF m, low, high
    <2>9. /\ low \o high \in Seq(Operand) /\ Len(low \o high) = Len(low) + Len(high)
          /\ \A i \in 1..Len(low) + Len(high) :
               (low \o high)[i] = IF i <= Len(low) THEN low[i] ELSE high[i - Len(low)]
      BY <2>2, <2>3, ConcatProperties
    <2>10. ASSUME NEW i \in 1..length PROVE Items'[i] = (low \o high)[i]
      <3>1. (low \o high)[i] = IF i <= m THEN low[i] ELSE high[i - m]
        BY <2>2, <2>3, <2>4, <2>9
      <3> i \in Nat /\ 1 <= i /\ i <= m + 2
        BY <2>4
      <3>2. CASE i <= m
        BY <1>5, <2>2, <2>4, <2>8, <3>1, <3>2
      <3>3. CASE i = m + 1
        BY <1>5, <2>3, <2>4, <2>8, <3>1, <3>3
      <3>4. CASE i = m + 2
        BY <1>5, <2>3, <2>4, <2>8, <3>1, <3>4
      <3>5. i <= m \/ i = m + 1 \/ i = m + 2
        BY <2>4
      <3> QED
        BY <3>2, <3>3, <3>4, <3>5, Zenon
    <2>11. Items' = low \o high
      BY <2>2, <2>3, <2>4, <2>8, <2>9, <2>10, SeqEqual
    <2> QED
      BY <1>3, <2>11 DEF low, high, m
  <1>9. Found'
    BY <1>1, <1>2, <1>4, StagesDiffer
       DEF Found, DupFound, TupleGetFound, CheckFound, JoinFound
  <1>10. AbstractStack!Swap
    BY <1>1, <1>4, <1>8, Zenon
       DEF AbstractStack!Swap, AbstractStack!Top, AbstractStack!Below, TopItem, ItemBelow
  <1> QED
    BY <1>1, <1>6, <1>7, <1>9, <1>10 DEF OpstackInv, AbstractStack!End

-----------------------------------------------------------------------------
(* The beginnings. *)

LEMMA Opening ==
  ASSUME NEW opcode \in OpcodeNames, NEW t \in Calls(opcode)
  PROVE  /\ opcode = "push" => t = Pushing
         /\ opcode = "pop" => t = Popping
         /\ opcode = "swap" => t = Swapping
         /\ opcode = "join" => t = PoppingTwo
         /\ opcode = "dup" => t \in Peeking /\ Tail(t) \in {PushingFirst, Referencing}
         /\ opcode = "tupleget" => t \in Peeking /\ Tail(t) = Parting
         /\ opcode = "check" => t \in Peeking /\ Tail(t) = Checking
  <1>1. CASE opcode = "push"
    BY <1>1 DEF Calls, opstack_push, Pushing
  <1>2. CASE opcode = "pop"
    BY <1>2 DEF Calls, op_pop, Popping
  <1>3. CASE opcode = "swap"
    BY <1>3 DEF Calls, op_swap, Swapping
  <1>4. CASE opcode = "join"
    BY <1>4 DEF Calls, op_join, PoppingTwo
  <1>5. CASE opcode = "dup"
    <2>1. t \in {<<"last", "push", "ref", "store">>, <<"last", "ref", "push", "store">>}
      BY <1>5 DEF Calls, op_dup
    <2>2. ASSUME t = <<"last", "push", "ref", "store">> PROVE Tail(t) = PushingFirst
      BY <2>2 DEF PushingFirst
    <2>3. ASSUME t = <<"last", "ref", "push", "store">> PROVE Tail(t) = Referencing
      BY <2>3 DEF Referencing
    <2>4. t \in Peeking /\ Tail(t) \in {PushingFirst, Referencing}
      BY <2>1, <2>2, <2>3, Zenon DEF Peeking
    <2> QED
      BY <1>5, <2>4
  <1>6. CASE opcode = "tupleget"
    <2>1. t = <<"last", "part", "push", "store">>
      BY <1>6 DEF Calls, op_tupleget
    <2>2. Tail(t) = Parting
      BY <2>1 DEF Parting
    <2>3. t \in Peeking
      BY <2>1, Zenon DEF Peeking
    <2> QED
      BY <1>6, <2>2, <2>3
  <1>7. CASE opcode = "check"
    <2>1. t = <<"last", "check", "push", "store">>
      BY <1>7 DEF Calls, op_check
    <2>2. Tail(t) = Checking
      BY <2>1 DEF Checking
    <2>3. t \in Peeking
      BY <2>1, Zenon DEF Peeking
    <2> QED
      BY <1>7, <2>2, <2>3
  <1> QED
    BY <1>1, <1>2, <1>3, <1>4, <1>5, <1>6, <1>7 DEF OpcodeNames

LEMMA OpcodeBegins ==
  ASSUME OpstackInv, machine_step
  PROVE  /\ OpstackInv'
         /\ AbstractStack!Begin
  <1>1. PICK i \in Instr :
          /\ Takes[i] <= length /\ instr' = i /\ todo' \in Calls(i[1])
          /\ operand' = IF i[1] = "push" THEN i[2] ELSE operand
    BY DEF machine_step
  <1>2. /\ instr = <<>> /\ todo = <<>>
        /\ UNCHANGED <<data, array, length, capacity, last, slot, taken, room>>
    BY DEF machine_step, OpstackInv, Found, DupFound, TupleGetFound, CheckFound, JoinFound
  <1>3. UNCHANGED <<Held, Items, TopItem, ItemBelow>>
    BY <1>2, SameItems
  <1>4. taken = <<>> /\ slot = 0
    BY <1>2, StagesDiffer
       DEF OpstackInv, Found, DupFound, TupleGetFound, CheckFound, JoinFound, ArrayHolds
  <1>5. Len(Items) = length
    BY <1>4, ItemsFacts, EmptySeq DEF OpstackInv, OpstackTypeOK, Held
  <1>6. i # <<>> /\ i[1] \in OpcodeNames
    BY InstrFacts
  <1>7. /\ i[1] = "push" => todo' = Pushing /\ operand' = i[2]
        /\ i[1] = "pop" => todo' = Popping
        /\ i[1] = "swap" => todo' = Swapping
        /\ i[1] = "join" => todo' = PoppingTwo
        /\ i[1] = "dup" => todo' \in Peeking /\ Tail(todo') \in {PushingFirst, Referencing}
        /\ i[1] = "tupleget" => todo' \in Peeking /\ Tail(todo') = Parting
        /\ i[1] = "check" => todo' \in Peeking /\ Tail(todo') = Checking
    BY <1>1, <1>6, Opening
  <1>8. todo' \in Peeking \cup {Pushing, Popping, Swapping, PoppingTwo}
    BY <1>6, <1>7 DEF OpcodeNames
  <1>9. OpstackTypeOK'
    BY <1>1, <1>2, <1>8 DEF OpstackInv, OpstackTypeOK, Pending
  <1>10. ArrayHolds'
    BY <1>2, <1>3, <1>4, <1>8, StagesDiffer DEF OpstackInv, ArrayHolds
  <1>11. Found'
    BY <1>1, <1>2, <1>3, <1>4, <1>5, <1>6, <1>7, <1>8, StagesDiffer
       DEF Found, DupFound, TupleGetFound, CheckFound, JoinFound
  <1>12. AbstractStack!Begin
    BY <1>1, <1>2, <1>3, <1>5 DEF AbstractStack!Begin
  <1> QED
    BY <1>9, <1>10, <1>11, <1>12 DEF OpstackInv

LEMMA OpstackStart == vector_init => OpstackInv /\ AbstractStack!Init
  <1> SUFFICES ASSUME vector_init PROVE OpstackInv /\ AbstractStack!Init
    OBVIOUS
  <1>1. OpstackTypeOK
    BY StackAssumption, EmptySeq DEF vector_init, OpstackTypeOK, Pending, NoPtr
  <1>2. ArrayHolds
    BY StackAssumption, StagesDiffer DEF vector_init, ArrayHolds, Held
  <1>3. Found
    BY DEF vector_init, Found, DupFound, TupleGetFound, CheckFound, JoinFound
  <1>4. Items = <<>>
    <2>1. Len(Items) = 0 /\ Items \in Seq(Operand)
      BY <1>1, <1>2, ItemsFacts, EmptySeq DEF vector_init, Held
    <2> QED
      BY <2>1, EmptySeq
  <1> QED
    BY <1>1, <1>2, <1>3, <1>4 DEF OpstackInv, AbstractStack!Init, vector_init

-----------------------------------------------------------------------------
StackNext ==
  \/ AbstractStack!Begin
  \/ AbstractStack!End /\ (AbstractStack!Dup \/ AbstractStack!Other)

LEMMA OpstackStep ==
  OpstackInv /\ [opstack_next]_opstackVars =>
    OpstackInv' /\ [StackNext]_(AbstractStack!stackVars)
  <1> SUFFICES ASSUME OpstackInv, [opstack_next]_opstackVars
               PROVE  OpstackInv' /\ [StackNext]_(AbstractStack!stackVars)
    OBVIOUS
  <1>1. CASE UNCHANGED opstackVars
    <2>1. UNCHANGED <<Held, Items, TopItem, ItemBelow>>
      BY <1>1, SameItems DEF opstackVars
    <2>2. OpstackTypeOK'
      BY <1>1 DEF opstackVars, OpstackInv, OpstackTypeOK
    <2>3. ArrayHolds'
      BY <1>1, <2>1 DEF opstackVars, OpstackInv, ArrayHolds
    <2>4. Found'
      <3>1. /\ instr' = instr /\ todo' = todo /\ taken' = taken /\ operand' = operand
            /\ last' = last /\ array' = array /\ length' = length /\ room' = room
            /\ (AtTop' <=> AtTop)
        BY <1>1 DEF opstackVars, AtTop
      <3>2. Items' = Items /\ TopItem' = TopItem /\ ItemBelow' = ItemBelow
        BY <2>1
      <3> QED
        <4>1. DupFound' <=> DupFound
          BY <3>1, <3>2 DEF DupFound
        <4>2. TupleGetFound' <=> TupleGetFound
          BY <3>1, <3>2 DEF TupleGetFound
        <4>3. CheckFound' <=> CheckFound
          BY <3>1, <3>2 DEF CheckFound
        <4>4. JoinFound' <=> JoinFound
          BY <3>1, <3>2 DEF JoinFound
        <4> QED
          BY <3>1, <3>2, <4>1, <4>2, <4>3, <4>4 DEF OpstackInv, Found
    <2> QED
      BY <1>1, <2>1, <2>2, <2>3, <2>4 DEF opstackVars, OpstackInv, AbstractStack!stackVars
  <1>2. CASE machine_step
    BY <1>2, OpcodeBegins DEF StackNext
  <1>3. CASE vector_last \/ hvalue_ref \/ hvalue_tuple_get \/ check_last \/ vector_push \/ join_taken
    BY <1>3, LastKeeps, RefKeeps, TupleGetKeeps, CheckKeeps, VectorPushKeeps, JoinKeeps
       DEF AbstractStack!stackVars
  <1>4. CASE vector_pop
    BY <1>4, PopKeeps, PopEnds DEF StackNext, AbstractStack!stackVars, AbstractStack!Other
  <1>5. CASE store
    BY <1>5, StoreEnds DEF StackNext
  <1>6. CASE swap_last
    BY <1>6, SwapEnds DEF StackNext, AbstractStack!Other
  <1> QED
    BY <1>1, <1>2, <1>3, <1>4, <1>5, <1>6 DEF opstack_next

LEMMA OpstackPart == ClientSpec => vector_init /\ [][opstack_next]_opstackVars
  <1>1. ClientInit => vector_init
    BY DEF ClientInit
  <1>2. [ClientNext]_allVars => [opstack_next]_opstackVars
    BY DEF ClientNext, MapClient, PoolClient, ModuleClient, ArenaClient, OpstackClient, allVars
  <1> QED
    BY <1>1, <1>2, PTL DEF ClientSpec

LEMMA OpstackAlways == ClientSpec => []OpstackInv
  BY OpstackPart, OpstackStart, OpstackStep, PTL

(* Growing by a factor of two whenever the array is full leaves room for   *)
(* every operand, whatever the opcodes and the capacity at first.          *)
THEOREM RoomForOperands == ClientSpec => []HasRoom
  <1>1. OpstackInv => HasRoom
    <2> SUFFICES ASSUME OpstackInv PROVE HasRoom
      OBVIOUS
    <2>1. length \in Nat /\ room \in Nat \ {0}
      BY DEF OpstackInv, OpstackTypeOK
    <2>2. CASE slot = 0
      BY <2>2 DEF OpstackInv, ArrayHolds, HasRoom
    <2>3. CASE slot # 0
      BY <2>1, <2>3 DEF OpstackInv, ArrayHolds, HasRoom
    <2> QED
      BY <2>2, <2>3
  <1> QED
    BY <1>1, OpstackAlways, PTL

(* The vector is the abstract Stack to every opcode of the machine: each    *)
(* finds what earlier ones left, wherever realloc has moved the array, and  *)
(* OP_DUP duplicates the top whenever there is room for one operand more.   *)
THEOREM StackImplemented == ClientSpec => ImplementsStack
  BY OpstackPart, OpstackStart, OpstackStep, PTL
     DEF ImplementsStack, AbstractStack!Spec, StackNext
=============================================================================
