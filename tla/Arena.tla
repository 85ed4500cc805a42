------------------------------- MODULE Arena ---------------------------------
(***************************************************************************)
(* The arena of src/lib/arena.c: items in a list of blocks of equal size,  *)
(* pinned in memory.  The parser pushes nodes and truncates what failed,   *)
(* the compiler iterates over its blocks of bytecode to free them.         *)
(***************************************************************************)
EXTENDS Integers, Sequences

CONSTANTS
  Item,            \* what its owner writes into an item
  items_per_block,
  MaxItems         \* bound on the items at one time

ASSUME ArenaAssumption == items_per_block \in Nat \ {0} /\ MaxItems \in Nat

VARIABLES
  arena,   \* len, and the number of blocks in the list
  memory,  \* what was last written at each place of a block
  owned,   \* the pointers that the owner got and what it wrote there, in order
  scan,    \* arena_iter: block, index and item, a pointer or NULL
  read     \* what the owner found at scan.item, one after the other, the last time

arenaVars == <<arena, memory, owned, scan, read>>

NULL_ITEM == <<>>
Place == (1..MaxItems \div items_per_block + 1) \X (0..items_per_block - 1)
NoScan == [block |-> 0, index |-> 0, item |-> NULL_ITEM]

arena_init ==
  /\ arena = [len |-> 0, blocks |-> 1]
  /\ memory = [p \in Place |-> "uninitialized"]
  /\ owned = <<>>
  /\ scan = NoScan
  /\ read = <<>>

(* Where `while (offset >= items_per_block)` ends, that goes to the next block
   and takes items_per_block off: at the quotient and the remainder.
   Mutant: a block too late. *)
Walk_late(offset) ==
  IF offset = 0 THEN <<1, 0>>
  ELSE <<1 + (offset - 1) \div items_per_block, ((offset - 1) % items_per_block) + 1>>

Walk(offset) == <<1 + offset \div items_per_block, offset % items_per_block>>

(* Blocks that are missing on the way are added to the list. *)
arena_push(x) ==
  LET place == Walk(arena.len)
  IN /\ arena' = [len    |-> arena.len + 1,
                  blocks |-> IF place[1] > arena.blocks THEN place[1] ELSE arena.blocks]
     /\ memory' = [memory EXCEPT ![place] = x]
     /\ owned' = Append(owned, [place |-> place, item |-> x])
     /\ read' = <<>>
     /\ UNCHANGED scan

(* To length 0 it is arena_clear as well.  The blocks stay. *)
arena_truncate(len) ==
  /\ arena' = [len |-> len, blocks |-> arena.blocks]
  /\ owned' = SubSeq(owned, 1, len)
  /\ read' = <<>>
  /\ UNCHANGED <<memory, scan>>

arena_iter_begin ==
  /\ scan' = [block |-> 1, index |-> 0, item |-> NULL_ITEM]
  /\ read' = <<>>
  /\ UNCHANGED <<arena, memory, owned>>

(* Mutant: the item is counted before the index is advanced. *)
AtEnd_late(index) == index > arena.len

AtEnd(index) == index >= arena.len

arena_iter_next ==
  LET index == IF scan.item = NULL_ITEM THEN scan.index ELSE scan.index + 1
      block == IF index > 0 /\ index % items_per_block = 0 THEN scan.block + 1 ELSE scan.block
      item == <<block, index % items_per_block>>
  IN /\ IF scan.item # NULL_ITEM /\ AtEnd(index)
          THEN scan' = NoScan /\ UNCHANGED read
          ELSE /\ scan' = [block |-> block, index |-> index, item |-> item]
               /\ read' = Append(read, memory[item])
     /\ UNCHANGED <<arena, memory, owned>>

(* The blocks are freed one after the other, and nothing is done afterwards. *)
arena_free ==
  /\ arena' = [len |-> 0, blocks |-> 0]
  /\ owned' = <<>> /\ read' = <<>>
  /\ UNCHANGED <<memory, scan>>

(* Nothing is pushed while somebody iterates, and nobody iterates over an
   empty arena: arena_iter_next would find an item in it. *)
arena_next ==
  \/ scan # NoScan /\ arena_iter_next
  \/ /\ scan = NoScan /\ arena.blocks > 0
     /\ \/ arena.len < MaxItems /\ \E x \in Item : arena_push(x)
        \/ \E len \in 0..arena.len : arena_truncate(len)
        \/ arena.len > 0 /\ arena_iter_begin
        \/ arena_free

(* However the arena grows and shrinks, an item stays what its owner wrote  *)
(* until it is truncated: no item is pushed over it, and it lies in a block *)
(* of the list.                                                            *)
ItemsPinned ==
  /\ Len(owned) = arena.len
  /\ \A i \in DOMAIN owned :
       LET place == owned[i].place
       IN /\ place \in Place /\ place[1] <= arena.blocks
          /\ memory[place] = owned[i].item

(* An iteration comes by every item once, in the order they were pushed,   *)
(* across the blocks and however many of them an earlier use has left.     *)
IteratesInOrder ==
  LET items == [i \in DOMAIN owned |-> owned[i].item]
  IN /\ Len(read) <= arena.len /\ read = SubSeq(items, 1, Len(read))
     /\ scan = NoScan /\ read # <<>> => read = items
=============================================================================
