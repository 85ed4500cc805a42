------------------------------ MODULE StringMap ------------------------------
(***************************************************************************)
(* The hash map of src/lib/string_map.c, its entries in an arena that      *)
(* never moves and its keys in a Buffer (src/lib/buffer.c) whose array     *)
(* realloc may move.  A pointer into the buffer names the array it points  *)
(* into; one into an array that was left behind is stale, and reading      *)
(* through it may find anything.                                           *)
(***************************************************************************)
EXTENDS Naturals, Sequences, FiniteSetsExt, SequencesExt

CONSTANTS
  Key, Length,  \* strings to use as keys, and Length[k] in bytes
  Hash,         \* Hash[k]: string_hash
  Buckets,      \* number of buckets
  Capacity,     \* of the key buffer at first
  Value, None,
  MaxEntries    \* bound on the entries, for keys that are entered twice

ASSUME KeyAssumption ==
  /\ Length \in [Key -> Nat] /\ Hash \in [Key -> Nat]
  /\ \A j, k \in Key : Length[j] = 0 /\ Length[k] = 0 => j = k
  /\ Buckets \in Nat \ {0} /\ Capacity \in Nat \ {0} /\ MaxEntries \in Nat
ASSUME NoneAssumption == None \notin Value /\ None \notin Key /\ Value # {}

VARIABLES
  chains,   \* chains[b]: the entries of bucket b, in the order of their links
  entries,  \* entries[i]: hash, key pointer and value of the i-th entry
  buffer,   \* key_buffer: array, capacity, and the characters put there
  call,     \* the last put or get, with its arguments
  reply,    \* what it reported
  entry,    \* the entry it came by, or 0 for NULL
  iter,     \* string_map_iter: next bucket, current entry or 0 for NULL
  visited   \* the entries the iteration came by

vars == <<chains, entries, buffer, call, reply, entry, iter, visited>>

Bucket == 0..Buckets - 1
NoIter == [bucket |-> Buckets, entry |-> 0]

string_map_init ==
  /\ chains = [b \in Bucket |-> <<>>]
  /\ entries = <<>>
  /\ buffer = [array |-> 0, capacity |-> Capacity, data |-> <<>>]
  /\ call = <<>>
  /\ reply = None
  /\ entry = 0
  /\ iter = NoIter
  /\ visited = <<>>

(* A key as characters: no two keys share one. *)
Text(k) == [n \in 1..Length[k] |-> <<k, n>>]

(* What lies where a key pointer points, and whether it is still good. *)
Pointed(key) == SubSeq(buffer.data, key.offset + 1, key.offset + key.len)
Stale(i) == entries[i].key.array # buffer.array

(* buffer_grow doubles until there is room for min_len bytes and the 0. *)
Grown(min_len) ==
  IF min_len + 1 <= buffer.capacity THEN buffer.capacity
  ELSE CHOOSE c \in {buffer.capacity * 2^n : n \in 1..min_len + 1} :
         c \div 2 < min_len + 1 /\ min_len + 1 <= c

(* buffer_puts, with the arrays realloc may leave the data in. *)
buffer_puts(k, array) ==
  [array    |-> array,
   capacity |-> Grown(Len(buffer.data) + Length[k]),
   data     |-> buffer.data \o Text(k)]

Arrays(k) ==
  IF Grown(Len(buffer.data) + Length[k]) = buffer.capacity THEN {buffer.array}
  ELSE {buffer.array, buffer.array + 1}

-----------------------------------------------------------------------------

(* What string_eq makes of the entries whose pointer is stale. *)
Readings == [{i \in DOMAIN entries : Stale(i)} -> BOOLEAN]

string_eq(i, k, reading) ==
  /\ entries[i].key.len = Length[k]
  /\ IF Stale(i) /\ Length[k] > 0 THEN reading[i] ELSE Pointed(entries[i].key) = Text(k)

(* Mutant: a comparison of hashes alone. *)
Matches_hash(i, k, reading) == entries[i].hash = Hash[k]

Matches(i, k, reading) == entries[i].hash = Hash[k] /\ string_eq(i, k, reading)

(* The first entry of the chain with the key, or 0 for NULL. *)
string_map_get_entry(k, reading) ==
  LET chain == chains[Hash[k] % Buckets]
      hits == {n \in DOMAIN chain : Matches(chain[n], k, reading)}
  IN IF hits = {} THEN 0 ELSE chain[Min(hits)]

NewEntry(k, v) ==
  /\ entries' = Append(entries, [hash |-> Hash[k], value |-> v,
                                 key |-> [array |-> buffer'.array, len |-> Length[k],
                                          offset |-> Len(buffer.data)]])
  /\ chains' = [chains EXCEPT ![Hash[k] % Buckets] = Append(@, Len(entries) + 1)]

string_map_put(k, v) ==
  /\ call' = <<"put", k, v>>
  /\ \E reading \in Readings :
       LET i == string_map_get_entry(k, reading)
       IN IF i # 0
            THEN /\ entries' = [entries EXCEPT ![i].value = v]
                 /\ reply' = entries[i].value
                 /\ entry' = i
                 /\ UNCHANGED <<chains, buffer>>
            ELSE /\ Len(entries) < MaxEntries
                 /\ \E array \in Arrays(k) : buffer' = buffer_puts(k, array)
                 /\ NewEntry(k, v)
                 /\ reply' = None
                 /\ entry' = Len(entries) + 1

string_map_get(k) ==
  /\ call' = <<"get", k>>
  /\ \E reading \in Readings :
       LET i == string_map_get_entry(k, reading)
       IN /\ entry' = i
          /\ reply' = IF i = 0 THEN None ELSE entries[i].value
  /\ UNCHANGED <<chains, entries, buffer>>

-----------------------------------------------------------------------------
(* Iteration, as module_free does it: nothing else happens meanwhile. *)

string_map_iter_begin ==
  /\ iter' = [bucket |-> 0, entry |-> 0]
  /\ visited' = <<>>
  /\ UNCHANGED <<chains, entries, buffer, call, reply, entry>>

(* The entry linked after the current one, or 0. *)
NextOf(e) ==
  LET chain == chains[entries[e].hash % Buckets]
      n == CHOOSE n \in DOMAIN chain : chain[n] = e
  IN IF n < Len(chain) THEN chain[n + 1] ELSE 0

(* Mutant: the bucket is not consumed. *)
NextBucket_same(b) == b

NextBucket(b) == b + 1

string_map_iter_next ==
  /\ iter.bucket < Buckets \/ iter.entry # 0
  /\ LET next == IF iter.entry = 0 THEN 0 ELSE NextOf(iter.entry)
         rest == {b \in iter.bucket..Buckets - 1 : chains[b] # <<>>}
     IN iter' = CASE next # 0 -> [iter EXCEPT !.entry = next]
                  [] next = 0 /\ rest # {} ->
                       [bucket |-> NextBucket(Min(rest)), entry |-> Head(chains[Min(rest)])]
                  [] OTHER -> NoIter
  /\ visited' = IF iter'.entry = 0 THEN visited ELSE Append(visited, iter'.entry)
  /\ UNCHANGED <<chains, entries, buffer, call, reply, entry>>

Iterating == iter # NoIter

(* For clients to which the values are all one. *)
SomeValue == CHOOSE v \in Value : TRUE

Next ==
  \/ string_map_iter_next
  \/ /\ ~Iterating
     /\ \/ /\ \E k \in Key : string_map_get(k) \/ \E v \in Value : string_map_put(k, v)
           /\ UNCHANGED iter /\ visited' = <<>>
        \/ string_map_iter_begin

Spec == string_map_init /\ [][Next]_vars

-----------------------------------------------------------------------------
(* The value of the first entry that was made for key k. *)
Abstract ==
  [k \in Key |->
     LET made == {i \in DOMAIN entries : Pointed(entries[i].key) = Text(k)}
     IN IF made = {} THEN None ELSE entries[Min(made)].value]

Promise == INSTANCE Dictionary WITH dict <- Abstract

(* The map is a dictionary: put reports `true`, with the old value, exactly *)
(* when the key was there, and get finds what put stored, whatever hashes   *)
(* and buckets collide.                                                    *)
ImplementsDictionary == Promise!Spec

(* An iteration comes by every entry once, so that module_free drops every *)
(* member and none twice.                                                  *)
VisitsEachOnce ==
  /\ IsInjective(visited)
  /\ (visited # <<>> /\ ~Iterating) => Range(visited) = DOMAIN entries
=============================================================================
