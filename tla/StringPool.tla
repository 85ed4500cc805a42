----------------------------- MODULE StringPool ------------------------------
(***************************************************************************)
(* The string pool of src/lib/string_pool.c, in which the compiler interns *)
(* names and strings: a string map without values, whose entries are the   *)
(* symbols and whose key buffer is written into the program.               *)
(***************************************************************************)
EXTENDS StringMap

VARIABLES
  symbols,   \* the strings interned, each with the symbol that was returned
  interning  \* the string between the two calls of string_pool_intern, or None

poolVars == <<symbols, interning>>

string_pool_init == symbols = {} /\ interning = None

(* value_size is 0: nothing is copied. *)
string_pool_intern(k) ==
  /\ interning = None
  /\ string_map_put(k, SomeValue)
  /\ interning' = k
  /\ UNCHANGED symbols

string_pool_interned ==
  /\ interning # None
  /\ string_map_get(interning)
  /\ symbols' = symbols \cup {[string |-> interning, symbol |-> entry']}
  /\ interning' = None

string_pool_next ==
  /\ string_pool_interned \/ \E k \in Key : string_pool_intern(k)
  /\ UNCHANGED <<iter, visited>>

(* The difference of the pointers is the offset while both are into one array. *)
string_pool_get_entry(symbol) ==
  [offset |-> entries[symbol].key.offset, len |-> entries[symbol].key.len]

(* Two symbols are one pointer exactly when their strings are equal, which  *)
(* the compiler compares them for, and whatever is interned later, a symbol *)
(* points into the contents of the pool, at that string: what the program   *)
(* finds there when it runs.                                                *)
SymbolsIdentify ==
  \A s \in symbols :
    /\ s.symbol # 0 /\ ~Stale(s.symbol)
    /\ Pointed(string_pool_get_entry(s.symbol)) = Text(s.string)
    /\ \A t \in symbols : (s.symbol = t.symbol) = (s.string = t.string)
=============================================================================
