------------------------------- MODULE Module --------------------------------
(***************************************************************************)
(* The module of src/lib/module.c: a string map of members, each with a    *)
(* factory, the value of the map, and the HValue that it makes when it is  *)
(* looked up for the first time.  HValues are numbered as they are made.   *)
(***************************************************************************)
EXTENDS StringMap

VARIABLES
  values,   \* values[i]: the HValue of the i-th entry, 0 if none was made
  made,     \* how many HValues were made
  dropped,  \* the HValues that module_free dropped
  life      \* "used", "freeing", "freed"

moduleVars == <<values, made, dropped, life>>

module_init ==
  /\ values = <<>>
  /\ made = 0
  /\ dropped = <<>>
  /\ life = "used"

(* The whole member is put, with no HValue in it.  What was there is not
   dropped: the prelude defines its members before any is looked up.  The
   factories, Value in the map, are not told apart. *)
module_define(name) ==
  /\ string_map_put(name, SomeValue)
  /\ reply' # None => values[entry'] = 0
  /\ values' = IF reply' = None THEN Append(values, 0) ELSE [values EXCEPT ![entry'] = 0]
  /\ UNCHANGED <<made, dropped, life, iter, visited>>

(* Mutant: the HValue is returned, but not kept. *)
module_get_forgets(name) ==
  /\ string_map_get(name)
  /\ made' = IF entry' # 0 /\ values[entry'] = 0 THEN made + 1 ELSE made
  /\ UNCHANGED <<values, dropped, life, iter, visited>>

module_get(name) ==
  /\ string_map_get(name)
  /\ IF entry' # 0 /\ values[entry'] = 0
       THEN made' = made + 1 /\ values' = [values EXCEPT ![entry'] = made + 1]
       ELSE UNCHANGED <<made, values>>
  /\ UNCHANGED <<dropped, life, iter, visited>>

module_free ==
  /\ string_map_iter_begin
  /\ life' = "freeing"
  /\ UNCHANGED <<values, made, dropped>>

module_free_member ==
  /\ string_map_iter_next
  /\ LET i == iter'.entry
     IN /\ dropped' = IF i # 0 /\ values[i] # 0 THEN Append(dropped, values[i]) ELSE dropped
        /\ life' = IF i = 0 THEN "freed" ELSE life
  /\ UNCHANGED <<values, made>>

module_next ==
  \/ /\ life = "used"
     /\ \/ \E name \in Key : module_get(name) \/ module_define(name)
        \/ module_free
  \/ life = "freeing" /\ module_free_member

(* When a module has been freed, each HValue that any lookup made has been  *)
(* dropped, and none twice.                                                *)
MembersDroppedOnce ==
  life = "freed" => IsInjective(dropped) /\ Range(dropped) = 1..made
=============================================================================
