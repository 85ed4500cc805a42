----------------------------- MODULE Containers ------------------------------
(***************************************************************************)
(* The containers of src/lib, each in the hands of one client: a string    *)
(* map used freely, the string pool of the compiler, a module of the       *)
(* machine, an arena, and the vector that is the operand stack.  A client  *)
(* uses one container for its whole life.                                  *)
(***************************************************************************)
EXTENDS StringPool, Module, Arena, OperandStack

VARIABLE client

allVars == <<vars, poolVars, moduleVars, arenaVars, opstackVars, client>>

ClientInit ==
  /\ client \in {"map", "pool", "module", "arena", "opstack"}
  /\ string_map_init /\ string_pool_init /\ module_init /\ arena_init /\ vector_init

MapClient ==
  client = "map" /\ Next /\ UNCHANGED <<poolVars, moduleVars, arenaVars, opstackVars>>
PoolClient ==
  client = "pool" /\ string_pool_next /\ UNCHANGED <<moduleVars, arenaVars, opstackVars>>
ModuleClient ==
  client = "module" /\ module_next /\ UNCHANGED <<poolVars, arenaVars, opstackVars>>
ArenaClient ==
  client = "arena" /\ arena_next /\ UNCHANGED <<vars, poolVars, moduleVars, opstackVars>>
OpstackClient ==
  client = "opstack" /\ opstack_next /\ UNCHANGED <<vars, poolVars, moduleVars, arenaVars>>

ClientNext ==
  /\ MapClient \/ PoolClient \/ ModuleClient \/ ArenaClient \/ OpstackClient
  /\ UNCHANGED client

ClientSpec == ClientInit /\ [][ClientNext]_allVars
=============================================================================
