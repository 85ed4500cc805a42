---------------------------- MODULE OperandStack ----------------------------
(***************************************************************************)
(* The operand stack of src/lib/machine.c in the Vector of src/lib/        *)
(* vector.c.  Its items are in an array that realloc may move when it      *)
(* grows, and what is behind them in it is garbage.  An opcode is the      *)
(* sequence of calls it makes, with HValues and pointers in C variables in *)
(* between: one that keeps the pointer vector_last gave it across a        *)
(* vector_push may be left with a pointer to freed memory.                 *)
(***************************************************************************)
EXTENDS Naturals, Sequences, SequencesExt

CONSTANTS
  Operand,         \* values
  StackCapacity,   \* of the vector at first
  MaxLen,          \* bound on the operands
  Opcodes,         \* the opcodes the program uses
  Part,            \* Part[v]: the component of v that OP_TUPLEGET pushes
  Passing,         \* the values that OP_CHKTUPLE, OP_CHKNIL, OP_CHKCONS let pass
  Verdict,         \* Verdict[b]: the value true or false
  Joined           \* Joined[<<a, b>>]: what is made of operands a and b, b on top

OpcodeNames == {"push", "pop", "dup", "tupleget", "check", "join", "swap"}

ASSUME StackAssumption == StackCapacity \in Nat \ {0} /\ MaxLen \in Nat
ASSUME OpcodeAssumption == Opcodes \subseteq OpcodeNames
ASSUME OperandAssumption ==
  /\ "garbage" \notin Operand
  /\ Part \in [Operand -> Operand]
  /\ Passing \subseteq Operand
  /\ Verdict \in [BOOLEAN -> Operand]
  /\ Joined \in [Operand \X Operand -> Operand]

VARIABLES
  data,       \* the array
  array,      \* which one it is of those the vector has had
  length,     \* v->len
  capacity,   \* v->capacity_items
  instr,      \* the instruction that is executed, <<>> between two
  todo,       \* the calls it has still to make
  last,       \* the pointer vector_last returned: array and index
  slot,       \* the index that vector_push returned a pointer to, or 0
  operand,    \* the HValue to be stored there
  taken,      \* the HValues popped into C variables
  room        \* the capacity when the instruction began

opstackVars ==
  <<data, array, length, capacity, instr, todo, last, slot, operand, taken, room>>

NoPtr == [array |-> 0, index |-> 0]

vector_init ==
  /\ array = 1
  /\ length = 0
  /\ capacity = StackCapacity
  /\ data = [i \in 1..StackCapacity |-> "garbage"]
  /\ instr = <<>> /\ todo = <<>>
  /\ last = NoPtr /\ slot = 0 /\ operand = "garbage" /\ taken = <<>>
  /\ room = StackCapacity

(***************************************************************************)
(* The calls of each opcode.  "push" is whatever makes a value without     *)
(* operands, "join" what makes one of two; the opcodes that take or push   *)
(* more than these are several of them in a row.  In op_dup, C leaves open *)
(* whether vector_push or hvalue_ref is called first.                      *)
(***************************************************************************)
op_dup == {<<"last", "push", "ref", "store">>, <<"last", "ref", "push", "store">>}

(* Mutant: the item is taken out of the tuple the way op_dup does it. *)
op_tupleget_unordered == {<<"last", "push", "part", "store">>}

op_tupleget == {<<"last", "part", "push", "store">>}
op_check == {<<"last", "check", "push", "store">>}
opstack_push == {<<"push", "store">>}
op_pop == {<<"pop">>}
op_join == {<<"pop", "pop", "join", "push", "store">>}
op_swap == {<<"swap">>}

Calls(opcode) ==
  CASE opcode = "dup" -> op_dup
    [] opcode = "tupleget" -> op_tupleget
    [] opcode = "check" -> op_check
    [] opcode = "push" -> opstack_push
    [] opcode = "pop" -> op_pop
    [] opcode = "join" -> op_join
    [] opcode = "swap" -> op_swap

Instr ==
  {<<opcode>> : opcode \in Opcodes \ {"push"}} \cup
  {<<opcode, v>> : opcode \in Opcodes \cap {"push"}, v \in Operand}

(* The operands there must be.                                             *)
Takes ==
  [i \in Instr |-> CASE i[1] = "push" -> 0
                    [] i[1] \in {"join", "swap"} -> 2
                    [] OTHER -> 1]

machine_step ==
  /\ instr = <<>>
  /\ \E i \in Instr :
       /\ Takes[i] <= length
       /\ length < MaxLen \/ i[1] \in {"pop", "join", "swap"}
       /\ instr' = i
       /\ todo' \in Calls(i[1])
       /\ operand' = IF i[1] = "push" THEN i[2] ELSE operand
  /\ UNCHANGED <<data, array, length, capacity, last, slot, taken, room>>

(* The next call, after which there are these to make. *)
Call(name) == todo # <<>> /\ Head(todo) = name
Then(calls) == todo' = calls /\ instr' = IF calls = <<>> THEN <<>> ELSE instr

vector_last ==
  /\ Call("last") /\ Then(Tail(todo))
  /\ last' = [array |-> array, index |-> length]
  /\ UNCHANGED <<data, array, length, capacity, slot, operand, taken, room>>

(* What a pointer points to; in an array that was freed, that may be anything. *)
Deref(p) == IF p.array = array THEN {data[p.index]} ELSE Operand

hvalue_ref ==
  /\ Call("ref") /\ Then(Tail(todo))
  /\ operand' \in Deref(last)
  /\ UNCHANGED <<data, array, length, capacity, last, slot, taken, room>>

hvalue_tuple_get ==
  /\ Call("part") /\ Then(Tail(todo))
  /\ operand' \in {Part[v] : v \in Deref(last)}
  /\ UNCHANGED <<data, array, length, capacity, last, slot, taken, room>>

(* The type is looked at; what is not of the type is popped. *)
check_last ==
  /\ Call("check")
  /\ \E v \in Deref(last) :
       /\ operand' = Verdict[(v \in Passing)]
       /\ Then(IF v \in Passing THEN <<"push", "store">> ELSE <<"pop", "push", "store">>)
  /\ UNCHANGED <<data, array, length, capacity, last, slot, taken, room>>

(* Mutant: growth one item too late. *)
Full_late == length > capacity

Full == length >= capacity

(* Mutant: a new array that the last item is not copied to. *)
Reallocated_short ==
  [i \in 1..capacity * 2 |-> IF i < capacity THEN data[i] ELSE "garbage"]

Reallocated ==
  [i \in 1..capacity * 2 |-> IF i <= capacity THEN data[i] ELSE "garbage"]

vector_push ==
  /\ Call("push") /\ Then(Tail(todo))
  /\ IF Full THEN /\ capacity' = capacity * 2
                  /\ data' = Reallocated
                  /\ array' \in {array, array + 1}
     ELSE UNCHANGED <<capacity, data, array>>
  /\ length' = length + 1
  /\ slot' = length + 1
  /\ UNCHANGED <<last, operand, taken, room>>

(* Through the pointer that vector_push returned; the opcode ends.         *)
store ==
  /\ Call("store") /\ Then(Tail(todo))
  /\ data' = [data EXCEPT ![slot] = operand]
  /\ last' = NoPtr /\ slot' = 0 /\ operand' = "garbage" /\ taken' = <<>>
  /\ room' = capacity
  /\ UNCHANGED <<array, length, capacity>>

vector_pop ==
  /\ Call("pop") /\ Then(Tail(todo))
  /\ taken' = IF Tail(todo) = <<>> THEN <<>> ELSE Append(taken, data[length])
  /\ length' = length - 1
  /\ UNCHANGED <<data, array, capacity, last, slot, operand, room>>

join_taken ==
  /\ Call("join") /\ Then(Tail(todo))
  /\ operand' = Joined[<<taken[2], taken[1]>>]
  /\ UNCHANGED <<data, array, length, capacity, last, slot, taken, room>>

(* vector_last and vector_get, with no call in between that moves the array. *)
swap_last ==
  /\ Call("swap") /\ Then(Tail(todo))
  /\ data' = [data EXCEPT ![length] = data[length - 1], ![length - 1] = data[length]]
  /\ UNCHANGED <<array, length, capacity, last, slot, operand, taken, room>>

opstack_next ==
  \/ machine_step
  \/ vector_last \/ hvalue_ref \/ hvalue_tuple_get \/ check_last
  \/ vector_push \/ store \/ vector_pop \/ join_taken \/ swap_last

-----------------------------------------------------------------------------
(* The array has room for the operands.                                    *)
HasRoom == length <= capacity

(* The items when the instruction began: those in the array but for the    *)
(* one to be stored, and those that were popped.                           *)
Held == IF slot = 0 THEN length ELSE length - 1
Items == [i \in 1..Held |-> data[i]] \o Reverse(taken)

AbstractStack == INSTANCE Stack WITH Item <- Operand, items <- Items, capacity <- room

(* The vector is a stack: each opcode finds on it what earlier ones left    *)
(* there, in whatever arrays it has been since, and leaves what bytecode.h  *)
(* says.  Only what OP_DUP pushes when the array is full is left open.     *)
ImplementsStack == AbstractStack!Spec

(* "OP_DUP ... duplicate operand" (bytecode.h:18), always.                  *)
Duplicates == AbstractStack!Documented
=============================================================================
