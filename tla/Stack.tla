-------------------------------- MODULE Stack --------------------------------
(* The operand stack as bytecode.h describes it to the opcodes: a sequence *)
(* of values.  Of the memory it is in there is only how many it has room   *)
(* for, since what C leaves open in op_dup depends on that.                *)
EXTENDS Naturals, Sequences

CONSTANTS
  Item,           \* values
  Instr,          \* <<opcode>>, or <<"push", v>>
  Takes,          \* Takes[i]: how many operands instruction i needs
  Part, Passing, Verdict, Joined,  \* what opcodes make of values
  StackCapacity

VARIABLES
  items,
  capacity,
  instr     \* the instruction that is executed, <<>> between two

stackVars == <<items, capacity, instr>>

Init == items = <<>> /\ capacity = StackCapacity /\ instr = <<>>

Top == items[Len(items)]
Below == items[Len(items) - 1]

Begin ==
  /\ instr = <<>>
  /\ instr' \in {i \in Instr : Takes[i] <= Len(items)}
  /\ UNCHANGED <<items, capacity>>

(* Pop n items and push v. *)
Replace(n, v) ==
  /\ items' = Append(SubSeq(items, 1, Len(items) - n), v)
  /\ capacity' = IF Len(items) - n >= capacity THEN capacity * 2 ELSE capacity

Push == instr[1] = "push" /\ Replace(0, instr[2])

(* "duplicate operand" *)
Duplicate == instr[1] = "dup" /\ Replace(0, Top)

(* In C, that is promised only while there is room for one more.           *)
Dup ==
  instr[1] = "dup" /\ \E v \in Item : (Len(items) < capacity => v = Top) /\ Replace(0, v)

TupleGet == instr[1] = "tupleget" /\ Replace(0, Part[Top])

Check ==
  /\ instr[1] = "check"
  /\ IF Top \in Passing THEN Replace(0, Verdict[TRUE]) ELSE Replace(1, Verdict[FALSE])

Join == instr[1] = "join" /\ Replace(2, Joined[<<Below, Top>>])

Pop ==
  /\ instr[1] = "pop"
  /\ items' = SubSeq(items, 1, Len(items) - 1)
  /\ UNCHANGED capacity

Swap ==
  /\ instr[1] = "swap"
  /\ items' = SubSeq(items, 1, Len(items) - 2) \o <<Top, Below>>
  /\ UNCHANGED capacity

Other == Push \/ TupleGet \/ Check \/ Join \/ Pop \/ Swap

End == instr # <<>> /\ instr' = <<>>

(* What C promises, and what bytecode.h:18 does.                           *)
Spec == Init /\ [][Begin \/ (End /\ (Dup \/ Other))]_stackVars
Documented == Init /\ [][Begin \/ (End /\ (Duplicate \/ Other))]_stackVars
=============================================================================
