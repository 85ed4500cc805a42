------------------------------ MODULE Machine -------------------------------
(***************************************************************************)
(* The virtual machine of src/lib/machine.c running one compiled program:  *)
(* an action per opcode of machine_step.  Values are immutable terms (that *)
(* the heap behaves so is Values' ImmutableTerms).  The machine is the one *)
(* built with HAMMER_DEBUG, whose assertions panic.  What OP_BIND and      *)
(* OP_YIELD make of an effect, and who calls machine_step, is in Effects.  *)
(***************************************************************************)
EXTENDS HValueOps, Integers, Sequences, SequencesExt

CONSTANTS
  Compiled,    \* a sequence of programs, each its code and its funcs
  Extern,      \* Extern[name]: what the loaded modules define
  NativeOutcome(_, _)  \* NativeOutcome(name, args): its outcome, or how it stops

VARIABLES
  source,   \* which of the programs is run
  prog,     \* the compiled program
  ip,       \* instruction pointer
  opstack,  \* operand stack, top last
  fnstack,  \* call frames, innermost last
  status,   \* "running", or how it stopped
  outcome   \* the value OP_YIELD was given, or the error it stopped with

loaded == <<source, prog>>
machine == <<source, prog, ip, opstack, fnstack, status, outcome>>

(* base is no field of the C frame: it records how many operands lie below
   those that the called function takes. *)
Frame(f, return_ip, base) ==
  [fn |-> f, return_ip |-> return_ip, base |-> base,
   locals |-> [i \in 1..prog.funcs[f].locals |-> Uninit]]

machine_init ==
  /\ source \in DOMAIN Compiled
  /\ prog = Compiled[source]
  /\ ip = 1
  /\ opstack = <<>>
  /\ fnstack = <<>>
  /\ status = "running"
  /\ outcome = Uninit

Op == prog.code[ip]
Func(f) == prog.funcs[f]
Top == Last(opstack)
Locals == Last(fnstack).locals

(* The n topmost operands, topmost first, and what is below them. *)
Popped(n) == Reverse(SubSeq(opstack, Len(opstack) - n + 1, Len(opstack)))
Below(n) == SubSeq(opstack, 1, Len(opstack) - n)

At(op) == status = "running" /\ Op.op = op

(* One instruction that only replaces the n topmost operands. *)
Operands(op, n, pushed) ==
  /\ At(op)
  /\ opstack' = Below(n) \o pushed
  /\ ip' = ip + 1
  /\ UNCHANGED <<loaded, fnstack, status, outcome>>

Stop(how) == status' = how /\ UNCHANGED <<loaded, ip, opstack, fnstack, outcome>>

(* machine_step returns false, with ip past the instruction. *)
Leave(how, operands, v) ==
  /\ status' = how
  /\ opstack' = operands
  /\ outcome' = v
  /\ UNCHANGED <<loaded, fnstack>>

-----------------------------------------------------------------------------
(* Control. *)

(* Mutant: an address that was never patched, relative to the jump. *)
Jump_unpatched == At("JUMP") /\ UNCHANGED machine

Jump == At("JUMP") /\ ip' = Op.n /\ UNCHANGED <<loaded, opstack, fnstack, status, outcome>>

JumpIf ==
  \E taken \in {"true", "false"} :
    /\ At(IF taken = "true" THEN "JUMPIF" ELSE "JUMPIFN")
    /\ IF Top.kind \in {"true", "false"}
         THEN /\ ip' = IF Top.kind = taken THEN Op.n ELSE ip + 1
              /\ opstack' = Below(1)
              /\ UNCHANGED <<loaded, fnstack, status, outcome>>
         ELSE Stop("panic")

(* push_frame: the frame returns to next. *)
push_frame(f, operands, next) ==
  /\ opstack' = operands
  /\ fnstack' = Append(fnstack, Frame(f, next,
                         Len(operands) - Func(f).captures - Func(f).args))
  /\ ip' = Func(f).addr
  /\ UNCHANGED <<loaded, status, outcome>>

Call == At("CALL") /\ push_frame(Op.n, opstack, ip + 1)

(* pop_frame drops every local; hvalue_drop of one that was never stored
   reads whatever the memory held: nothing happens, or memory is corrupted. *)
Return ==
  /\ At("RETURN")
  /\ \/ /\ fnstack' = Front(fnstack)
        /\ ip' = Last(fnstack).return_ip
        /\ UNCHANGED <<loaded, opstack, status, outcome>>
     \/ Uninit \in Range(Locals) /\ Stop("corrupted")

Halt == At("HALT") /\ ip' = ip + 1 /\ Leave("halted", opstack, outcome)

(* Effects run in OP_BIND and OP_YIELD; partial natives are none, and panic. *)
IsEffect(v) == v.kind \in {"native", "binding"}

(* op_yield of a value that is not an effect: it is popped, and that is all. *)
Yield ==
  /\ At("YIELD")
  /\ ~IsEffect(Top)
  /\ ip' = ip + 1
  /\ Leave("yielded", Below(1), Top)

-----------------------------------------------------------------------------
(* Operands and locals. *)

Load == Operands("LOAD", 0, <<Locals[Op.n]>>)

Store ==
  /\ At("STORE")
  /\ fnstack' = [fnstack EXCEPT ![Len(fnstack)].locals[Op.n] = Top]
  /\ opstack' = Below(1)
  /\ ip' = ip + 1
  /\ UNCHANGED <<loaded, status, outcome>>

Dup == Operands("DUP", 0, <<Top>>)
Pop == Operands("POP", 1, <<>>)
Swap == Operands("SWAP", 2, Popped(2))
PushInt == Operands("PUSHINT", 0, <<HInt(Op.n)>>)
PushStr == Operands("PUSHSTR", 0, <<HStr(Op.s)>>)
PushTrue == Operands("PUSHTRUE", 0, <<HBool(TRUE)>>)
PushFalse == Operands("PUSHFALSE", 0, <<HBool(FALSE)>>)

LoadExt ==
  IF At("LOADEXT") /\ Top.s \notin DOMAIN Extern THEN Stop("panic")
  ELSE Operands("LOADEXT", 1, <<Extern[Top.s]>>)

-----------------------------------------------------------------------------
(* Calls. *)

(* Mutant: captures stored in the order they were pushed. *)
MakeCls_in_order == Operands("MAKECLS", Func(Op.n).captures,
                             <<HClosure(Op.n, Reverse(Popped(Func(Op.n).captures)))>>)

MakeCls == Operands("MAKECLS", Func(Op.n).captures,
                    <<HClosure(Op.n, Popped(Func(Op.n).captures))>>)

ArgsLeft(v) ==
  IF v.kind = "closure" THEN Func(v.n).captures + Func(v.n).args - Len(v.args)
  ELSE v.n - Len(v.args)

(* call_native with all its arguments: an error or a panic stops here.     *)
call_native(callee, args, below, next) ==
  LET result == NativeOutcome(callee.s, args)
  IN /\ ip' = next
     /\ IF result.kind \in {"error", "panic"}
          THEN Leave(result.kind, below, result)
          ELSE /\ opstack' = Append(below, result)
               /\ UNCHANGED <<loaded, fnstack, status, outcome>>

(* op_callval of n arguments, the callee on top of them; next is where the
   machine goes on. A saturated closure hands its arguments back, as operands
   of its body. *)
op_callval(operands, n, next) ==
  LET callee == Last(operands)
      m == Len(operands) - 1
      below == SubSeq(operands, 1, m - n)
      args == callee.args \o Reverse(SubSeq(operands, m - n + 1, m))
  IN IF callee.kind \notin {"closure", "native"} \/ n > ArgsLeft(callee)
       THEN Stop("panic")
     ELSE IF n < ArgsLeft(callee)
       THEN /\ opstack' = Append(below, [callee EXCEPT !.args = args])
            /\ ip' = next
            /\ UNCHANGED <<loaded, fnstack, status, outcome>>
     ELSE IF callee.kind = "native"
       THEN call_native(callee, args, below, next)
     ELSE push_frame(callee.n, Front(operands) \o Reverse(callee.args), next)

CallVal == At("CALLVAL") /\ op_callval(opstack, Op.n, ip + 1)

-----------------------------------------------------------------------------
(* Tuples and lists. *)

(* Mutant: an operand that does not pass stays. *)
Check_keeps(op, passes) == Operands(op, 0, <<HBool(passes)>>)

(* op_chktuple and op_check_type drop an operand that does not pass. *)
Check(op, passes) == Operands(op, IF passes THEN 0 ELSE 1, <<HBool(passes)>>)

ChkTuple == Check("CHKTUPLE", Top.kind = "tuple" /\ Len(Top.args) = Op.n)
ChkNil == Check("CHKNIL", Top.kind = "nil")
ChkCons == Check("CHKCONS", Top.kind = "cons")

TupleGet == Operands("TUPLEGET", 0, <<Top.args[Op.n]>>)
MakeTuple == Operands("MAKETUPLE", Op.n, <<HTuple(Popped(Op.n))>>)
MakeList == Operands("MAKELIST", Op.n, <<FoldLeft(LAMBDA t, h : HCons(h, t), HNil, Popped(Op.n))>>)
Uncons == Operands("UNCONS", 1, <<Top.args[2], Top.args[1]>>)

(* The left operand must be a list, unless the right one is empty. *)
Concat ==
  IF At("CONCAT") /\ Top # HNil /\ Popped(2)[2].kind \notin {"nil", "cons"}
  THEN Stop("panic")
  ELSE Operands("CONCAT", 2, <<hvalue_list_concat(Popped(2)[2], Top)>>)

Eq == Operands("EQ", 2, <<HBool(hvalue_eq(Top, Popped(2)[2]))>>)

-----------------------------------------------------------------------------

machine_step ==
  \/ Jump \/ JumpIf \/ Call \/ Return \/ Load \/ Store \/ Dup \/ Pop \/ Swap
  \/ PushInt \/ PushStr \/ PushTrue \/ PushFalse \/ MakeCls \/ CallVal
  \/ ChkTuple \/ TupleGet \/ MakeTuple \/ MakeList \/ ChkNil \/ ChkCons
  \/ Uncons \/ Concat \/ Eq \/ LoadExt \/ Yield \/ Halt

=============================================================================
