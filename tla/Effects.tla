------------------------------ MODULE Effects -------------------------------
(***************************************************************************)
(* Monadic effects: hvalue_bind and hvalue_yield of src/lib/value.c with   *)
(* the effects of src/lib/builtin, and machine_call_ of src/lib/machine.c, *)
(* by which they call back into the machine that runs them.                *)
(*                                                                         *)
(* cstack is the C stack above machine_step: the functions that wait for   *)
(* one they called, innermost last, each with what it needs to go on.      *)
(* todo is what the innermost function does next: "step" if it is a loop   *)
(* over machine_step, main's or that of machine_call_.                     *)
(***************************************************************************)
EXTENDS Machine

CONSTANT Time  \* what get_time finds

VARIABLES
  cstack, todo,
  output  \* the values printed so far

vars == <<machine, cstack, todo, output>>

HUnit == HTuple(<<>>)
Null == Uninit  \* a null pointer for `then`

Stepping == [do |-> "step"]
ToReturn(v) == [do |-> "return", v |-> v]
ToYield(v, then) == [do |-> "yield", v |-> v, then |-> then]
ToBind(v, then) == [do |-> "bind", v |-> v, then |-> then]
ToCall(f, arg) == [do |-> "call", v |-> f, then |-> arg]
ToEach(list, then) == [do |-> "each", v |-> list, then |-> then]

Waiting(in, v, then) == [in |-> in, v |-> v, then |-> then]

Init ==
  /\ machine_init
  /\ cstack = <<>>
  /\ todo = Stepping
  /\ output = <<>>

Does(what) == status = "running" /\ todo.do = what

(* The innermost function goes on with next; the machine stays. *)
GoOn(next) == todo' = next /\ UNCHANGED <<machine, cstack, output>>

(* It calls a function and waits for its result as record w. *)
Wait(w, next) ==
  /\ cstack' = Append(cstack, w)
  /\ todo' = next
  /\ UNCHANGED <<machine, output>>

(* A failed assertion, or a null pointer followed. *)
Abort(how) == Stop(how) /\ UNCHANGED <<cstack, todo, output>>

-----------------------------------------------------------------------------
(* machine_call_: the loop runs until the frames it found are back, or     *)
(* machine_step returns false.                                             *)

(* The callee is called with one argument; base is no variable of the code
   but records how many operands were there. *)
call_returning_to(next) ==
  /\ Does("call")
  /\ op_callval(opstack \o <<todo.then, todo.v>>, 1, next)
  /\ cstack' = Append(cstack, [in |-> "call", sp |-> Len(fnstack), ip |-> ip,
                               base |-> Len(opstack)])
  /\ todo' = Stepping
  /\ UNCHANGED output

(* Mutant: the frame returns past an instruction not executed yet. *)
machine_call_skips == call_returning_to(ip + 1)

machine_call == call_returning_to(ip)

InCall == todo = Stepping /\ cstack # <<>>
Caller == Last(cstack)
InLoop == Does("step") /\ (InCall => Len(fnstack) > Caller.sp)
Stopped == status \in {"yielded", "halted", "error"}

(* An error is returned and leaves the stacks alone; otherwise the result is
   popped, whatever ended the loop. *)
machine_call_returns ==
  /\ InCall
  /\ Stopped \/ (status = "running" /\ Len(fnstack) <= Caller.sp)
  /\ IF status # "error" /\ opstack = <<>> THEN Abort("panic")
     ELSE /\ cstack' = Front(cstack)
          /\ status' = "running"
          /\ todo' = ToReturn(IF status = "error" THEN outcome ELSE Top)
          /\ opstack' = IF status = "error" THEN opstack ELSE Below(1)
          /\ UNCHANGED <<loaded, ip, fnstack, outcome, output>>

(* An opcode that involves no effect. *)
Step ==
  /\ InLoop
  /\ machine_step
  /\ UNCHANGED <<cstack, todo, output>>

-----------------------------------------------------------------------------
(* The opcodes, and what they do with the result. *)

op_bind ==
  /\ InLoop
  /\ At("BIND")
  /\ opstack' = Below(2)
  /\ ip' = ip + 1
  /\ cstack' = Append(cstack, Waiting("op_bind", Uninit, Null))
  /\ todo' = ToBind(Popped(2)[1], Popped(2)[2])
  /\ UNCHANGED <<loaded, fnstack, status, outcome, output>>

op_yield ==
  /\ InLoop
  /\ At("YIELD")
  /\ IsEffect(Top)
  /\ opstack' = Below(1)
  /\ ip' = ip + 1
  /\ cstack' = Append(cstack, Waiting("op_yield", Uninit, Null))
  /\ todo' = ToYield(Top, Null)
  /\ UNCHANGED <<loaded, fnstack, status, outcome, output>>

Returns(to) == Does("return") /\ Caller.in = to

op_bind_returns ==
  /\ Returns("op_bind")
  /\ opstack' = Append(opstack, todo.v)
  /\ cstack' = Front(cstack)
  /\ todo' = Stepping
  /\ UNCHANGED <<loaded, ip, fnstack, status, outcome, output>>

op_yield_returns ==
  /\ Returns("op_yield")
  /\ Leave(IF todo.v.kind = "error" THEN "error" ELSE "yielded", opstack, todo.v)
  /\ cstack' = Front(cstack)
  /\ todo' = Stepping
  /\ UNCHANGED <<ip, output>>

-----------------------------------------------------------------------------
(* hvalue_bind. *)

EffectNames == {"print_effect", "return_effect", "each_effect", "get_time"}

hvalue_bind ==
  /\ Does("bind")
  /\ CASE todo.v = HNil -> GoOn(ToReturn(HNil))
       [] todo.v.kind = "cons" ->
            Wait(Waiting("cons_bind", todo.v.args[2], todo.then),
                 ToCall(todo.then, todo.v.args[1]))
       [] todo.v.kind = "binding" \/ (todo.v.kind = "native" /\ todo.v.s \in EffectNames) ->
            GoOn(ToReturn(Binding(todo.v, todo.then)))
       [] OTHER -> Abort("panic")

(* hvalue_cons_bind: the head's list is there, and the tail's is next. *)
cons_bind_first ==
  /\ Returns("cons_bind")
  /\ cstack' = Append(Front(cstack), Waiting("concat", todo.v, Null))
  /\ todo' = ToBind(Caller.v, Caller.then)
  /\ UNCHANGED <<machine, output>>

cons_bind_rest ==
  /\ Returns("concat")
  /\ IF todo.v # HNil /\ Caller.v.kind \notin {"nil", "cons"} THEN Abort("panic")
     ELSE /\ cstack' = Front(cstack)
          /\ todo' = ToReturn(hvalue_list_concat(Caller.v, todo.v))
          /\ UNCHANGED <<machine, output>>

-----------------------------------------------------------------------------
(* hvalue_yield_impl(v, then): executes v, calls then with its result and  *)
(* returns what that returned.                                             *)

Yields(kind, name) == Does("yield") /\ todo.v.kind = kind /\ todo.v.s = name

Then(then, v) == IF then = Null THEN ToReturn(v) ELSE ToCall(then, v)

stdio_print_yield ==
  /\ Yields("native", "print_effect")
  /\ output' = Append(output, todo.v.args[1])
  /\ todo' = Then(todo.then, HUnit)
  /\ UNCHANGED <<machine, cstack>>

(* then is dereferenced without a test. *)
return_effect_yield ==
  /\ Yields("native", "return_effect")
  /\ IF todo.then = Null THEN Abort("crashed") ELSE GoOn(ToCall(todo.then, todo.v.args[1]))

get_time_yield ==
  /\ Yields("native", "get_time")
  /\ GoOn(IF todo.then = Null THEN ToReturn(HUnit) ELSE ToCall(todo.then, Time))

each_effect_yield ==
  /\ Yields("native", "each_effect")
  /\ GoOn(IF todo.then = Null THEN ToReturn(HUnit) ELSE ToEach(todo.v.args[1], todo.then))

each_next ==
  /\ Does("each")
  /\ IF todo.v.kind = "cons"
       THEN Wait(Waiting("each_call", todo.v.args[2], todo.then),
                 ToCall(todo.then, todo.v.args[1]))
       ELSE GoOn(ToReturn(HUnit))

(* The continuation's effect is executed, its result is dropped. *)
each_called ==
  /\ Returns("each_call")
  /\ IF ~IsEffect(todo.v) THEN Abort("panic")
     ELSE /\ cstack' = Append(Front(cstack), [Caller EXCEPT !.in = "each_yield"])
          /\ todo' = ToYield(todo.v, Null)
          /\ UNCHANGED <<machine, output>>

each_yielded ==
  /\ Returns("each_yield")
  /\ cstack' = Front(cstack)
  /\ todo' = ToEach(Caller.v, Caller.then)
  /\ UNCHANGED <<machine, output>>

hbinding_yield ==
  /\ Yields("binding", "")
  /\ IF IsEffect(todo.v.args[1])
       THEN Wait(Waiting("binding", Uninit, todo.then), ToYield(todo.v.args[1], todo.v.args[2]))
       ELSE Abort("panic")

(* The continuation's result is executed in turn, or passed on. *)
hbinding_yielded ==
  /\ Returns("binding")
  /\ cstack' = Front(cstack)
  /\ todo' = IF IsEffect(todo.v) THEN ToYield(todo.v, Caller.then)
             ELSE Then(Caller.then, todo.v)
  /\ UNCHANGED <<machine, output>>

(* hnative_yield: not a monadic effect. *)
hnative_yield_fails ==
  /\ Does("yield")
  /\ todo.v.kind = "native" /\ todo.v.s \notin EffectNames
  /\ Abort("panic")

-----------------------------------------------------------------------------

hvalue_yield ==
  \/ stdio_print_yield \/ return_effect_yield \/ get_time_yield \/ each_effect_yield
  \/ each_next \/ each_called \/ each_yielded
  \/ hbinding_yield \/ hbinding_yielded \/ hnative_yield_fails

Next ==
  \/ Step \/ op_bind \/ op_bind_returns \/ op_yield \/ op_yield_returns
  \/ machine_call \/ machine_call_returns
  \/ hvalue_bind \/ cons_bind_first \/ cons_bind_rest
  \/ hvalue_yield

Spec == Init /\ [][Next]_vars

(* main calls machine_step in a loop until it returns false, and C functions
   run on. *)
FairSpec == Spec /\ WF_vars(Next)

-----------------------------------------------------------------------------
(* The machine is in the middle of a program, or has stopped for a reason. *)
RECURSIVE IsValue(_)
IsValue(v) ==
  /\ v.kind \in {"int", "string", "true", "false", "tuple", "nil", "cons",
                 "closure", "native", "binding", "error"}
  /\ \A i \in DOMAIN v.args : IsValue(v.args[i])

TypeOK ==
  /\ InLoop => ip \in DOMAIN prog.code
  /\ status \in {"running", "yielded", "halted", "panic", "error", "corrupted",
                "crashed"}
  /\ todo.do \in {"step", "return", "yield", "bind", "call", "each"}
  /\ todo # Stepping => IsValue(todo.v)
  /\ \A i \in DOMAIN opstack : IsValue(opstack[i])
  /\ \A i \in DOMAIN fnstack : \A v \in Range(fnstack[i].locals) :
       v = Uninit \/ IsValue(v)

Executing(op) == InLoop /\ At(op)

(* A function leaves the operands of its caller alone and adds one result; *)
(* a case adds its result and `true`, or only `false`, and the program      *)
(* leaves nothing behind.  A pattern that fails must therefore have popped  *)
(* all it pushed (compiler.c:722-723).                                     *)
StackBalanced ==
  /\ Executing("RETURN") =>
       Len(opstack) = Last(fnstack).base +
         (IF Func(Last(fnstack).fn).type = "CASE" /\ Top.kind = "true" THEN 2 ELSE 1)
  /\ status = "yielded" => opstack = <<>> /\ Len(fnstack) = 1

(* No local is read before something was stored in it.                     *)
LoadsAreStored == Executing("LOAD") => Locals[Op.n] # Uninit

(* A call that ran to its RETURN has left its caller the frames, the       *)
(* operands and the instruction it had, however deep the effects nested.   *)
CallsBalanced ==
  [][machine_call_returns /\ status = "running" /\ status' = "running" =>
       Len(fnstack) = Caller.sp /\ ip = Caller.ip /\ Len(opstack') = Caller.base]_vars

(* machine_call_ "advances the machine until the call returns" (machine.h): *)
(* its caller finds the frames and the instruction pointer as they were.    *)
CallsReturn ==
  [][machine_call_returns => Len(fnstack) = Caller.sp /\ ip = Caller.ip]_vars

(* The compiled program reaches an end.                                    *)
Ended ==
  \/ status \in {"panic", "crashed", "corrupted"}
  \/ status \in {"yielded", "halted", "error"} /\ cstack = <<>>
Terminates == <>Ended
=============================================================================
