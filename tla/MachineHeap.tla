----------------------------- MODULE MachineHeap -----------------------------
(***************************************************************************)
(* The virtual machine of src/lib/machine.c on the heap of value.c: what   *)
(* Machine does with immutable terms is done here with the HValues         *)
(* themselves, each operand, local and module member a cell of Heap.  An   *)
(* action is an opcode with every call it makes; only the recursion of     *)
(* hvalue_free is spread over steps, as in Values, and no instruction runs *)
(* while it lasts.  Effects (OP_BIND, and OP_YIELD of one) are in Effects. *)
(*                                                                         *)
(* An operation that takes a free slot or calls malloc is the set of the   *)
(* memories it can leave, as hvalue_uniq is in Heap.                       *)
(***************************************************************************)
EXTENDS Heap, HValues, SequencesExt

CONSTANTS
  Compiled,             \* a sequence of programs, each its code and its funcs
  Extern,               \* as in Machine
  NativeOutcome(_, _)   \* as in Machine

ASSUME BlankAssumption == Blank \notin Cell
ASSUME ScalarAssumption == {HNil, HBool(TRUE), HBool(FALSE), HTuple(<<>>)} \subseteq Word
ASSUME ClosureAssumption == "closure" \in Fn \ Native
ASSUME ExternAssumption == DOMAIN Extern \subseteq Native
ASSUME ArgcAssumption ==
  \A name \in Native :
    /\ NativeMeta[name].argc \in Nat
    /\ NativeMeta[name].call = "arg" => NativeMeta[name].argc > 0

VARIABLES
  source, prog, ip, status, outcome,  \* as in Machine
  mem,     \* heap; data[o], what object o holds besides HValues; operands
  frames,  \* call frames, each local a cell or Blank
  members  \* the cell of each module member, Blank until its factory is called

loaded == <<source, prog>>
vars == <<source, prog, ip, status, outcome, mem, frames, members>>

-----------------------------------------------------------------------------
(* The operand stack over the heap. *)

On(m, h) == [m EXCEPT !.heap = h]
PushCell(m, c) == [m EXCEPT !.operands = Append(@, c)]
Push(m, h, c) == PushCell(On(m, h), c)

(* The n topmost operands, topmost first, and the machine without them: a
   popped HValue is in a C variable. *)
Popped(m, n) == Reverse(SubSeq(m.operands, Len(m.operands) - n + 1, Len(m.operands)))
Below(m, n) == [m EXCEPT !.operands = SubSeq(@, 1, Len(@) - n)]
Top(m) == Last(m.operands)

PushWord(m, w) == {Push(m, hvalue_make(m.heap, c, w), c) : c \in FreshCell(m.heap)}
PushRef(m, c) == {Push(m, hvalue_ref(m.heap, c, d), d) : d \in FreshCell(m.heap)}

Data(n, s) == [n |-> n, s |-> s]
NoData == Data(0, "")

Placed(m, kind, data, fields, o, c) ==
  [Push(m, Alloc(m.heap, o, c, kind, Fields(fields, 1)), c) EXCEPT !.data[o] = data]

PushNew(m, kind, data, fields) ==
  {Placed(m, kind, data, fields, o, c) : o \in FreshObj(m.heap), c \in FreshCell(m.heap)}

Give(m, cs, who) ==
  On(m, [m.heap EXCEPT !.own = [c \in Cell |-> IF c \in cs THEN who ELSE @[c]]])

(* Calls to hvalue_drop, for DropField to carry out. *)
Drop(m, cs) == Give(m, cs, "dropping")

(* HValues that go out of scope without a call to hvalue_drop. *)
Lose(m, cs) == Give(m, cs, "lost")

Field(m, c, i) == ArgAt(m.heap, m.heap.ref[c], i)
Count(m, c) == Cardinality(Args(m.heap, m.heap.ref[c]))
Is(m, c, kinds) == m.heap.ref[c] \in Obj /\ m.heap.kind[m.heap.ref[c]] \in kinds

(* The term that an HValue is. *)
Term(m, cell) ==
  LET term[c \in Cell] ==
        LET o == m.heap.ref[c]
            kind == m.heap.kind[o]
        IN IF o \notin Obj THEN o
           ELSE Value(IF kind \in Native THEN "native" ELSE kind, m.data[o].n, m.data[o].s,
                      [i \in 1..Count(m, c) |-> term[Field(m, c, i)]])
  IN term[cell]

-----------------------------------------------------------------------------

machine_init ==
  /\ source \in DOMAIN Compiled
  /\ prog = Compiled[source]
  /\ ip = 1
  /\ status = "running"
  /\ outcome = Uninit
  /\ mem = [heap |-> EmptyHeap, data |-> [o \in Obj |-> NoData], operands |-> <<>>]
  /\ frames = <<>>
  /\ members = [name \in DOMAIN Extern |-> Blank]

Idle == Held(mem.heap, "dropping") = {}
Op == prog.code[ip]
Func(f) == prog.funcs[f]
Locals == Last(frames).locals
At(op) == status = "running" /\ Idle /\ Op.op = op

(* An instruction that only changes operands and heap, to one of ms. *)
Operands(op, ms) ==
  /\ At(op)
  /\ mem' \in ms
  /\ ip' = ip + 1
  /\ UNCHANGED <<loaded, status, outcome, frames, members>>

Stop(how) == status' = how /\ UNCHANGED <<loaded, ip, outcome, mem, frames, members>>

(* machine_step returns false. *)
Leave(how, m, v) ==
  /\ status' = how
  /\ mem' = m
  /\ outcome' = v
  /\ UNCHANGED <<loaded, frames, members>>

(* One of the calls to hvalue_drop that an instruction ends with, or that
   hvalue_free makes for the fields of an object. *)
DropField ==
  /\ \E c \in UNION Fresh(Held(mem.heap, "dropping"), 1) : mem' = On(mem, hvalue_drop(mem.heap, c))
  /\ UNCHANGED <<loaded, ip, status, outcome, frames, members>>

-----------------------------------------------------------------------------
(* Control. *)

Jump == At("JUMP") /\ ip' = Op.n /\ UNCHANGED <<loaded, status, outcome, mem, frames, members>>

JumpIf ==
  \E taken \in BOOLEAN :
    /\ At(IF taken THEN "JUMPIF" ELSE "JUMPIFN")
    /\ IF mem.heap.ref[Top(mem)] \in {HBool(TRUE), HBool(FALSE)}
         THEN /\ ip' = IF mem.heap.ref[Top(mem)] = HBool(taken) THEN Op.n ELSE ip + 1
              /\ mem' = Drop(Below(mem, 1), {Top(mem)})
              /\ UNCHANGED <<loaded, status, outcome, frames, members>>
         ELSE Stop("panic")

push_frame(f, m, next) ==
  /\ mem' = m
  /\ frames' = Append(frames,
       [fn |-> f, return_ip |-> next,
        base |-> Len(m.operands) - Func(f).captures - Func(f).args,
        locals |-> [i \in 1..Func(f).locals |-> Blank]])
  /\ ip' = Func(f).addr
  /\ UNCHANGED <<loaded, status, outcome, members>>

Call == At("CALL") /\ push_frame(Op.n, mem, ip + 1)

Stored(frame) == Range(frame.locals) \ {Blank}

(* pop_frame: as in Machine, memory no HValue was stored in is dropped too. *)
Return ==
  /\ At("RETURN")
  /\ \/ /\ mem' = Drop(mem, Stored(Last(frames)))
        /\ frames' = Front(frames)
        /\ ip' = Last(frames).return_ip
        /\ UNCHANGED <<loaded, status, outcome, members>>
     \/ Blank \in Range(Locals) /\ Stop("corrupted")

Halt == At("HALT") /\ ip' = ip + 1 /\ Leave("halted", mem, outcome)

(* op_yield forgets its operand. *)
Yield ==
  /\ At("YIELD")
  /\ ~Is(mem, Top(mem), Native)
  /\ ip' = ip + 1
  /\ Leave("yielded", Lose(Below(mem, 1), {Top(mem)}), Term(mem, Top(mem)))

-----------------------------------------------------------------------------
(* Operands and locals. *)

(* Mutant: the struct copied, and the reference not counted. *)
Load_uncounted ==
  Operands("LOAD", {Push(mem, hvalue_ref_uncounted(mem.heap, Locals[Op.n], d), d) :
                      d \in FreshCell(mem.heap)})

Load == Operands("LOAD", PushRef(mem, Locals[Op.n]))

(* What the local held before goes without a drop. *)
StoreLocal ==
  /\ At("STORE")
  /\ mem' = Lose(Below(mem, 1), {Locals[Op.n]})
  /\ frames' = [frames EXCEPT ![Len(frames)].locals[Op.n] = Top(mem)]
  /\ ip' = ip + 1
  /\ UNCHANGED <<loaded, status, outcome, members>>

Dup == Operands("DUP", PushRef(mem, Top(mem)))
Pop == Operands("POP", {Drop(Below(mem, 1), {Top(mem)})})
Swap == Operands("SWAP", {[mem EXCEPT !.operands = Below(mem, 2).operands \o Popped(mem, 2)]})
PushInt == Operands("PUSHINT", PushWord(mem, HInt(Op.n)))
PushStr == Operands("PUSHSTR", PushNew(mem, "string", Data(0, Op.s), <<>>))
PushTrue == Operands("PUSHTRUE", PushWord(mem, HBool(TRUE)))
PushFalse == Operands("PUSHFALSE", PushWord(mem, HBool(FALSE)))

(* module_get of an unused member calls its factory: the memories it can
   leave, with the member's cell. *)
Made(name) ==
  IF members[name] # Blank THEN {[m |-> mem, c |-> members[name]]}
  ELSE {[m |-> [m EXCEPT !.operands = mem.operands], c |-> Top(m)] :
          m \in PushNew(mem, name, Data(Extern[name].n, name), <<>>)}

LoadExt ==
  /\ At("LOADEXT")
  /\ LET name == mem.data[mem.heap.ref[Top(mem)]].s
     IN IF name \notin DOMAIN Extern THEN Stop("panic")
        ELSE \E made \in Made(name) :
               /\ \E m \in PushRef(Below(made.m, 1), made.c) : mem' = Drop(m, {Top(mem)})
               /\ members' = [members EXCEPT ![name] = made.c]
               /\ ip' = ip + 1
               /\ UNCHANGED <<loaded, status, outcome, frames>>

-----------------------------------------------------------------------------
(* Calls. *)

MakeCls ==
  Operands("MAKECLS",
    LET n == Func(Op.n).captures
    IN PushNew(Below(mem, n), "closure", Data(Op.n, ""), Popped(mem, n)))

Arity(m, o) ==
  IF m.heap.kind[o] = "closure"
    THEN Func(m.data[o].n).captures + Func(m.data[o].n).args
    ELSE NativeMeta[m.heap.kind[o]].argc

ArgsLeft(m, c) == Arity(m, m.heap.ref[c]) - Count(m, c)

OneOf(S) == IF S = {} THEN {} ELSE {CHOOSE x \in S : TRUE}

(* hvalue_uniq, with what the object holds besides HValues.  One of the heaps
   stands for all: they differ in the cells that a copy's fields are in. *)
Unique(m, c) ==
  {[m |-> [On(m, u[1]) EXCEPT !.data[u[1].ref[u[2]]] = m.data[m.heap.ref[c]]], c |-> u[2]] :
     u \in OneOf(hvalue_uniq(m.heap, c))}

WithArgs(m, c, as) == On(m, PutArgs(m.heap, m.heap.ref[c], as))

(* hvalue_closure_take_arg_mut takes the last argument first. *)
TakenArgs(m, c) == Reverse([i \in 1..Count(m, c) |-> Field(m, c, i)])

(* Closure c hands its arguments back, for its body to store. *)
EnterClosure(m, c) ==
  Drop([On(m, TakeArgs(m.heap, m.heap.ref[c])) EXCEPT !.operands = @ \o TakenArgs(m, c)], {c})

(* A native with all its arguments: id and const return a new reference to
   their first argument.  An error goes to main, which reads it, and the
   native is forgotten. *)
hvalue_native_call(m, c) ==
  LET native == m.heap.kind[m.heap.ref[c]]
      result == NativeOutcome(native, Term(m, c).args)
      Returns(ms) == /\ \E r \in ms : mem' = Drop(r, {c})
                     /\ UNCHANGED <<loaded, status, outcome, frames, members>>
  IN \/ /\ NativeMeta[native].call = "arg"
        /\ Returns(PushRef(m, Field(m, c, 1)))
     \/ /\ NativeMeta[native].call = "scalar"
        /\ result \in Word
        /\ Returns(PushWord(m, result))
     \/ /\ result.kind = "error"
        /\ \E failed \in PushNew(m, "string", NoData, <<>>) :
             Leave("error", Lose([failed EXCEPT !.operands = m.operands], {c, Top(failed)}), result)
     \/ /\ result.kind = "panic"
        /\ Leave("panic", m, result)

(* Callee c and n arguments.  A debug_assert stops one argument too many: of a
   native as it is stored, of a closure when no frame can be entered.  What a
   copy of a shared native has lost counts as left. *)
Apply(m, c, n) ==
  \E u \in Unique(m, c) :
    LET left == ArgsLeft(u.m, u.c)
        full == WithArgs(Below(u.m, n), u.c, Popped(m, n))
    IN IF n > left THEN Stop("panic")
       ELSE \/ /\ n < left
               /\ mem' = PushCell(full, u.c)
               /\ ip' = ip + 1
               /\ UNCHANGED <<loaded, status, outcome, frames, members>>
            \/ /\ n = left /\ Is(u.m, u.c, Fn)
               /\ push_frame(u.m.data[u.m.heap.ref[u.c]].n, EnterClosure(u.m, u.c), ip + 1)
            \/ /\ n = left /\ Is(u.m, u.c, Native)
               /\ hvalue_native_call(full, u.c) /\ ip' = ip + 1

CallVal ==
  /\ At("CALLVAL")
  /\ IF Is(mem, Top(mem), Fn \cup Native) THEN Apply(Below(mem, 1), Top(mem), Op.n)
     ELSE Stop("panic")

-----------------------------------------------------------------------------
(* Tuples and lists. *)

Check(op, passes) ==
  Operands(op, IF passes THEN PushWord(mem, HBool(TRUE))
               ELSE PushWord(Drop(Below(mem, 1), {Top(mem)}), HBool(FALSE)))

ChkTuple ==
  Check("CHKTUPLE", \/ mem.heap.ref[Top(mem)] = HTuple(<<>>) /\ Op.n = 0
                    \/ Is(mem, Top(mem), {"tuple"}) /\ Count(mem, Top(mem)) = Op.n)
ChkNil == Check("CHKNIL", mem.heap.ref[Top(mem)] = HNil)
ChkCons == Check("CHKCONS", Is(mem, Top(mem), {"cons"}))

TupleGet == Operands("TUPLEGET", PushRef(mem, Field(mem, Top(mem), Op.n)))

MakeTuple ==
  Operands("MAKETUPLE",
    IF Op.n = 0 THEN PushWord(mem, HTuple(<<>>))
    ELSE PushNew(Below(mem, Op.n), "tuple", NoData, Popped(mem, Op.n)))

(* The top operand becomes the head of the one below it. *)
MakeCons(m) == PushNew(Below(m, 2), "cons", NoData, Popped(m, 2))

(* The list in the top operand with heads put before it, the first of them
   first, or with new references to them if they are shared. *)
Conses(ms, heads, shared) ==
  LET PushHead(m, c) == IF shared THEN PushRef(m, c) ELSE {PushCell(m, c)}
      made[i \in 0..Len(heads)] ==
        IF i = 0 THEN ms
        ELSE UNION {UNION {MakeCons(r) : r \in PushHead(m, heads[i])} : m \in made[i - 1]}
  IN made[Len(heads)]

MakeList ==
  Operands("MAKELIST", Conses(PushWord(Below(mem, Op.n), HNil), Popped(mem, Op.n), FALSE))

(* Mutant: the pair that was taken apart is not dropped. *)
Uncons_keeps ==
  Operands("UNCONS", UNION {PushRef(r, Field(mem, Top(mem), 1)) :
                              r \in PushRef(Below(mem, 1), Field(mem, Top(mem), 2))})

Uncons ==
  LET c == Top(mem)
  IN Operands("UNCONS",
       {Drop(m, {c}) : m \in UNION {PushRef(r, Field(mem, c, 1)) :
                                      r \in PushRef(Below(mem, 1), Field(mem, c, 2))}})

(* The fields that hold the items of a list, the last item first. *)
Items(m, list) ==
  LET items[c \in Cell] ==
        IF Is(m, c, {"cons"}) THEN Append(items[Field(m, c, 2)], Field(m, c, 1)) ELSE <<>>
  IN items[list]

(* hvalue_list_concat: the items of a, referenced from new pairs.  The
   references to the tails of a it recurses with are gone when it returns.
   An empty list is no allocation, and to forget it is to drop it. *)
Joined(m, a, b) ==
  IF m.heap.ref[a] = HNil THEN {PushCell(Drop(m, {a}), b)}
  ELSE IF m.heap.ref[b] = HNil THEN {PushCell(Drop(m, {b}), a)}
  ELSE {Drop(r, {a}) : r \in Conses({PushCell(m, b)}, Items(m, a), TRUE)}

Concat ==
  /\ At("CONCAT")
  /\ LET b == Popped(mem, 2)[1]
         a == Popped(mem, 2)[2]
     IN IF mem.heap.ref[b] # HNil /\ mem.heap.ref[a] # HNil /\ ~Is(mem, a, {"cons"})
          THEN Stop("panic")
          ELSE Operands("CONCAT", Joined(Below(mem, 2), a, b))

(* hvalue_eq: functions equal nothing, not even themselves. *)
EqualCells(m, a, b) ==
  LET eq[p \in Cell \X Cell] ==
        LET x == m.heap.ref[p[1]]
            y == m.heap.ref[p[2]]
        IN IF x \notin Obj \/ y \notin Obj THEN x = y
           ELSE /\ m.heap.kind[x] = m.heap.kind[y]
                /\ m.heap.kind[x] \in {"string", "cons", "tuple"}
                /\ m.data[x] = m.data[y]
                /\ Count(m, p[1]) = Count(m, p[2])
                /\ \A i \in 1..Count(m, p[1]) : eq[<<Field(m, p[1], i), Field(m, p[2], i)>>]
  IN eq[<<a, b>>]

Eq ==
  LET vs == Popped(mem, 2)
      equal == HBool(EqualCells(mem, vs[1], vs[2]))
  IN Operands("EQ", {Drop(m, Range(vs)) : m \in PushWord(Below(mem, 2), equal)})

-----------------------------------------------------------------------------
(* main frees the machine however it stopped, with the frames it stopped in. *)

InOperands == Range(mem.operands)
InFrames == UNION {Stored(frames[f]) : f \in DOMAIN frames}
InModules == Range(members) \ {Blank}

Free(cs) ==
  /\ mem' = [Drop(mem, cs) EXCEPT !.operands = <<>>]
  /\ frames' = <<>>
  /\ members' = [name \in DOMAIN Extern |-> Blank]
  /\ status' = "freed"
  /\ UNCHANGED <<loaded, ip, outcome>>

Finished == status \in {"yielded", "halted", "error"} /\ Idle

(* Mutant: the modules are freed without their members. *)
machine_free_members_kept == Finished /\ Free(InFrames \cup InOperands)

machine_free ==
  /\ Finished
  /\ \/ Free(InFrames \cup InOperands \cup InModules)
     \/ (\E f \in DOMAIN frames : Blank \in Range(frames[f].locals)) /\ Stop("corrupted")

machine_step ==
  \/ Jump \/ JumpIf \/ Call \/ Return \/ Load \/ StoreLocal \/ Dup \/ Pop \/ Swap
  \/ PushInt \/ PushStr \/ PushTrue \/ PushFalse \/ MakeCls \/ CallVal
  \/ ChkTuple \/ TupleGet \/ MakeTuple \/ MakeList \/ ChkNil \/ ChkCons
  \/ Uncons \/ Concat \/ Eq \/ LoadExt \/ Yield \/ Halt

(* The process is over: any other state without a next step is one in which
   the program got stuck. *)
Stopped == Idle /\ status \in {"freed", "panic", "corrupted"} /\ UNCHANGED vars

Next == machine_step \/ DropField \/ machine_free \/ Stopped
Spec == machine_init /\ [][Next]_vars

-----------------------------------------------------------------------------
(* What machine_step relies on and the compiler has to see to: instructions *)
(* find the operands, locals and fields they take.  Most of it is a         *)
(* debug_assert in the code, and the rest is not looked at.                 *)

(* How many operands an instruction takes, or looks at. *)
Needs ==
  CASE Op.op \in {"JUMPIF", "JUMPIFN", "STORE", "DUP", "POP", "YIELD", "LOADEXT", "CHKTUPLE",
                  "CHKNIL", "CHKCONS", "TUPLEGET", "UNCONS"} -> 1
    [] Op.op \in {"SWAP", "CONCAT", "EQ"} -> 2
    [] Op.op \in {"MAKETUPLE", "MAKELIST"} -> Op.n
    [] Op.op = "CALLVAL" -> Op.n + 1
    [] Op.op = "MAKECLS" -> Func(Op.n).captures
    [] OTHER -> 0

Executable ==
  status = "running" =>
    /\ ip \in DOMAIN prog.code
    /\ Needs \in 0..Len(mem.operands)
    /\ Op.op \in {"LOAD", "STORE", "RETURN"} => frames # <<>>
    /\ Op.op \in {"LOAD", "STORE"} => Op.n \in DOMAIN Locals
    /\ Op.op = "LOAD" => Locals[Op.n] # Blank
    /\ Op.op = "PUSHINT" => HInt(Op.n) \in Word
    /\ Op.op = "CALLVAL" => Op.n \in Nat
    /\ Op.op = "TUPLEGET" => Is(mem, Top(mem), {"tuple"}) /\ Op.n \in 1..Count(mem, Top(mem))
    /\ Op.op = "UNCONS" => Is(mem, Top(mem), {"cons"})

(* The counts are exact between any two instructions, after the last, and  *)
(* between the frees of a drop.                                            *)
CountsExact == \A o \in Obj : mem.heap.rc[o] = Cardinality(Refs(mem.heap, o))

(* Every HValue the machine owns is in exactly one place, an operand, a     *)
(* local or a module member: none is dropped twice, and none leaks but     *)
(* those that machine.c and value.c are known to forget.                   *)
LocalsOnce ==
  \A f, g \in DOMAIN frames :
    \A i \in DOMAIN frames[f].locals, j \in DOMAIN frames[g].locals :
      frames[f].locals[i] = frames[g].locals[j] =>
        frames[f].locals[i] = Blank \/ (f = g /\ i = j)

MembersOnce ==
  \A x, y \in DOMAIN members : members[x] = members[y] => members[x] = Blank \/ x = y

HoldsEachOnce ==
  status # "panic" =>
    /\ IsInjective(mem.operands) /\ LocalsOnce /\ MembersOnce
    /\ InOperands \cap InFrames = {}
    /\ InOperands \cap InModules = {}
    /\ InFrames \cap InModules = {}
    /\ InOperands \cup InFrames \cup InModules = Held(mem.heap, "client")

(* What object o is: its kind, its data, and the HValues of its fields. *)
Content(m, o) ==
  [kind |-> m.heap.kind[o], data |-> m.data[o],
   fields |-> [k \in Held(m.heap, o) |-> <<m.heap.slot[k], m.heap.ref[k]>>]]

(* The HValues whose objects a step may change: the callee, or what is freed. *)
InPlace == Held(mem.heap, "dropping") \cup (IF At("CALLVAL") THEN {Top(mem)} ELSE {})

(* An object that a step changes, or frees, is referred to by nothing but   *)
(* the callee that takes arguments or hands them back, or the HValue that   *)
(* is dropped: what hvalue_uniq and the counts are for.  Whoever else has   *)
(* an HValue never sees it change.                                         *)
ChangedAlone ==
  [][\A o \in Live(mem.heap) :
       \/ Content(mem', o) = Content(mem, o)
       \/ \E c \in InPlace : Refs(mem.heap, o) = {c}]_vars

(* machine_free gives all memory back, to the last object, unless an HValue *)
(* that holds some was forgotten on the way.                               *)
MemoryReturned ==
  /\ status = "freed" /\ Idle
  /\ \A c \in Held(mem.heap, "lost") : mem.heap.ref[c] \notin Obj
  => Live(mem.heap) = {}
=============================================================================
