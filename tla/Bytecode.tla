------------------------------ MODULE Bytecode ------------------------------
(***************************************************************************)
(* The compiled program as the bytes that compiler_write_program of        *)
(* src/lib/compiler.c writes with src/lib/bytecode.c and src/lib/bytes.c,  *)
(* that program_read takes apart, and that the machine fetches its         *)
(* instructions from.  Strings are interned once, in a key buffer they all *)
(* fit (StringMap has what happens when they do not).                      *)
(***************************************************************************)
EXTENDS Linker

CONSTANTS
  Objects,  \* what the visitors leave of each program: blocks, order, funcs, strings
  Bytes(_)  \* the bytes of a string

VARIABLES
  object,   \* what the program was compiled to
  file,     \* what is written of it
  prog,     \* what is read from that
  ip,       \* where the machine fetches next, in bytes
  stage     \* "visited", "written", "loaded" or "running"

vars == <<object, file, prog, ip, stage>>

OPCODE ==
  [JUMP |-> 1, JUMPIF |-> 2, JUMPIFN |-> 3, CALL |-> 4, RETURN |-> 5,
   LOAD |-> 16, STORE |-> 17, DUP |-> 18, POP |-> 19, SWAP |-> 20,
   PUSHINT |-> 32, PUSHSTR |-> 33, PUSHTRUE |-> 34, PUSHFALSE |-> 35,
   MAKECLS |-> 48, CALLVAL |-> 49, BIND |-> 50,
   CHKTUPLE |-> 80, TUPLEGET |-> 81, MAKETUPLE |-> 82, MAKELIST |-> 83,
   CHKNIL |-> 84, CHKCONS |-> 85, UNCONS |-> 86, CONCAT |-> 87, EQ |-> 88,
   LOADEXT |-> 128, YIELD |-> 240, HALT |-> 255]

(* The bytes of each operand. *)
Widths(op) ==
  CASE op \in Jumps \cup {"CHKTUPLE", "TUPLEGET", "MAKETUPLE", "MAKELIST"} -> <<2>>
    [] op \in {"CALL", "MAKECLS"} -> <<4>>
    [] op \in {"LOAD", "STORE", "CALLVAL"} -> <<1>>
    [] op = "PUSHINT" -> <<8>>
    [] op = "PUSHSTR" -> <<4, 4>>
    [] OTHER -> <<>>

(* What these number counts from 0 in the program, from 1 in the modules. *)
Counted == {"CALL", "MAKECLS", "LOAD", "STORE", "TUPLEGET"}
Signed == Jumps \cup {"PUSHINT"}

(* After these the machine does not go on with the next instruction. *)
Leaving == {"JUMP", "RETURN", "YIELD", "HALT"}

func_type == <<"NAMED", "BLOCK", "LAMBDA", "CASE", "GLOBAL">>  \* 0 to 4

Size(i) == 1 + Last(Places(Widths(i.op)))

MAGIC_HAMMER == <<72, 65, 77, 77, 69, 82>>
BYTECODE_VERSION == 1

-----------------------------------------------------------------------------
(* Numbers, most significant byte first; one that is negative wraps. *)

Shifted(n, bytes) ==
  LET shifted[i \in 0..bytes] == IF i = 0 THEN n ELSE shifted[i - 1] \div 256
  IN shifted[bytes]

write_be(n, width) == [i \in 1..width |-> Shifted(n, width - i) % 256]

(* What the bytes say, if the register holds first before they are shifted in. *)
read_be(bytes, first) ==
  LET n[i \in 0..Len(bytes)] == IF i = 0 THEN first ELSE 256 * n[i - 1] + bytes[i]
  IN n[Len(bytes)]

read_ube(bytes) == read_be(bytes, 0)

(* The cast to a signed type of the same width. *)
read_ibe(bytes) == read_be(bytes, IF bytes[1] >= 128 THEN -1 ELSE 0)

IsUnsigned(n, width) == n \in Int /\ Shifted(n, width) = 0
IsSigned(n, width) == n \in Int /\ Shifted(n, width - 1) \in -128..127

-----------------------------------------------------------------------------
(* Writing. *)

(* Where a string lies in the key buffer of Compiler.strings. *)
StringPlaces(c) == Places([n \in DOMAIN c.strings |-> Len(Bytes(c.strings[n]))])
string_pool_get_entry(c, s) ==
  StringPlaces(c)[CHOOSE n \in DOMAIN c.strings : c.strings[n] = s]

(* Where each instruction of a block lies in it, and each block, in their order. *)
InBlock(is) == Places([k \in DOMAIN is |-> Size(is[k])])

(* Mutant: in the order in which the blocks were made. *)
Offsets_made(c) == Places([b \in DOMAIN c.blocks |-> Last(InBlock(c.blocks[b]))])

Offsets(c) == Places([i \in DOMAIN c.order |-> Last(InBlock(Laid(c)[i]))])
Offset(c, b) == Offsets(c)[Position(c, b)]

(* A jump is relative to its own opcode.  Mutant: to its operand. *)
jump_rel_addr_operand(c, i, k) ==
  Offset(c, Laid(c)[i][k].n) - Offsets(c)[i] - (InBlock(Laid(c)[i])[k] + 1)

jump_rel_addr(c, i, k) ==
  Offset(c, Laid(c)[i][k].n) - Offsets(c)[i] - InBlock(Laid(c)[i])[k]

Operands(c, i, k) ==
  LET instr == Laid(c)[i][k]
  IN CASE instr.op \in Jumps -> <<jump_rel_addr(c, i, k)>>
       [] instr.op = "PUSHSTR" -> <<string_pool_get_entry(c, instr.s), Len(Bytes(instr.s))>>
       [] instr.op \in Counted -> <<instr.n - 1>>
       [] OTHER -> <<instr.n>>

(* Instruction k of the block that comes i-th. *)
bytecode_put(c, i, k) ==
  LET op == Laid(c)[i][k].op
      operands == Operands(c, i, k)
  IN <<OPCODE[op]>> \o FlattenSeq([w \in DOMAIN Widths(op) |-> write_be(operands[w], Widths(op)[w])])

bytecode_put_func_meta(c, f) ==
  LET type == CHOOSE t \in 1..5 : func_type[t] = f.type
  IN write_be(Offset(c, f.start), 4) \o <<f.locals, f.args, f.captures, type - 1>>
       \o write_be(IF f.name = "" THEN 0 ELSE string_pool_get_entry(c, f.name), 4)
       \o <<Len(Bytes(f.name))>>

(* CHECKED_U8, CHECKED_U32, CHECKED_I16: otherwise the compiler panics. *)
Fits(c) ==
  /\ IsUnsigned(Last(StringPlaces(c)), 4)
  /\ IsUnsigned(Len(c.funcs), 4)
  /\ \A f \in Range(c.funcs) : {f.locals, f.args, f.captures, Len(Bytes(f.name))} \subseteq 0..255
  /\ \A i \in DOMAIN c.order : \A k \in DOMAIN Laid(c)[i] :
       Laid(c)[i][k].op \in Jumps => IsSigned(jump_rel_addr(c, i, k), 2)

Strings(c) == FlattenSeq([n \in DOMAIN c.strings |-> Bytes(c.strings[n])])
Funcs(c) == FlattenSeq([f \in DOMAIN c.funcs |-> bytecode_put_func_meta(c, c.funcs[f])])
Code(c) ==
  FlattenSeq([i \in DOMAIN c.order |->
    FlattenSeq([k \in DOMAIN Laid(c)[i] |-> bytecode_put(c, i, k)])])

Written(c) ==
  MAGIC_HAMMER \o write_be(BYTECODE_VERSION, 2)
    \o write_be(Len(Strings(c)), 4) \o Strings(c)
    \o write_be(Len(c.funcs), 4) \o Funcs(c)
    \o Code(c)

-----------------------------------------------------------------------------
(* Reading. *)

Slice(bytes, offset, len) == SubSeq(bytes, offset + 1, offset + len)
read_u32be(bytes, offset) == read_ube(Slice(bytes, offset, 4))

FUNC_META_BYTES == 13

(* Where the parts of a file begin. *)
STRINGS_AT == 12
FuncsAt(bytes) == STRINGS_AT + read_u32be(bytes, 8)
CodeAt(bytes) ==
  FuncsAt(bytes) + 4 + FUNC_META_BYTES * read_u32be(bytes, FuncsAt(bytes))

(* Whether program_read returns true. *)
Readable(bytes) ==
  /\ Len(bytes) >= 12
  /\ Slice(bytes, 0, 6) = MAGIC_HAMMER
  /\ Len(bytes) - FuncsAt(bytes) >= 4
  /\ Len(bytes) - CodeAt(bytes) >= 4

program_read(bytes) ==
  LET funcs == FuncsAt(bytes)
      bytecode == CodeAt(bytes)
  IN [string_bytes |-> Slice(bytes, STRINGS_AT, funcs - STRINGS_AT),
      funcs_len    |-> read_u32be(bytes, funcs),
      funcs        |-> Slice(bytes, funcs + 4, bytecode - funcs - 4),
      bytecode     |-> Slice(bytes, bytecode, Len(bytes) - bytecode)]

NotRead == [string_bytes |-> <<>>, funcs_len |-> 0, funcs |-> <<>>, bytecode |-> <<>>]

program_func_meta(p, f) ==
  LET bytes == Slice(p.funcs, FUNC_META_BYTES * (f - 1), FUNC_META_BYTES)
      name == read_u32be(bytes, 8)
  IN [addr |-> read_u32be(bytes, 0), locals |-> bytes[5], args |-> bytes[6],
      captures |-> bytes[7], type |-> func_type[bytes[8] + 1],
      name |-> Slice(p.string_bytes, name, bytes[13])]

(* What machine_step reads when its instruction pointer is at. *)
read_instr(p, at) ==
  LET op == CHOOSE op \in DOMAIN OPCODE : OPCODE[op] = p.bytecode[at + 1]
      w == Widths(op)
      n == IF w = <<>> THEN 0
           ELSE LET bytes == Slice(p.bytecode, at + 1, w[1])
                IN IF op \in Signed THEN read_ibe(bytes) ELSE read_ube(bytes)
  IN CASE op \in Jumps -> [op |-> op, n |-> at + n, s |-> <<>>]
       [] op = "PUSHSTR" ->
            [op |-> op, n |-> 0,
             s |-> Slice(p.string_bytes, n, read_u32be(p.bytecode, at + 5))]
       [] op \in Counted -> [op |-> op, n |-> n + 1, s |-> <<>>]
       [] OTHER -> [op |-> op, n |-> n, s |-> <<>>]

-----------------------------------------------------------------------------
(* What the visitors leave: blocks that jump to blocks, refer to functions  *)
(* and push strings that they interned, operands that they found to fit,    *)
(* the call of the global function first, a last block that the machine     *)
(* does not run out of, and no 4 GiB of code, which nothing checks.         *)

Instrs(c) == [op : DOMAIN OPCODE, n : Int, s : Range(c.strings) \cup {""}]

InstrFits(c, i) ==
  /\ i.op = "PUSHSTR" => i.s \in Range(c.strings)
  /\ i.op # "PUSHSTR" => i.s = ""
  /\ Widths(i.op) = <<>> \/ i.op = "PUSHSTR" => i.n = 0
  /\ i.op \in Jumps => i.n \in DOMAIN c.blocks
  /\ i.op \in {"CALL", "MAKECLS"} => i.n \in DOMAIN c.funcs
  /\ i.op = "PUSHINT" => IsSigned(i.n, 8)
  /\ i.op \in {"LOAD", "STORE", "TUPLEGET"} => IsUnsigned(i.n - 1, Widths(i.op)[1])
  /\ i.op \in {"CALLVAL", "CHKTUPLE", "MAKETUPLE", "MAKELIST"} =>
       IsUnsigned(i.n, Widths(i.op)[1])

FuncFits(c, f) ==
  /\ f.start \in DOMAIN c.blocks
  /\ f.type \in Range(func_type)
  /\ f.name \in Range(c.strings) \cup {""}

IsObject(c) ==
  /\ c.order \in Seq(DOMAIN c.blocks) /\ c.order # <<>>
  /\ DOMAIN c.blocks \subseteq Range(c.order)
  /\ c.funcs \in Seq(Range(c.funcs)) /\ c.strings \in Seq(Range(c.strings))
  /\ \A i \in DOMAIN c.order :
       Laid(c)[i] \in Seq(Instrs(c)) /\ \A instr \in Range(Laid(c)[i]) : InstrFits(c, instr)
  /\ \A f \in Range(c.funcs) : FuncFits(c, f)
  /\ Laid(c)[1] # <<>> /\ Laid(c)[1][1].op = "CALL"
  /\ LET b == Laid(c)[Len(c.order)] IN b # <<>> /\ Last(b).op \in Leaving
  /\ IsUnsigned(Last(Offsets(c)), 4)

ASSUME ObjectsAssumption ==
  \A c \in Objects :
    /\ IsObject(c)
    /\ \A s \in Range(c.strings) : Bytes(s) \in Seq(0..255)

ASSUME BytesAssumption == Bytes("") = <<>>

-----------------------------------------------------------------------------
Init ==
  /\ object \in Objects
  /\ file = <<>>
  /\ prog = NotRead
  /\ ip = 0
  /\ stage = "visited"

Write ==
  /\ stage = "visited"
  /\ Fits(object)
  /\ file' = Written(object)
  /\ stage' = "written"
  /\ UNCHANGED <<object, prog, ip>>

Read ==
  /\ stage = "written"
  /\ Readable(file)
  /\ prog' = program_read(file)
  /\ stage' = "loaded"
  /\ UNCHANGED <<object, file, ip>>

(* The machine goes from one instruction to another: on to the next one, to
   where it jumps, and to where a function begins. *)
Fetched == read_instr(prog, ip)

Moves(to) ==
  /\ ip' = to
  /\ stage' = "running"
  /\ UNCHANGED <<object, file, prog>>

Running == stage \in {"loaded", "running"}

Next_instr == Running /\ Fetched.op \notin Leaving /\ Moves(ip + Size(Fetched))
Jump == Running /\ Fetched.op \in Jumps /\ Moves(Fetched.n)
Enter ==
  /\ Running
  /\ Fetched.op \in {"CALL", "MAKECLS"}
  /\ Moves(program_func_meta(prog, Fetched.n).addr)

Next == Write \/ Read \/ Next_instr \/ Jump \/ Enter
Spec == Init /\ [][Next]_vars

-----------------------------------------------------------------------------
Linked == compiler_write_program(object)
Addresses == InBlock(Linked.code)

(* The instruction and the function as the machine should find them. *)
InstrRead(i) ==
  [Linked.code[i] EXCEPT !.n = IF Linked.code[i].op \in Jumps THEN Addresses[@] ELSE @,
                         !.s = Bytes(@)]
FuncRead(f) == [Linked.funcs[f] EXCEPT !.addr = Addresses[@], !.name = Bytes(@)]

(* What is written can be read; and read from these bytes, in steps of the  *)
(* sizes of the instructions read, the program is the one the machine runs: *)
(* each jump leads to the byte at which the instruction it is meant for     *)
(* begins, each function begins and is called as it was compiled, and each  *)
(* string is found among all that were interned.                            *)
BytesReadBack ==
  /\ stage = "written" => Readable(file)
  /\ stage = "loaded" =>
       /\ Len(prog.bytecode) = Last(Addresses)
       /\ \A i \in DOMAIN Linked.code : read_instr(prog, Addresses[i]) = InstrRead(i)
       /\ prog.funcs_len = Len(Linked.funcs)
       /\ \A f \in DOMAIN Linked.funcs : program_func_meta(prog, f) = FuncRead(f)

(* Wherever it jumps, whatever it calls, the machine fetches where an       *)
(* instruction of the program begins: never inside one, never behind the    *)
(* last.                                                                    *)
FetchesInstructions ==
  Running => \E i \in DOMAIN Linked.code : ip = Addresses[i]
=============================================================================
