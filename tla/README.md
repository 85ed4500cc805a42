# A verification of chammer

chammer compiles Hammer, a small functional language, to bytecode and runs it on
a stack machine with reference-counted values. This directory holds TLA+ models
of it, TLC configurations that check them on small instances, and proofs that
TLAPS checks. Paths below are relative to the repository.

## The system

| Component | State | Operations |
|---|---|---|
| HValue heap, `lib/value.c` | `rc` of each allocation; the fields of closures, natives, cons cells, tuples, bindings | `hvalue_ref`, `hvalue_drop` (recursive), `hvalue_clone`, `hvalue_uniq`, `hvalue_make_*`, `put_arg`/`take_arg` in place, `uncons`, `bind`, `yield` |
| Machine, `lib/machine.c` | `ip`, `opstack` (a Vector), `fnstack` (frames in a Buffer), loaded modules | `machine_step` (an opcode), `machine_call_` (from natives) |
| Compiler, `lib/compiler.c` | blocks of bytecode in their output order, scopes with locals and captures, jumps to patch, functions | a visitor per node, `compiler_write_program` |
| Natives, `lib/builtin/` | the data of an effect | `call`, `bind`, `yield`, `free`, `clone` callbacks |
| String map, `lib/string_map.c` | buckets, entries (in an Arena), keys (in a Buffer) | put, get, iterate |
| Containers: `vector.c`, `buffer.c`, `arena.c` | one array that `realloc` may move (Vector, Buffer), blocks that stay (Arena) | push, pop, grow, truncate |
| String pool, modules | a string map each | intern, define, look up |
| Lexer and parser | a node arena with backtracking, operator table | tokens to tree |
| Bytecode, `lib/bytecode.c` | the encoded program | put, read |
| `src/main.c` | | reads a file, compiles it, steps the machine until it stops |

How they interact. `main` lexes, parses and compiles the file; the compiler
interns names and strings in string pools, which are string maps, and writes one
buffer. The machine runs that buffer: it pushes and pops HValues, whose
ownership moves with every C assignment, on a vector; looks external symbols up
in modules, which make each member's value on first use; and calls natives, which
may call the machine back (`machine_call_`).

There is one thread and nothing is stored, so there are no races and no crash
recovery. What is hard here:

- *sequences of legal calls*: a count wrong after some order of reference, clone,
  take, put and drop; a value changed in place while somebody else refers to it;
- *stale pointers*: a pointer into a vector or a buffer kept across a push;
- *partial failure*: a pattern that fails half way through a value, a native that
  reports an error, with what was pushed, moved or not yet stored by then;
- *order*: captures are pushed, moved through a closure and stored, and each of
  these three turns their order round;
- *widths*: the 8-bit index over a 16-bit length, the 8-bit locals, the 16-bit
  jumps;
- *re-entrance*: effects yield by calling the machine that runs them.

What makes each part correct: the heap, that counts equal references, that
nothing dangles or leaks, and that sharing cannot be observed; the compiler and
the machine together, that a program yields what its expression means, with the
operand stack balanced around each call; the containers, that growth is
invisible and a map is a map. The list of hazards in `PROJECT.json` says at which
line each of these can go wrong and which property watches it.

## Modules

**Heap, Values** (`lib/value.c`, and `call_closure`, `call_native` of
`lib/machine.c`). A place that holds an HValue is a *cell*: a C variable, a stack
slot, a field of an object. Passing a struct by value moves the cell to a new owner
(`own`), `hvalue_ref` is the only way to a second cell for an object. `Heap` has
each operation of `value.c` as a function from heaps to heaps; `Values` is the
client, an action per C function. The client can do anything `value.h` allows.
`hvalue_free`'s recursion is spread over steps: fields of a freed object are
"dropping" until `DropField` drops each, and nothing else runs meanwhile. A cell
that the code forgets, for which no `hvalue_drop` can ever come, is "lost". The
natives are a parameter: what matters of a meta is its arity, what its `call`
returns, and whether its `free` and `clone` look after the HValue in its data.
`Pick` is the allocator; the specification constrains it in no way but that it
hands out what is free.

**Terms, ValueTerms.** The abstract specification of the heap: a cell stands for
an immutable term. `ValueTerms` maps the one to the other: `Term`, a recursive function
on cells, reads the term of a cell off the heap (there is one for each cell since the heap
has no cycles), `ClientTerm` keeps those of the client's cells, and `ImmutableTerms` says
that with it `Values` implements `Terms`. It does not quite: a native that is cloned loses its
arguments (below). `ImmutableButNatives` is the refinement of `LosingSpec`, in which a copy
of a native may come out without them, and nothing else is different.

**Tuples** (`htuple_begin` to `htuple_free`). One tuple's life with the width of
the loop index in `htuple_free`. A length has 16 bits and the index 8: both sides of the wrap
are modelled, and the properties say what becomes of a tuple on each.

**HValues, HValueOps, Prelude, Families, Trees, Ast.** Vocabulary: the values that the machine
computes with, as terms; the two functions of `value.c` that recurse over a whole value, apart
because their recursion is beyond the prover; what the natives of the prelude make of their
arguments; the families of programs; the syntax trees they are built from; the node that the
parser makes and the compiler takes.

**Compiler, Machine, Effects, Reference** (`lib/compiler.c`, `lib/machine.c`, the
effects of `lib/builtin`, `hvalue_bind` and `hvalue_yield` of `lib/value.c`). `Compiler` is
the compiler as operators, one per visitor: from a state (blocks, their order,
functions, scopes, current block, fail block) and a syntax node to a state.
`Machine` runs the result, an action per opcode; values are immutable terms, which
is what ValueTerms justifies. An address counts instructions
(`Bytecode` has the bytes). `Effects` adds who
calls `machine_step`: `main`, or a C function in the middle of `OP_BIND` or
`OP_YIELD` by way of `machine_call_`. Its `cstack` is the C stack, a record for each
C function that waits for another; `todo` is what the innermost one does next. An
action is a C function up to its next call into the machine, or from there on.
`Reference` says what an expression means in an environment of names, and what
executing an effect prints and returns, with no bytecode and no stacks;
`MeansTheSame` compares: the machine has printed what the expression prints and
its outcome is the outcome of the expression. Some details of the language have no
documentation and `Reference` takes them from the code: `let _ = e` does not
evaluate `e`, operands are evaluated last to first, a match without a matching case
ends the program, an effect that is the last of its program has no result of
its own, and `return` in that place follows a null pointer (`builtin/effect.c:16`).
A local that nothing was stored in is the value `Uninit`; popping it "corrupts",
or not, as undefined behaviour may. `base` in a frame is not in the C struct: it
remembers the stack height for `StackBalanced`.

**MachineHeap, MachineHeapTerms** (`lib/machine.c` over `lib/value.c`, `lib/module.c`). The
machine once more, an action per opcode, with the operands, the locals and the members of the
prelude as cells of `Heap`: an action is the whole opcode, every reference, clone,
drop and `put_arg` it makes. Each such call is a function from memories to memories, or to
sets of them where it takes a free cell or object. As in `Values`, a drop leaves "dropping"
what is still to be released, `DropField` does one at a time, and no instruction runs
meanwhile. What the
code forgets goes to "lost": the operand of `op_yield` (`machine.c:290`), the old value
of a local stored twice (`machine.c:93`), the arguments of a freed native
(`value.c:615`), the native that reported an error and its result (`machine.c:168`).
`HoldsEachOnce` says that there is nothing else the machine holds
but its operands, locals and module members, each of them once, and `MemoryReturned` that
`machine_free` gives back every object unless one was lost. `ChangedAlone` is about what is
done in place: the only objects that a step changes or frees are those that nothing refers to but
the callee of an `OP_CALLVAL`, on top of the operands, or the HValue that is dropped; whoever
else has an HValue never sees it change. Status "panic" is an
assertion of the debug build or a `panic` of both, and the process ends in it, with what a C
variable held at that moment in no place. `Executable` is what the machine takes for granted
of the code it runs: operands, locals and fields are there when an instruction takes them.
The code has a `debug_assert` for most of it and looks no further, so it is a property of the
compiler, which the run checks of its programs and the proofs assume of others.
Effects are left to `Effects`, where values are terms.

`MachineHeapTerms` reads the terms off the heap and states that this machine implements
`Machine` (`RefinesMachine`: every step is a step on immutable terms, and a free is none), so
what is checked of `Machine` against `Reference` holds of the counted machine too. It is a
module of its own because `Machine` uses `HValueOps`.

**Linker, Bytecode, MCBytecode** (`compiler_write_program`, `lib/bytecode.c`, `lib/bytes.c`).
`Linker` puts the blocks one behind the other and resolves what names a block, with
addresses that count instructions: what `Machine` runs. `Bytecode` is the same program as
bytes, in the steps of `main`: `Write` is `compiler_write_program` (the interned strings, the
function table, the blocks with jumps patched to the offsets of their targets,
big-endian), `Read` is `program_read`, and then the machine fetches (`read_instr`,
`program_func_meta`): from an instruction it goes to the next (`Next_instr`), to where it jumps
(`Jump`) or to where a function begins (`Enter`; a closure is entered where it was made, and
a function returns to the instruction behind its call, which `Next_instr` reaches).
`BytesReadBack` compares what is fetched at each offset with the instruction that `Linker` has
there: that is what allows `Machine` to count instructions where the
code counts bytes; `FetchesInstructions` says that the machine never fetches from the middle of an
instruction or from behind the last. A jump or a number of locals that does not fit is refused
(`Fits`), as `CHECKED_I16` and `CHECKED_U8` do. `IsObject` is what the visitors leave, which
TLC checks of all that `MCBytecode` has the compiler make. Nothing in the code
checks that a program stays below 4 GiB, where `func_meta.addr` would wrap: `IsObject` has it as an
assumption.

**StringMap, Dictionary** (`lib/string_map.c`, `buffer_grow`, `buffer_puts`). A key
pointer names the array it points into; `realloc` may or may not move the array;
a comparison through a stale pointer may come out either way. `Dictionary` is the
abstract map, with the last call and its reply as state.

**StringPool, Module, Arena, Containers** (`lib/string_pool.c`, `lib/module.c`,
`lib/arena.c`). The pool and the module are clients of a string map: `string_pool_intern`
is a put and a get, and a symbol the entry it finds; a module keeps an HValue, made
at the first lookup, beside each entry, and `module_free` iterates. `Arena` has the list
of blocks and what lies in them, an owner that remembers what it wrote where, and the
iterator. `Containers` puts each of them and `OperandStack` in the hands of one client,
chosen at the start.

**Parser** (`lib/parser.c`). The routines as operators: from the state of the parser
when one is called (tokens read, node arena, `p->node`) to the state when it returns.
`Routine` is the frame every one of them has, which ends in `COMMIT` or in `DISCARD`;
`kids` is what a routine holds in its local variables. The input is a text, a sequence of
characters, and `Lexer` (`lib/lexer.c`) finds the token that begins at a place of it, as
`token_next` does, or the error it reports. A parse is one step of `parse_program`; a text
of which only a part was accepted, or that has no tree to compare with, is cut off there,
its tokens perhaps laid out with other blanks and comments, and parsed
again after `parser_reset`. `compile_int` and `compile_string` of the compiler are in
`Lexer` too: names of nodes are what they denote.

Some things about texts that the code decides and no document states. A character that
begins no token ends the program without an error (`lexer.c:206`): what follows is
ignored. A string that ends in an escaped backslash swallows its closing quote
(`lexer.c:105`; `compile_string` at `compiler.c:806` would read it otherwise). At `{-`
with nothing behind it the lexer looks one character past the end of the text
(`lexer.c:72`). The texts checked contain the first; they leave out the other two.

Some things the parser does that nobody may have asked for, and that the model does
too: `(1,,2)` and `(a ...b)` are tuples of two; `(...x)`
is a bare spread; a constant pattern that begins like another pattern is taken for
that one; `==` and backquoted names have no entry among the operators and bind tightest;
and as each alternative reads its operands anew, nesting costs exponential time. With
two operators of one precedence that associate differently, the grouping depends on
their order; no table of the repository has two.

**OperandStack, Stack** (`lib/vector.c` as the opcodes use it). An opcode is the
sequence of vector calls it makes, with both orders where C leaves the order open
(`op_dup`), and with what it has in C variables in between. The array may move when it
grows; what is read through a pointer into one that was freed may be anything. `Stack` is
what `bytecode.h` says of each opcode, on a sequence of values. C promises less of OP_DUP,
which may push before it reads: `Stack!Dup` pushes anything when the array is full, which is
why it keeps the capacity.

**MCValues, MCMachine, MCMachineHeap, MCBytecode, MCParser, MCContainers** give the parameters:
the metas of the prelude, the programs, the texts, the hashes. `MCParser` has the reference of the
parser, a writer: `Written` puts a tree into tokens with parentheses where the meaning
of operators and keywords asks for them and nowhere else. Operators marked "Mutant" are variants of the definition
that follows them with a plausible mistake; no specification uses them. Putting one
in the place of the original must break the property `PROJECT.json` pairs it with,
which shows that the property is able to fail.

## What is checked

| Run | Question | Bounds |
|---|---|---|
| Values_heap | Under any client: are counts exact, fields in order, nothing dangling, everything freed in the end? Do in-place mutations leave shared objects alone and never tie a cycle? | 5 cells, 3 objects, closures and natives of two arguments |
| Values_terms | Is the heap a store of immutable terms, but for the arguments that a cloned native loses? | 6 cells, 2 objects, a closure and a native of two arguments, natives that make an effect or an error; 24244 states |
| Tuples_lengths | Is each item dropped once before a tuple is freed, and does the drop return? What of a tuple too long for the index? | lengths 0, 1, 2, 255, 256, 257, 300 with the real index of 256 values |
| Machine_programs | Do programs end, with their meaning, having printed what they should? Is the stack balanced around calls, the right case taken, and does every use of a name read what lexical scope says? Do calls from effects leave the machine as they found it? | 6167 programs: 42 of `test/test_compiler.c` and `examples/` or like them, and one whose blocks, strings and numbers take more than a byte to count; 2 forms of match, 13 x 13 patterns refutable at the top, 6 scrutinees; every nesting of two out of 8 binding forms over two names; every two statements `e;` or `let x <- e;` over 8 effects, lists and nested blocks among them, with 4 ends |
| Bytecode_programs | Are the bytes of a program read back as that program? Can the machine come to fetch from where no instruction begins? | 397 programs: the 42 and the one above, and every 17th of the families of Machine_programs; a character is a number that stands for its code; 19780 states |
| MachineHeap_programs | Does the machine on the counted heap do what it does on terms, with exact counts at every instruction and each HValue in one place, and without changing what anybody else refers to? Does every instruction find the operands, locals and fields it takes? Does `machine_free` give everything back that was not forgotten? Is a program stuck anywhere? | 270 programs: those of `test/` and `examples/` without effects, every 19th match and every 23rd nesting of Machine_programs; 80 cells, 30 objects, the first free ones used again at once; 15927 states |
| Containers_fit | Is the map a dictionary while its keys fit the buffer; does iteration visit each entry once? Does a symbol identify its string, a module drop each member it made once, an arena keep its items and yield all of them? Does each opcode find on the operand stack what earlier ones left there, and leave what `bytecode.h` says, whenever the array grows and moves? | 4 keys, two with the same hash, one of them empty, 2 buckets, 4 entries; arenas of 5 items in blocks of 2, pushed again after truncation; seven kinds of opcodes with 5 operands, from a capacity of 1, so three growths |
| Parser_texts | Does a text parse to the tree it was written for? Is each node that is kept part of the tree, and part of it once? Is what is accepted of a spoiled text parsed the same way alone? Is anything ignored that a token begins with? | 18462 parses of texts of characters: three of seven operators over four operands, in all five groupings; every kind of expression around every other, and of pattern around every other, in every place a pattern can be; the programs of Machine_programs that come from the repository; every simple tree and every such program with one token removed or spoiled; every text of up to 4 out of 10 odd characters; every quoted string of up to 4 characters; 3 layouts |

The bounds of the heap are small because a counting error needs few cells: two
references to one object, one of them in a field, a clone of it and a target. Three
objects make a chain, so that a free cascades and a cycle could be tied through a
third object. Cells and objects are interchangeable, so symmetry is used; the
runs let the allocator hand out one arbitrary set of free cells, which reaches every
heap up to symmetry (the proofs let it choose). No run bounds the number of steps.
The families of programs put each pattern form before and after each other, and each
binding form inside each other: captures of captures, shadowing on either side, a
closure that outlives its block, a recursive function. Two effects are the fewest
that nest: an `each` in an `each`, a binding that is the effect of a binding, a list
bound in a continuation, a block as an effect that ends in `return`. Machine runs whose status
is no longer "running", a parsed text, a finished tuple, a full operand stack, a module or
an arena that was freed and a heap without free cells have nothing left to do, and only those switch the deadlock check
off. MachineHeap_programs leaves it on: there the end of the process is a step (`Stopped`), and any
other state without one would be a program that hangs in the middle of an opcode, or out of
cells or objects. Every fork of `Pick` in that run is between equals, so it takes the first; so does
`OneOf` of the heaps that `hvalue_uniq` can leave, which differ in the names of the copied cells only.

**Fairness.** `Effects!FairSpec` is weakly fair to its next step: `main` calls
`machine_step` in a loop (`src/main.c:79`), a C function runs on, and nothing else runs. `Tuples!FairSpec` is weakly fair to its
next step: building and freeing are straight C code. `Terminates` holds of the
programs checked, which all end; `Returns` of all lengths checked. No other
specification needs fairness.

### Disagreements between the code and its documentation

Each is a run that expects a violation of one property; `PROJECT.json` has the
quotations.

| Run | What happens |
|---|---|
| Values_native_clone | The clone of a partially applied native has lost its arguments (`value.c:619-627`). |
| Machine_patterns | A pattern that fails below its top leaves operands behind (`compiler.c:655-694`). |
| Machine_nested | An error inside a nested call leaves its frames behind and is handed to the next continuation as if it were a result: the error is lost and the program goes on (`machine.c:395`, `value.c:738-739`). |
| StringMap_growth | Keys dangle once the key buffer moves (`string_map.c:76`). |

The passing runs are outside these: patterns refutable at the top; errors only where no
other continuation waits; keys that fit the buffer. Values_terms has natives that are cloned
partially applied, and its property allows what the code does to them and no more.

More of them the models contain and no run is spent on. `op_dup` keeps a pointer to
the top operand, and C leaves open whether it pushes or reads first
(`machine.c:97-98`): `OperandStack` violates `Duplicates`, in which OP_DUP pushes the top
operand even when the array is full, as `bytecode.h:18` has it. A frame's locals are dropped though nothing was stored in them
(`machine.c:82`), after a pattern that failed or an error: status "corrupted". A native is freed and its
arguments are never dropped (`value.c:614-617`); their counting is exact even so:
they stay allocated, held by "lost". A program whose last effect is a `return`, or
an `each` whose continuation ends in one, follows a null pointer: status "crashed".
A continuation that halts (a match without a case) has `machine_call_` pop whatever
operand is on top (`machine.c:398`). `hvalue_bind` on `[]`
forgets the continuation it was passed (`value.c:196`; `BindNil` leaves it "lost").
The clone of a `print` effect shares its argument without counting it
(`builtin/stdio.c:50`), so dropping the clone frees what the original refers to:
the passing runs have the metas whose `clone` counts, `CloneContract` below is what
the proofs assume, and `MCValues` has the metas of `print` and `return` for who wants
to see it fail. A tuple of 256 items or more is dropped without end (`value.c:524`):
`Returns` and `DroppedOnce` say so.

## What is proved

Each theorem holds for every value of the constants that the named assumptions of the
modules allow: every finite set of cells, every allocator, every hash function, every
size of block. A component's proofs are in a module of their own, and its invariants
are stated of any heap, map or arena, with a lemma for each operation, so that the
lemma of an action composes lemmas as the C function composes calls.

**The heap** (`HeapProofs` has the lemmas, `ValuesProofs` the theorems; `Values`).

- `HeapWellFormed`: `[]TypeOK`. In particular a count never goes below zero, i.e.
  a 32-bit count never wraps downwards.
- `CountsExact`: `[]RcExact`, the count of an object is the number of HValues
  that refer to it. `NothingDangles`: `[]NoDangling`.
- `NoCycles`: `[]Acyclic`. `MemoryReclaimed`: `[]AllReclaimed`.
- `FieldsStayInOrder`: `[]FieldsInOrder`.
- `SharedStayFrozen`: `SharedFrozen`, no step changes an object that two HValues
  refer to.

All assume `CloneContract`: each meta's `clone` references the HValue
it copies. It is the contract that `value.h:124` states; `each` satisfies it,
`print` does not, and with `print` among the natives NoDangling fails.

`RcExact` is not inductive. The first invariant is `Good`: the heap is well
formed, counts are exact, an object is free exactly when its count is 0 (so the
address malloc returns has no references), an unused cell refers to nothing (so
that writing it forgets no reference), and no cell is a field of a freed object.
The hard lemmas are about `hvalue_clone`, where counts grow by the number of copied
fields (a sum over a bijection), and `hvalue_drop` of a last reference, which hands its
fields over to the frees that follow. `Acyclic` and `FieldsInOrder` are inductive only
together with it, and `Shape` is the three: that a new object can tie no cycle needs
that nothing referred to its address before, and that an object filled in place can tie
none needs that the count of 1 which `hvalue_uniq` tests is the machine's own reference
(`OneReference`). `UniqShape` is the lemma that says what `hvalue_uniq` is for: what it
returns has one reference, and is no object that was shared before. `SharedStayFrozen`
is that lemma and `Untouched` of each operation, put together along the calls. For
`MemoryReclaimed`, suppose objects are left: `Acyclic` has one among them that no field
refers to, a count above 0 has some cell refer to it, and every other owner is excluded.

**The heap implements immutable terms** (`ValueTermsProofs`). `ValuesAreTerms`:
`ImmutableButNatives`, the refinement of `Terms` by `Values`: initial states map to initial
states, every step of the client maps to a step on terms, and every `DropField` to a
stutter. The abstract specification is the one in which a copied native may lose its
arguments (`LosingSpec`), for `hnative_clone` loses them; of the other the theorem is false, which
Values_native_clone shows. It assumes `TermsContract`, which `Values_terms` satisfies and which is made of

- `CloneContract`, as above: a clone that does not count what it shares dangles, and its
  term changes;
- `NativesCalled`: effects take no arguments, as those made by `HNATIVE_GENERIC_EFFECT`, and a
  native that makes another makes an effect. Other natives take any number of arguments, in
  any number of calls;
- `ClosuresFit` and `MaxFields >= 2`: the instance has room for the fields of each closure and of
  a pair, and a function is not a native;
- `NoneIsNoValue`: no value is called like the mark of an empty cell.

The argument has three layers. First, the mapping exists: `Term` is a recursive function
over the heap, which need not have a value, and needs a proof that it has. In a heap whose
live objects are finitely many (`LiveFinite`: each is referred to by one of finitely many
cells) and have no cycle, each set of objects has one with no field in the set
(`Bottom`). Take a least set of cells outside of which there are terms: were it not
empty, some cell of it would refer to an object with no field in that set, and get its
term from those there are (`TermsExist`, `TermsAre`). In the same way the terms of two
heaps agree on every set of objects that is closed under fields and did not change
(`SameTerms`). Second, each operation of `Heap` has a lemma on terms
(`RefTerms`, `DropTerms`, `MoveTerms`, `AllocTerms`, `StoreTerms`, `CloneTerms`,
`UniqTerms`): which cells get which new term, and that no other cell has another than
before. For an operation in place (`StoreTerms`) this needs that the object has the one
reference, `OneReference`, and that it is not reached from what is put into it, `Acyclic`:
sharing is where the counts and the terms meet. Third, the lemma of a client step composes
these as the C function composes the calls. The calls of natives need one more invariant,
`Plain`: the one datum of an effect is numbered 0, and whatever else is held by an object is numbered from 1
on. So the arguments of a native are a sequence of terms (`SeqFields`): what it had when the call
began, all or, of a copy, none of it (`CopyOf`), followed by the operands (`CallLoads`). The
one numbered 1 is what `call` gets (`FirstField`), and whatever `call` does with it (`RefMade`,
`ScalarMade`, `ErrorMade`, `EffectMade`) changes no term that the client has.

**The machine on the heap** (`MachineHeapProofs`). For every program, compiled or not, every
prelude, heap and allocator,

- `MachineCounts`: `[]CountsExact`, also between the frees of a drop;
- `MachineHoldings`: `[]HoldsEachOnce`;
- `MachineMemory`: `[]MemoryReturned`;
- `MachineChanges`: `ChangedAlone`, an action property.

They assume `CloneContract`, as above, and `[]Executable`, that the instructions of the program
find what they take. The first holds of the pure natives of the prelude; the second is an
invariant of MachineHeap_programs, where it holds of all programs and fails once the
compiler forgets to store a capture. Without it the machine has no defined behaviour: a release
build then uses an operand it never popped.

All four follow from `AlwaysSound`, `[]Sound`. `Sound` is inductive relative to
`Executable` and says: the heap has `Shape`, as above; unless the process is over in a panic, the
machine *owns* its operands together with the locals and members (`Owned`), which is to say that
they are the cells of the client, the operands without repetition and apart from the rest; the
locals of all frames and the members of the modules are so too (`Framed`, `MembersOnce`); and
after `machine_free` none of them is left. `Owned(m, rest)` is stated of any memory and any rest, because inside
an opcode the HValues in C variables belong to neither: each operation has a lemma that takes a memory
that owns `rest` to one that owns `rest` and what it has put into a variable, or has taken from it
(`PushRefOwned`, `BelowOwned`, `DropOwned`, `UniqueOwned`, `PutOwned`, `EnterOwned`,
`ConsesOwned`, `JoinedOwned`, ...). The lemma of an opcode composes these along its calls, and
where counts would go wrong it cannot: `UniqueOwned` hands out an object with the one reference that
is in the variable, and only of such a one `PutOwned` says that arguments may be moved into
it without tying a cycle. `MachineMemory` is then the argument of `MemoryReclaimed`.
For `MachineChanges` each of these lemmas has another beside it (`PushRefKept`, `GiveKept`,
`PutKept`, ...) that says which objects the operation leaves as they are, `Kept(m, g, X)`: all but
those of `X`. Only `PutKept` and `EnterKept`, the arguments that go into the callee and come out of it, and
the last drop of an object have a nonempty `X`, and by `UniqueKept` the callee is by then
either a fresh copy or an object to which the operand was the one reference (`KeptNew`).

**Tuples** (`TuplesProofs`), for all lengths and any number of values of the index.
`ItemsDroppedOnce`: `[]DroppedOnce`. Of a tuple shorter than the index has values, the
invariant says that exactly the items below the index have been dropped; of a longer one, that
the index, always smaller than the length, never ends the loop.
`PlacesRespected`: `[]TypeOK`, even an index that wraps drops nothing beyond the items.

**The operand stack** (`ContainersProofs`). `RoomForOperands`, `[]HasRoom`, and
`StackImplemented`, the refinement of `Stack`, for any opcodes, operands and initial capacity.
The invariant classifies what an opcode has still to do: where a read is next and
nothing was pushed since, `last` points at the top of the present array; between a push and its
store the array holds one place without a value, and it is the top; what was popped is in C
variables. The mapping to `Stack` puts the latter back and hides the former, so that only the last
call of an opcode shows. That growth keeps all operands, that pushing after the read is safe
and that the two orders of `op_dup` differ in nothing but the top are the steps of the proof.

**The containers** (`StringMapProofs` has the lemmas of the map, `ContainersProofs` those of the
arena and the vector, and the theorems).

- `IterationComplete`: `[]VisitsEachOnce`. `ChainsInv` has every entry in the chain of its
  bucket and in no other place; `IterInv` says that the entries visited are those of
  the buckets before the present one and of its chain up to the present entry.
- `ModuleReleases`: `[]MembersDroppedOnce`, by the invariant that every HValue made is at
  one entry, and those dropped are at the entries visited.
- `ArenaPinsItems`, `ArenaInOrder`: `[]ItemsPinned`, `[]IteratesInOrder`. The n-th item
  is at the quotient and the remainder of n by the size of a block, so no two
  share a place; the iterator is at the place of the next item to be read.
- `MapIsDictionary`: `ImplementsDictionary`, and `SymbolsAreStrings`: `[]SymbolsIdentify`,
  while the key buffer has not moved (`[]Unmoved`). `KeysInv` has a sequence of the
  keys that the entries were made for: each pointer points at its own key's
  characters, and no key was entered twice. When the buffer moves they are false, which
  StringMap_growth shows. `BufferStays` gives the hypothesis to clients whose keys
  fit into the 1024 bytes there are at first (`Fits`: the longest key, as often as there may be
  entries), such as the one of Containers_fit.

**The bytes of a program** (`BytecodeProofs`). For every set of objects that satisfy `IsObject`,
i.e. whatever the visitors may leave, blocks in any order, jumps and calls among them, operands,
functions and strings of any number and length,

- `LayoutReadBack`: `[]BytesReadBack`. What is written is accepted, and each instruction,
  function and string of the program that `Linker` makes is read from it at its place;
- `LayoutFetched`: `[]FetchesInstructions`. Whichever instructions the machine goes through, it
  fetches where one begins.

They assume nothing else than `BytesAssumption`, that the string without characters has no bytes.
What does not fit its operand is refused by the guard of `Write`, `Fits`, as the compiler panics,
except for code of 4 GiB, which `IsObject` excludes and no line of the compiler does.
The invariant (`Inv`) is that what was read has the parts that were written (`IsRead`), and
that the instruction pointer is at the place of an instruction of the linked program
(`AtInstruction`). It is the places that need the argument. `Linker` counts
instructions and `Bytecode` bytes, and both put pieces one behind the other (`Places`):
`PlacesOfPieces` says that where the pieces of all blocks lie is where the blocks lie plus where
the pieces lie in them, which takes an offset in instructions to one in bytes
(`BytewiseFacts`); `Flatten`, that each sequence lies in a flat one where its place is. So
the opcode and the operands of an instruction are slices of the code, the code is one of the
file, and each slice is read as the number that was written (`Bigendian`, `UnsignedBack`,
`SignedBack`: also what is negative, shifted in over a register of ones). A jump is written relative to its
opcode, and `JumpRead` adds that again. That the machine does not run off the end
is `LastLeaves`: the last block ends in a jump, return, yield or halt.
`Places`, `Shifted` and `read_be` are recursive functions over an interval, and the prover does not
know that such a function exists. `StepsExist` constructs it, which all of the above rests on;
`Least` stands in for induction, as a least counterexample.

**Model-checked only.** Liveness (`Terminates`, `Returns`), which is beyond the prover.
`RefinesMachine`: the machine on terms compares and joins them by
the recursive operators of `HValueOps`. `Executable` of compiled programs, and all about the
compiler's visitors, the machine on terms, the effects, the lexer and the parser: their operators are recursive over syntax or text, and the prover neither
unfolds such operators nor does induction over data.

## Not modelled

Substrings and error values as references into a string (they count like one more
reference to it); `/`, `repr`, `++` and `substr` of the prelude, whose texts no model
tells apart; effects on the counted heap (Values has what each does to counts, Effects
when each is done); integers of more than 31 bits, which the checker's arithmetic does
not have; a function with 256 names, where the 8-bit loop of `compiler.c:98` stops
finding them; which error the parser reports, where in the text it is,
and `parser_define_operator`, which fills a table that is constant afterwards; how a value
is written out, AST and graphviz output, the listing of a program, reading files: output
and input without state of interest; the tests, the bench and the vendored `ubench.h`.
The recursion of `hvalue_free` and of the parser have no depth in the models, so that an
exhausted C stack is not seen.

## Plan

1. *Proofs*: `CallsBalanced` of the effects, for every program that is well formed and not just
   for what `Compiler` makes. It is about frames and operands, not about syntax, but `Effects` extends the
   recursive operators of `Compiler` and `HValueOps`: as in `MachineHeap`, the opcodes have to be
   taken apart from these.
2. *Effects on the heap*: `op_bind`, `op_yield` and the bindings in `MachineHeap`, with
   what each error leaves behind.
3. *Substrings and errors* as references in `Values`.
