------------------------------ MODULE Compiler ------------------------------
(***************************************************************************)
(* The compiler of src/lib/compiler.c, as operators from a compiler state  *)
(* and a syntax node to a compiler state; a visitor keeps its name in the  *)
(* code.  The code does not support N_PALIAS.                              *)
(***************************************************************************)
EXTENDS Ast, Linker

(***************************************************************************)
(* The state: the bytecode blocks and their order in the output, the       *)
(* functions, the strings interned, and what the visitors pass along as    *)
(* Block **b, Block **fail (0 for NULL) and Scope *s with its outer scopes. *)
(***************************************************************************)
EmptyScope == [locals |-> <<>>, captures |-> <<>>]

compiler_init ==
  [blocks |-> <<<<>>>>, order |-> <<1>>, funcs |-> <<>>, strings |-> <<>>,
   b |-> 1, fail |-> 0, scopes |-> <<EmptyScope>>]

Instr(op, n, s) == [op |-> op, n |-> n, s |-> s]

EmitTo(c, b, is) == [c EXCEPT !.blocks[b] = @ \o is]
EmitN(c, op, n) == EmitTo(c, c.b, <<Instr(op, n, "")>>)
Emit(c, op) == EmitN(c, op, 0)

insert_block_after(c, prev) ==
  LET new == Len(c.blocks) + 1
      at == CHOOSE i \in DOMAIN c.order : c.order[i] = prev
  IN [c EXCEPT !.blocks = Append(@, <<>>), !.order = InsertAt(@, at + 1, new)]

(* A string keeps the place it got when it was first interned. *)
Intern(c, s) ==
  IF s \in Range(c.strings) THEN c ELSE [c EXCEPT !.strings = Append(@, s)]

LastBlock(c) == Len(c.blocks)
NewBlock(c) == insert_block_after(c, c.b)

-----------------------------------------------------------------------------
(* Scopes. *)

scope_get_local(scope, name) ==
  CHOOSE i \in DOMAIN scope.locals : scope.locals[i] = name

scope_put_local(scope, name) ==
  IF name \in Range(scope.locals) THEN scope
  ELSE [scope EXCEPT !.locals = Append(@, name)]

scope_put_capture(scope, name) ==
  IF name \in Range(scope.captures) THEN scope
  ELSE [scope EXCEPT !.captures = Append(@, name)]

(* A name that scope d does not have becomes a capture and a local of it,
   and of every scope further out that lacks it; in the outermost scope a
   capture is an external symbol. *)
RECURSIVE scope_resolve_symbol(_, _, _)
scope_resolve_symbol(scopes, d, name) ==
  IF name \in Range(scopes[d].locals) THEN scopes
  ELSE LET outer == IF d = 1 THEN scopes
                    ELSE scope_resolve_symbol(scopes, d - 1, name)
       IN [outer EXCEPT ![d] = scope_put_local(scope_put_capture(@, name), name)]

Inner(c) == Last(c.scopes)
LocalOf(c, name) == scope_get_local(Inner(c), name)

PutLocal(c, name) ==
  [c EXCEPT !.scopes[Len(c.scopes)] = scope_put_local(@, name)]

StoreName(c, name) ==
  LET d == PutLocal(c, name) IN EmitN(d, "STORE", LocalOf(d, name))

(* Mutant: the last capture forgotten. *)
put_store_captures_short(scope) ==
  Reverse([i \in {n \in DOMAIN scope.captures : n < Len(scope.captures)} |->
             Instr("STORE", scope_get_local(scope, scope.captures[i]), "")])

put_store_captures(scope) ==
  Reverse([i \in DOMAIN scope.captures |->
             Instr("STORE", scope_get_local(scope, scope.captures[i]), "")])

put_load_captures(inner, outer) ==
  [i \in DOMAIN inner.captures |->
     Instr("LOAD", scope_get_local(outer, inner.captures[i]), "")]

put_load_externs(scope) ==
  FlattenSeq([i \in DOMAIN scope.captures |->
    <<Instr("PUSHSTR", 0, scope.captures[i]), Instr("LOADEXT", 0, ""),
      Instr("STORE", scope_get_local(scope, scope.captures[i]), "")>>])

-----------------------------------------------------------------------------
(* Functions: visit_function, the cases of visit_match and the statements  *)
(* of visit_block_body compile a body in a scope and a block of its own.   *)

(* A prelude block and a body block after it, the body's the current one.  *)
OpenFunction(c, after) ==
  LET p == insert_block_after(c, after)
      body == LastBlock(p) + 1
  IN [insert_block_after(p, LastBlock(p)) EXCEPT !.b = body,
                                                 !.scopes = Append(@, EmptyScope)]

(* Back in block b of the outer scope: fill the prelude (the block made
   before the body), load the captures and make or call the function, whose
   name, or "", is interned as well. *)
CloseFunction(c, b, prelude, args, type, name, op) ==
  LET inner == Inner(c)
      f == [start |-> prelude, locals |-> Len(inner.locals), args |-> args,
            captures |-> Len(inner.captures), type |-> type, name |-> name]
      out == [EmitTo(IF name = "" THEN c ELSE Intern(c, name), prelude,
                     put_store_captures(inner))
                EXCEPT !.scopes = Front(@), !.b = b, !.funcs = Append(@, f)]
  IN EmitN(EmitTo(out, b, put_load_captures(inner, Inner(out))),
           op, Len(out.funcs))

(* A failed match in a function or a block stops the machine. *)
HaltOnFail(c) ==
  IF c.fail = 0 THEN c ELSE EmitTo(c, c.fail, <<Instr("HALT", 0, "")>>)

(* A failed case returns `false`. *)
ReturnOnFail(c) ==
  IF c.fail = 0 THEN c ELSE EmitTo(c, c.fail, <<Instr("PUSHFALSE", 0, ""),
                                                Instr("RETURN", 0, "")>>)

(* The fail block, made when the first refutable pattern needs it. *)
NeedFail(c) ==
  IF c.fail # 0 THEN c ELSE [NewBlock(c) EXCEPT !.fail = LastBlock(c) + 1]

OrFail(c) == EmitN(c, "JUMPIFN", c.fail)

-----------------------------------------------------------------------------
(* Expressions. *)

RECURSIVE visit_expr(_, _), visit_pattern(_, _, _)

visit_ident(c, name) ==
  LET d == [c EXCEPT !.scopes = scope_resolve_symbol(@, Len(@), name)]
  IN EmitN(d, "LOAD", LocalOf(d, name))

visit_string(c, s) == EmitTo(Intern(c, s), c.b, <<Instr("PUSHSTR", 0, s)>>)

visit_siblings(c, ns) == FoldLeft(LAMBDA d, n : visit_expr(d, n), c, ns)
visit_reverse_siblings(c, ns) == visit_siblings(c, Reverse(ns))

visit_tuple(c, n) == EmitN(visit_reverse_siblings(c, n.kids), "MAKETUPLE", Len(n.kids))

(* Runs of plain items become lists, concatenated with the spreads. *)
visit_list(c, n) ==
  LET spread(i) == n.kids[i].type = "SPREAD"
      ends(i) == i = Len(n.kids) \/ spread(i + 1)
      item(acc, i) ==
        LET visited == IF spread(i) THEN visit_expr(acc.c, n.kids[i].kids[1])
                       ELSE visit_expr(acc.c, n.kids[i])
            len == IF spread(i) THEN acc.len ELSE acc.len + 1
            made == ~spread(i) /\ ends(i)
            parts == IF spread(i) \/ made THEN acc.parts + 1 ELSE acc.parts
            d == IF made THEN EmitN(visited, "MAKELIST", len) ELSE visited
        IN [c     |-> IF parts > 2 THEN Emit(d, "CONCAT") ELSE d,
            parts |-> IF parts > 2 THEN parts - 1 ELSE parts,
            len   |-> IF made THEN 0 ELSE len]
  IN IF n.kids = <<>> THEN EmitN(c, "MAKELIST", 0)
     ELSE FoldLeft(item, [c |-> c, parts |-> 1, len |-> 0],
                   [i \in DOMAIN n.kids |-> i]).c

visit_unary(c, n) ==
  IF n.name = "-" /\ n.kids[1].type = "INT"
    THEN EmitN(c, "PUSHINT", -n.kids[1].value)
    ELSE EmitN(visit_ident(visit_expr(c, n.kids[1]), n.name), "CALLVAL", 1)

visit_binary(c, n) ==
  EmitN(visit_ident(visit_reverse_siblings(c, n.kids), n.name), "CALLVAL", 2)

visit_apply(c, n) ==
  EmitN(visit_reverse_siblings(c, n.kids), "CALLVAL", Len(n.kids) - 1)

visit_else(c, n, contBlock) ==
  [EmitN(visit_expr(c, n), "JUMP", contBlock) EXCEPT !.b = contBlock]

visit_if(c, n) ==
  LET elseBlock == LastBlock(c) + 1
      cond == EmitN(visit_expr(NewBlock(c), n.kids[1]), "JUMPIFN", elseBlock)
      then == visit_expr(cond, n.kids[2])
      cont(k) == visit_else([k EXCEPT !.b = elseBlock], n.kids[3], LastBlock(k))
  IN cont(NewBlock(then))

(* One case: a function of the scrutinee that returns `true` on top of its
   result, or `false` from the fail block all the cases share. *)
visit_case(c, lhs, rhs, contBlock) ==
  LET d == OpenFunction(Emit(c, "DUP"), contBlock)
      matched == visit_pattern(d, lhs, Nothing)
      body == Emit(Emit(visit_expr(matched, rhs), "PUSHTRUE"), "RETURN")
      prelude == LastBlock(d) - 1
  IN EmitN(CloseFunction(body, c.b, prelude, 1, "CASE", "", "CALL"), "JUMPIF", contBlock)

visit_cases(c, n) ==
  LET contBlock == LastBlock(c)
      pairs == (Len(n.kids) - 1) \div 2
      case(d, i) == visit_case(d, n.kids[2 * i], n.kids[2 * i + 1], contBlock)
  IN FoldLeft(case, [c EXCEPT !.fail = 0], [i \in 1..pairs |-> i])

(* Without an else, or when no case of a function matched, execution stops. *)
EndCases(c, n, contBlock) ==
  LET hasElse == Len(n.kids) % 2 = 0
      d == IF hasElse THEN EmitN(visit_expr(c, Last(n.kids)), "JUMP", contBlock) ELSE c
  IN [Emit(ReturnOnFail(d), "HALT") EXCEPT !.b = contBlock]

visit_match(c, n) ==
  LET done(k) == EndCases(visit_cases(k, n), n, LastBlock(k))
      matched == done(NewBlock(visit_expr(c, n.kids[1])))
  IN Emit(Emit([matched EXCEPT !.fail = c.fail], "SWAP"), "POP")

(* A recursive function takes itself as its first argument, and binds its
   own name to itself applied to itself. *)
ApplyToSelf(c, rec) ==
  IF rec THEN EmitN(Emit(c, "DUP"), "CALLVAL", 1) ELSE c

visit_function(c, params, body, name, rec) ==
  LET d == [OpenFunction(c, c.b) EXCEPT !.fail = 0]
      start == IF rec THEN StoreName(ApplyToSelf(PutLocal(d, name), rec), name) ELSE d
      matched == FoldLeft(LAMBDA e, p : visit_pattern(e, p, Nothing), start, params)
      done == HaltOnFail(Emit(visit_expr(matched, body), "RETURN"))
      args == Len(params) + IF rec THEN 1 ELSE 0
      type == IF name = "" THEN "LAMBDA" ELSE "NAMED"
      made == CloseFunction(done, c.b, LastBlock(d) - 1, args, type, name, "MAKECLS")
  IN ApplyToSelf([made EXCEPT !.fail = c.fail], rec)

visit_lambda(c, n, name) == visit_function(c, Front(n.kids), Last(n.kids), name, FALSE)

RECURSIVE visit_block_body(_, _)

(* The assignments at the head of a block share one function. *)
visit_assignments(c, stmts) ==
  LET n == CHOOSE i \in DOMAIN stmts :
             /\ \A j \in 1..i : stmts[j].type = "ASSIGN"
             /\ stmts[i + 1].type # "ASSIGN"
      d == [OpenFunction(c, c.b) EXCEPT !.fail = 0]
      bound == FoldLeft(LAMBDA e, s : visit_pattern(e, s.kids[1], s.kids[2]),
                        d, SubSeq(stmts, 1, n))
      rest == visit_block_body(bound, SubSeq(stmts, n + 1, Len(stmts)))
      done == HaltOnFail(Emit(rest, "RETURN"))
  IN [CloseFunction(done, c.b, LastBlock(d) - 1, 0, "BLOCK", "", "CALL")
        EXCEPT !.fail = c.fail]

(* N_BIND and N_VOID: what follows becomes a closure of the result of the
   effect, which the pattern takes apart, or which is dropped. *)
visit_effect(c, stmts) ==
  LET d == [OpenFunction(c, c.b) EXCEPT !.fail = 0]
      taken == IF stmts[1].type = "VOID" THEN Emit(d, "POP")
               ELSE visit_pattern(d, stmts[1].kids[1], Nothing)
      done == HaltOnFail(Emit(visit_block_body(taken, Tail(stmts)), "RETURN"))
      then == [CloseFunction(done, c.b, LastBlock(d) - 1, 1, "BLOCK", "", "MAKECLS")
                 EXCEPT !.fail = c.fail]
  IN Emit(visit_expr(then, Last(stmts[1].kids)), "BIND")

visit_block_body(c, stmts) ==
  IF stmts = <<>> THEN EmitN(c, "MAKETUPLE", 0)
  ELSE CASE stmts[1].type = "ASSIGN" -> visit_assignments(c, stmts)
         [] stmts[1].type \in {"BIND", "VOID"} -> visit_effect(c, stmts)
         [] OTHER -> visit_expr(c, stmts[1])

(* There is always a current block.  TLC evaluates an argument where it is
   first used: to ask for c.b here keeps it from visiting the whole program
   backwards, with a stack as deep as the program is long.                 *)
visit_expr(c, n) ==
  CASE c.b = 0 -> c
    [] n.type = "IDENT" -> visit_ident(c, n.name)
    [] n.type = "STRING" -> visit_string(c, n.name)
    [] n.type = "INT" -> EmitN(c, "PUSHINT", n.value)
    [] n.type = "TUPLE" -> visit_tuple(c, n)
    [] n.type = "LIST" -> visit_list(c, n)
    [] n.type = "UNARY" -> visit_unary(c, n)
    [] n.type = "BINARY" -> visit_binary(c, n)
    [] n.type = "APPLY" -> visit_apply(c, n)
    [] n.type = "IF" -> visit_if(c, n)
    [] n.type = "MATCH" -> visit_match(c, n)
    [] n.type = "LAMBDA" -> visit_lambda(c, n, "")
    [] n.type = "BLOCK" -> visit_block_body(c, n.kids)

-----------------------------------------------------------------------------
(* Patterns: rhs is the expression to match, or Nothing when the value is  *)
(* the top operand.                                                        *)

VisitRhs(c, rhs) == IF rhs = Nothing THEN c ELSE visit_expr(c, rhs)

(* A lambda is told the name it gets. *)
VisitNamed(c, name, rhs) ==
  IF rhs.type = "LAMBDA" THEN visit_lambda(c, rhs, name) ELSE VisitRhs(c, rhs)

(* Mutant: the name is in scope before its value is compiled. *)
visit_pident_early(c, lhs, rhs) ==
  StoreName(VisitNamed(PutLocal(c, lhs.name), lhs.name, rhs), lhs.name)

visit_pident(c, lhs, rhs) == StoreName(VisitNamed(c, lhs.name, rhs), lhs.name)

(* value is 1 for the flag NF_REC *)
visit_papply(c, lhs, rhs) ==
  LET named == IF lhs.value = 1 THEN PutLocal(c, lhs.name) ELSE c
  IN StoreName(visit_function(named, lhs.kids, rhs, lhs.name, lhs.value = 1), lhs.name)

visit_ptuple(c, lhs, rhs) ==
  LET checked == OrFail(EmitN(NeedFail(VisitRhs(c, rhs)), "CHKTUPLE", Len(lhs.kids)))
      item(e, i) == visit_pattern(EmitN(e, "TUPLEGET", i), lhs.kids[i], Nothing)
  IN Emit(FoldLeft(item, checked, [i \in DOMAIN lhs.kids |-> i]), "POP")

RECURSIVE PListItems(_, _)
PListItems(c, items) ==
  IF items = <<>>
    THEN Emit(OrFail(Emit(c, "CHKNIL")), "POP")
  ELSE IF items[1].type = "PLTAIL"
    THEN IF items[1].name = "" THEN Emit(c, "POP") ELSE StoreName(c, items[1].name)
  ELSE LET d == Emit(OrFail(Emit(c, "CHKCONS")), "UNCONS")
       IN PListItems(visit_pattern(d, items[1], Nothing), Tail(items))

visit_plist(c, lhs, rhs) == PListItems(NeedFail(VisitRhs(c, rhs)), lhs.kids)

visit_pconst(c, lhs, rhs) ==
  OrFail(Emit(visit_expr(NeedFail(VisitRhs(c, rhs)), lhs.kids[1]), "EQ"))

visit_pwild(c, rhs) == IF rhs = Nothing THEN Emit(c, "POP") ELSE c

visit_pattern(c, lhs, rhs) ==
  CASE c.b = 0 -> c
    [] lhs.type = "PIDENT" -> visit_pident(c, lhs, rhs)
    [] lhs.type = "PAPPLY" -> visit_papply(c, lhs, rhs)
    [] lhs.type = "PTUPLE" -> visit_ptuple(c, lhs, rhs)
    [] lhs.type = "PLIST" -> visit_plist(c, lhs, rhs)
    [] lhs.type = "PCONST" -> visit_pconst(c, lhs, rhs)
    [] lhs.type = "PWILD" -> visit_pwild(c, rhs)

-----------------------------------------------------------------------------
(* The program. *)

(* A global function loads the external symbols, then evaluates: body is  *)
(* the state after its body was compiled.                                 *)
CloseGlobal(body) ==
  LET init == LastBlock(body) + 1
      scope == Inner(body)
      f == [start |-> init, locals |-> Len(scope.locals), args |-> 0,
            captures |-> Len(scope.captures), type |-> "GLOBAL", name |-> ""]
      interned == FoldLeft(Intern, body, scope.captures)
      loaded == EmitTo(insert_block_after(interned, 1), init, put_load_externs(scope))
      call == Instr("CALL", Len(body.funcs) + 1, "")
  IN EmitTo([loaded EXCEPT !.funcs = Append(@, f)], 1, <<call>>)

compiler_visit_program(n) ==
  LET c == [insert_block_after(compiler_init, 1) EXCEPT !.b = 2]
  IN CloseGlobal(Emit(visit_expr(c, n), "YIELD"))

Compile(n) == compiler_write_program(compiler_visit_program(n))
=============================================================================
