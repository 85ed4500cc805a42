------------------------------- MODULE Parser --------------------------------
(***************************************************************************)
(* The parser of src/lib/parser.c: a recursive descent with backtracking,  *)
(* whose routines allocate nodes in an arena, truncate it when they give   *)
(* up, and hand each other nodes through Parser.node.                      *)
(*                                                                         *)
(* A routine keeps its name in the code, and takes the state its caller is *)
(* in to the state after its DISCARD or COMMIT.  Call leaves a state that  *)
(* has failed alone: then the caller has given up before the call.         *)
(***************************************************************************)
EXTENDS Ast, Lexer

CONSTANTS
  Inputs,     \* texts, with what they are to parse to, or Nothing
  Layouts,    \* what may stand before a token
  Operators   \* the operator table: name -> [prec, assoc]

VARIABLES
  text,      \* the characters
  input,     \* the tokens in it, which token_next finds whoever calls it
  expected,  \* what the input is to parse to, or Nothing
  parser,    \* the state of the parser
  result     \* of parse_program, or "none"

vars == <<text, input, expected, parser, result>>

(***************************************************************************)
(* The state: pos is the number of tokens read, nodes the arena, node the  *)
(* place of Parser.node in it.  kids is what the innermost routine holds   *)
(* in local variables, the nodes that its subroutines made for it.         *)
(***************************************************************************)
parser_init == [ok |-> TRUE, pos |-> 0, nodes |-> <<>>, node |-> 0, kids |-> <<>>]

PREC_DEFAULT == 1000

-----------------------------------------------------------------------------
Peek(f) == input[f.pos + 1]
At(f, type) == Peek(f).type = type
LexFails(f) == Peek(f).type \in {"NONE", "BAD"}

Skip(f) == [f EXCEPT !.pos = @ + 1]
Failed(f) == [f EXCEPT !.ok = FALSE]
GoOn(f) == [f EXCEPT !.ok = TRUE]
THEN_TOKEN(f, type) == IF f.ok /\ At(f, type) THEN Skip(f) ELSE Failed(f)

token_is_binary_op(f) == Peek(f).type \in {"OP", "INFIX"}

(* Looked up with its backquote, a name has no entry. *)
HasEntry(f) == At(f, "OP") /\ Peek(f).name \in DOMAIN Operators
Prec(f) == IF HasEntry(f) THEN Operators[Peek(f).name].prec ELSE PREC_DEFAULT
Assoc(f) == IF HasEntry(f) THEN Operators[Peek(f).name].assoc ELSE "LEFT"

-----------------------------------------------------------------------------
(* Frames: s is the state at the beginning of a routine, f where it ends.  *)

begin(s) == [s EXCEPT !.kids = <<>>]

commit(s, f) == [f EXCEPT !.kids = Append(s.kids, f.node)]

(* Mutant: the nodes of the failed routine stay in the arena. *)
discard_leaks(s, f) == [f EXCEPT !.pos = s.pos, !.kids = s.kids]

discard(s, f) ==
  [f EXCEPT !.pos = s.pos, !.kids = s.kids, !.nodes = SubSeq(@, 1, Len(s.nodes))]

Routine(s, f) == IF f.ok THEN commit(s, f) ELSE discard(s, f)

(* The routine of that name, but for the prefix parse_, with its flags: see
   below. *)
RECURSIVE Call(_, _, _)

(* What the first of some routines makes that succeeds; f is how the one
   before them ended. *)
RECURSIVE First(_, _, _)
First(s, f, routines) ==
  CASE f.ok -> commit(s, f)
    [] routines = <<>> -> discard(s, f)
    [] OTHER -> First(s, Call(GoOn(f), Head(routines), <<>>), Tail(routines))

OneOf(s, routines) == First(s, Call(begin(s), Head(routines), <<>>), Tail(routines))

(* `while (TRY(...))`: a routine, without flags, as often as it succeeds. *)
RECURSIVE While(_, _)
While(f, routine) ==
  LET next == Call(f, routine, <<>>)
  IN CASE next.ok -> While(next, routine) [] f.ok -> GoOn(next) [] OTHER -> f

(* A new node at the end of the arena, with the children collected. *)
NewNode(f, type, name, value) ==
  IF f.ok THEN [f EXCEPT !.nodes = Append(@, Node(type, name, value, f.kids)),
                         !.node = Len(f.nodes) + 1]
  ELSE f
Parent(f, type) == NewNode(f, type, "", 0)

parse_atom(s, tokenType, nodeType) ==
  Routine(s, NewNode(THEN_TOKEN(begin(s), tokenType), nodeType, Peek(s).name, Peek(s).value))

-----------------------------------------------------------------------------
(* The flags of an expression or pattern: the routines they allow. *)
EXPR_ALL == <<"binary", "unary", "apply">>
EXPR_NO_BINARY == Tail(EXPR_ALL)
PAT_ALL == <<"papply">>

Expr(f) == Call(f, "expr", EXPR_ALL)
Pattern(f) == Call(f, "pattern", PAT_ALL)

AtLeast(f, n) == IF Len(f.kids) >= n THEN f ELSE Failed(f)

(* The lists in parentheses and brackets, from the first token after the
   opening one.  Only in parentheses do items need no comma between them,
   and is an item alone no list; only list patterns end without a comma. *)
Close == [TUPLE |-> "PCLOSE", PTUPLE |-> "PCLOSE", LIST |-> "SCLOSE", PLIST |-> "SCLOSE"]

parse_spread(s) ==
  Routine(s, Parent(Expr(THEN_TOKEN(begin(s), "ELLIPS")), "SPREAD"))

NamedTail(f) ==
  IF At(f, "IDENT") THEN NewNode(Skip(f), "PLTAIL", Peek(f).name, 0) ELSE Parent(f, "PLTAIL")

parse_pltail(s) == Routine(s, NamedTail(THEN_TOKEN(begin(s), "ELLIPS")))

(* No expression and no pattern begins with an ellipsis. *)
Item(f, type) ==
  CASE type \in {"TUPLE", "LIST"} /\ At(f, "ELLIPS") -> parse_spread(f)
    [] type \in {"TUPLE", "LIST"} -> Expr(f)
    [] type = "PLIST" /\ At(f, "ELLIPS") -> parse_pltail(f)
    [] OTHER -> Pattern(f)

Closed(f, type) ==
  IF type \in {"TUPLE", "PTUPLE"} /\ Len(f.kids) = 1
    THEN [f EXCEPT !.node = f.kids[1]] ELSE Parent(f, type)

RECURSIVE Items(_, _)
AfterComma(f, type) ==
  CASE f.kids = <<>> -> Failed(f)
    [] type # "PLIST" /\ At(f, Close[type]) -> Parent(Skip(f), type)
    [] type \in {"TUPLE", "PTUPLE"} -> Items(f, type)
    [] OTHER -> Items(Item(f, type), type)

Items(f, type) ==
  CASE ~f.ok -> f
    [] At(f, Close[type]) -> Closed(Skip(f), type)
    [] At(f, "COMMA") -> AfterComma(Skip(f), type)
    [] type \in {"LIST", "PLIST"} /\ f.kids # <<>> -> Failed(f)
    [] OTHER -> Items(Item(f, type), type)

parse_tuple_or_parens(s) == Routine(s, Items(THEN_TOKEN(begin(s), "POPEN"), "TUPLE"))
parse_list(s) == Routine(s, Items(THEN_TOKEN(begin(s), "SOPEN"), "LIST"))
parse_ptuple_or_parens(s) == Routine(s, Items(THEN_TOKEN(begin(s), "POPEN"), "PTUPLE"))
parse_plist(s) == Routine(s, Items(THEN_TOKEN(begin(s), "SOPEN"), "PLIST"))

-----------------------------------------------------------------------------
(* Statements and blocks. *)

LetStmt(s, arrow, type) ==
  LET lhs == Pattern(THEN_TOKEN(begin(s), "LET"))
      rhs == Expr(THEN_TOKEN(lhs, arrow))
  IN Routine(s, Parent(THEN_TOKEN(rhs, "SEMI"), type))

parse_assign(s) == LetStmt(s, "EQ", "ASSIGN")
parse_bind(s) == LetStmt(s, "LARROW", "BIND")
parse_void(s) == Routine(s, Parent(THEN_TOKEN(Expr(begin(s)), "SEMI"), "VOID"))

parse_block_body(s) ==
  Routine(s, Parent(GoOn(Expr(While(begin(s), "stmt"))), "BLOCK"))

parse_block(s) ==
  LET body == Call(THEN_TOKEN(begin(s), "COPEN"), "block_body", <<>>)
  IN Routine(s, THEN_TOKEN(body, "CCLOSE"))

-----------------------------------------------------------------------------
(* Expressions. *)

parse_if(s) ==
  LET cond == Expr(THEN_TOKEN(begin(s), "IF"))
      then == Expr(THEN_TOKEN(cond, "THEN"))
  IN Routine(s, Parent(Expr(THEN_TOKEN(then, "ELSE")), "IF"))

(* Cases and elses in any order and number. *)
RECURSIVE Cases(_)
Case(f) == Expr(THEN_TOKEN(Call(f, "pattern", <<>>), "THEN"))
Cases(f) ==
  CASE ~f.ok -> f
    [] At(f, "CASE") -> Cases(Case(Skip(f)))
    [] At(f, "ELSE") -> Cases(Expr(Skip(f)))
    [] OTHER -> f

parse_match(s) ==
  Routine(s, Parent(Cases(Expr(THEN_TOKEN(begin(s), "MATCH"))), "MATCH"))

parse_lambda(s) ==
  LET params == AtLeast(While(THEN_TOKEN(begin(s), "BSLASH"), "pattern"), 1)
  IN Routine(s, Parent(Expr(THEN_TOKEN(params, "RARROW")), "LAMBDA"))

Applied(f) == IF f.ok THEN Parent(AtLeast(While(f, "expr"), 2), "APPLY") ELSE f

parse_apply(s) == Routine(s, Applied(Call(begin(s), "expr", <<>>)))

parse_unary(s) ==
  LET operand == Call(THEN_TOKEN(begin(s), "OP"), "expr", EXPR_NO_BINARY)
  IN Routine(s, NewNode(operand, "UNARY", Peek(s).name, 0))

(***************************************************************************)
(* Precedence climbing: kids is <<lhs>>, or <<lhs, rhs>> after an operator *)
(* of precedence prec.  The callee's lhs is the node parsed last.          *)
(***************************************************************************)
RECURSIVE Rhs(_, _), Climb(_, _)

OnLeft(s) == [s EXCEPT !.kids = <<s.node>>]

parse_binary_(s, min_prec) ==
  IF s.ok THEN Routine(s, IF LexFails(s) THEN Failed(s) ELSE Climb(OnLeft(s), min_prec))
  ELSE s

(* Mutant: an operator of equal precedence always binds to the right. *)
binds_tighter_always(f, prec) == Prec(f) >= prec

binds_tighter(f, prec) == Prec(f) > prec \/ (Prec(f) = prec /\ Assoc(f) = "RIGHT")

(* The node made of rhs replaces it. *)
NewRhs(f) == IF f.ok THEN [f EXCEPT !.kids = <<f.kids[1], f.node>>] ELSE f

Rhs(f, prec) ==
  IF f.ok /\ token_is_binary_op(f) /\ binds_tighter(f, prec)
    THEN Rhs(NewRhs(parse_binary_(f, IF prec < Prec(f) THEN prec + 1 ELSE prec)), prec)
    ELSE f

Joined(f, op) == IF f.ok THEN OnLeft(NewNode(f, "BINARY", op.name, 0)) ELSE f

Climb(f, min_prec) ==
  IF f.ok /\ token_is_binary_op(f) /\ Prec(f) >= min_prec
    THEN Climb(Joined(Rhs(Call(Skip(f), "expr", EXPR_NO_BINARY), Prec(f)), Peek(f)),
               min_prec)
    ELSE f

parse_binary(s) == Routine(s, parse_binary_(Call(begin(s), "expr", EXPR_NO_BINARY), 0))

(* The other alternatives begin with different tokens. *)
parse_primary(f) ==
  CASE At(f, "POPEN") -> parse_tuple_or_parens(f)
    [] At(f, "SOPEN") -> parse_list(f)
    [] At(f, "COPEN") -> parse_block(f)
    [] At(f, "IF") -> parse_if(f)
    [] At(f, "MATCH") -> parse_match(f)
    [] At(f, "BSLASH") -> parse_lambda(f)
    [] Peek(f).type \in {"IDENT", "STRING", "INT", "DEC"} ->
         parse_atom(f, Peek(f).type, Peek(f).type)
    [] OTHER -> Failed(f)

-----------------------------------------------------------------------------
(* Patterns. *)

parse_palias(s) ==
  LET inner == Call(THEN_TOKEN(THEN_TOKEN(begin(s), "IDENT"), "AT"), "pattern", <<>>)
  IN Routine(s, NewNode(inner, "PALIAS", Peek(s).name, 0))

Named(s, f, flag) ==
  NewNode(AtLeast(While(THEN_TOKEN(f, "IDENT"), "pattern"), 1), "PAPPLY", Peek(f).name, flag)

parse_papply(s) ==
  Routine(s, IF At(s, "REC") THEN Named(s, Skip(begin(s)), 1) ELSE Named(s, begin(s), 0))

parse_pident(s) == parse_atom(s, "IDENT", "PIDENT")
parse_pwild(s) == parse_atom(s, "UNDER", "PWILD")
parse_pconst(s) == Routine(s, Parent(Expr(begin(s)), "PCONST"))

(* All calls that may recur, by name, for a routine or an alternative of one.
   Of an expression without flags there is one alternative. *)
Call(s, routine, flags) ==
  CASE ~s.ok -> s
    [] routine = "expr" /\ flags = <<>> -> parse_primary(s)
    [] routine = "expr" -> OneOf(s, flags \o <<"primary">>)
    [] routine = "pattern" ->
         OneOf(s, <<"palias">> \o flags \o <<"ptuple_or_parens", "plist", "pident", "pwild", "pconst">>)
    [] routine = "stmt" -> OneOf(s, <<"bind", "assign", "void">>)
    [] routine = "block_body" -> parse_block_body(s)
    [] routine = "bind" -> parse_bind(s)
    [] routine = "assign" -> parse_assign(s)
    [] routine = "void" -> parse_void(s)
    [] routine = "binary" -> parse_binary(s)
    [] routine = "unary" -> parse_unary(s)
    [] routine = "apply" -> parse_apply(s)
    [] routine = "primary" -> parse_primary(s)
    [] routine = "palias" -> parse_palias(s)
    [] routine = "papply" -> parse_papply(s)
    [] routine = "ptuple_or_parens" -> parse_ptuple_or_parens(s)
    [] routine = "plist" -> parse_plist(s)
    [] routine = "pident" -> parse_pident(s)
    [] routine = "pwild" -> parse_pwild(s)
    [] routine = "pconst" -> parse_pconst(s)
-----------------------------------------------------------------------------
(***************************************************************************)
(* parse_program always makes a block, and the first token that is no part *)
(* of it makes the difference.  A text that was accepted up to there, or   *)
(* as a whole, is then parsed alone with the parser reset, as it is or     *)
(* laid out in another way: it is to parse to the same tree.               *)
(***************************************************************************)
RECURSIVE Tree(_)
Tree(n) ==
  LET node == parser.nodes[n]
  IN Node(node.type, node.name, node.value, [i \in DOMAIN node.kids |-> Tree(node.kids[i])])

LaidOut(tokens, layout) == FlattenSeq(Map(LAMBDA t : layout \o Lexeme(text, t), tokens))

Accepted ==
  LET tokens == SubSeq(input, 1, parser.pos)
  IN {LaidOut(tokens, layout) : layout \in Layouts}
       \cup {SubSeq(text, 1, IF tokens = <<>> THEN 0 ELSE Last(tokens).str + Last(tokens).len - 1)}

Init ==
  /\ \E i \in Inputs : text = i.text /\ expected = i.tree
  /\ input = Tokens(text, 1)
  /\ parser = parser_init
  /\ result = "none"

parse_program ==
  /\ result = "none"
  /\ parser' = parse_block_body(parser)
  /\ result' = IF At(parser', "NONE") THEN "PARSE_OK" ELSE "PARSE_LEFTOVER_TOKENS"
  /\ UNCHANGED <<text, input, expected>>

parser_reset ==
  /\ result # "none" /\ expected = Nothing
  /\ text' \in Accepted
  /\ input' = Tokens(text', 1)
  /\ expected' = Tree(parser.node)
  /\ parser' = parser_init
  /\ result' = "none"

Next == parse_program \/ parser_reset
Spec == Init /\ [][Next]_vars

-----------------------------------------------------------------------------
(* Every node that was made and kept is part of the tree, and none is part *)
(* of it twice: giving up frees what the routine made and nothing else.    *)
RECURSIVE Nodes(_)
Nodes(n) == <<n>> \o FlattenSeq([i \in DOMAIN parser.nodes[n].kids |-> Nodes(parser.nodes[n].kids[i])])

ArenaIsTree ==
  result # "none" =>
    /\ Len(Nodes(parser.node)) = Len(parser.nodes)
    /\ Range(Nodes(parser.node)) = DOMAIN parser.nodes

(* What is written for a tree parses to that tree, and the part of a text  *)
(* that the parser accepts parses to the same tree by itself, with other   *)
(* blanks and comments between its tokens as well.                         *)
ParsesAsWritten ==
  result # "none" /\ expected # Nothing =>
    result = "PARSE_OK" /\ Tree(parser.node) = expected

(* A text is accepted only if all of it was read, up to its end or to a    *)
(* character that no token begins with: what is unfinished, be it a string *)
(* or a comment, is an error and does not cut the program off.             *)
NothingIgnored ==
  LET stop == CharAt(text, Peek(parser).str)
  IN result = "PARSE_OK" =>
       stop = NUL \/ (stop \notin isalnum \cup OP_CHARSET \cup {"\"", "_", BACKQUOTE}
                       /\ \A k \in KEYWORD_CHARS : stop # k[1])
=============================================================================
