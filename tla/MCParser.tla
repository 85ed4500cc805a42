------------------------------ MODULE MCParser -------------------------------
(* Texts for TLC: what is written for generated trees, and such texts with  *)
(* a token removed or spoiled.  The writer puts parentheses where the       *)
(* meaning of the operators and of the keywords asks for them, and nowhere  *)
(* else.                                                                    *)
EXTENDS Parser, Trees, TLC

(* The operators of test/test_parser.c, and two that are equal to one of them:
   operators of one precedence associate the same way, in every table of the
   repository.  "mod" has no entry. *)
MCOperators ==
  "=>" :> [prec |-> 100, assoc |-> "RIGHT"] @@ ">>" :> [prec |-> 200, assoc |-> "RIGHT"] @@
  "$" :> [prec |-> 200, assoc |-> "RIGHT"] @@ "+" :> [prec |-> 300, assoc |-> "LEFT"] @@
  "-" :> [prec |-> 300, assoc |-> "LEFT"] @@ "*" :> [prec |-> 400, assoc |-> "LEFT"]

PrecOf(op) == IF op \in DOMAIN Operators THEN Operators[op].prec ELSE PREC_DEFAULT
AssocOf(op) == IF op \in DOMAIN Operators THEN Operators[op].assoc ELSE "LEFT"

-----------------------------------------------------------------------------
(* The writer makes a sequence of lexemes, each a sequence of characters. *)
Words == {
  <<"l","e","t">>, <<"i","f">>, <<"t","h","e","n">>, <<"e","l","s","e">>, <<"m","a","t","c","h">>,
  <<"c","a","s","e">>, <<"r","e","c">>, <<".", ".", ".">>, <<"<", "-">>, <<"-", ">">>, <<"=", ">">>,
  <<">", ">">>, <<"=", "=">>, <<"m","o","d">>, <<"m","a","p">>, <<"x","s">>, <<"r","e","s","t">>,
  <<"j","o","i","n">>, <<"s","e","p">>, <<"i","d">>, <<"e","r","r","o","r">>, <<"b","a","d">>,
  <<"t","e","s","t","_","m","a","p">>, <<"f","o","o">>, <<"b","a","r">>, <<"p","r","i","n","t">>,
  <<"r","e","t","u","r","n">>, <<"e","a","c","h">>, <<"a","s","s","e","r","t","_","e","q">>,
  <<"f","a","i","l","e","d">>, <<"s","u","f","f","i","x">>, <<"m","a","p","p","e","d">>,
  <<"p","a","s","s","e","d">>, <<"t","i","m","e">>, <<"g","e","t","_","t","i","m","e">>,
  <<"y","e","a","r">>, <<"m","o","n","t","h">>, <<"d","a","y">>, <<"h","o","u","r">>,
  <<"m","i","n","u","t","e">>, <<"s","e","c","o","n","d">>, <<"c","o","n","s","t">>,
  <<"d","o","_","s","t","u","f","f">>, <<"i","t","e","r">>}
Spelling == {<<String(w), w>> : w \in Words}
Spelled(s) ==
  IF \E p \in Spelling : p[1] = s THEN (CHOOSE p \in Spelling : p[1] = s)[2] ELSE <<s>>

K(type) ==
  LET table == KEYWORDS \cup KEYWORD_GLYPHS \cup KEYWORD_CHARS
  IN <<Spelled((CHOOSE k \in table : k[2] = type)[1])>>

RECURSIVE Digits(_)
Digits(n) == IF n < 10 THEN <<DigitSeq[n + 1]>> ELSE Digits(n \div 10) \o <<DigitSeq[(n % 10) + 1]>>

Quoted(c) == CASE c = "\n" -> <<"\\", "n">> [] c \in {"\"", "\\"} -> <<"\\", c>> [] OTHER -> <<c>>

Quote(s) == <<"\"">> \o FlattenSeq(Map(Quoted, s)) \o <<"\"">>

Text(type, n) ==
  CASE type = "INT" -> <<Digits(n.value)>>
    [] type = "STRING" -> <<Quote(IF n.name = "" THEN <<>> ELSE Spelled(n.name))>>
    [] type = "INFIX" -> <<<<BACKQUOTE>> \o Spelled(n.name)>>
    [] OTHER -> <<Spelled(n.name)>>

(* Lexemes need a blank between them only where they would be read as one. *)
Sticks(a, b) ==
  LET l == Last(a)
      f == Head(b)
      word == isalnum \cup {"_"}
  IN \/ l \in word /\ f \in word
     \/ l \in OP_CHARSET /\ f \in OP_CHARSET
     \/ l \in isdigit /\ f = "."
     \/ l = "{" /\ f = "-"

SetDown(lexemes) ==
  FlattenSeq([i \in DOMAIN lexemes |->
    IF i > 1 /\ Sticks(lexemes[i - 1], lexemes[i]) THEN <<" ">> \o lexemes[i] ELSE lexemes[i]])

(* An operand that is an operation itself needs no parentheses if its
   operator binds tighter, or as tight and the later of the two associates
   towards it. *)
LeftFits(op, e) ==
  PrecOf(e.name) > PrecOf(op) \/ (PrecOf(e.name) = PrecOf(op) /\ AssocOf(op) = "LEFT")
RightFits(op, e) ==
  PrecOf(e.name) > PrecOf(op) \/ (PrecOf(e.name) = PrecOf(op) /\ AssocOf(e.name) = "RIGHT")

(* A case or an else after it would be taken for its own. *)
RECURSIVE EndsInMatch(_)
EndsInMatch(e) ==
  e.type = "MATCH" \/ (e.type \in {"IF", "LAMBDA"} /\ EndsInMatch(Last(e.kids)))

Atomic == {"IDENT", "INT", "STRING", "TUPLE", "LIST", "BLOCK"}

RECURSIVE Written(_), Commas(_)
InParens(e) == K("POPEN") \o Written(e) \o K("PCLOSE")
ParensIf(condition, e) == IF condition THEN InParens(e) ELSE Written(e)
Atom(e) == ParensIf(e.type \notin Atomic, e)
Before(e) == ParensIf(EndsInMatch(e), e)
Operand(e, fits) ==
  ParensIf(e.type \notin Atomic \cup {"APPLY", "UNARY"} /\ ~(e.type = "BINARY" /\ fits), e)
Param(p) == ParensIf(p.type \in {"PAPPLY", "PCONST"}, p)

Commas(es) ==
  CASE es = <<>> -> <<>>
    [] Len(es) = 1 -> Written(es[1])
    [] OTHER -> Written(es[1]) \o K("COMMA") \o Commas(Tail(es))
TupleItems(es) == IF Len(es) = 1 THEN Written(es[1]) \o K("COMMA") ELSE Commas(es)

Each(write(_), es) == FlattenSeq([i \in DOMAIN es |-> write(es[i])])
All(es) == Each(Written, es)

CasesWritten(es) ==
  FlattenSeq([i \in 1..(Len(es) + 1) \div 2 |->
    IF 2 * i > Len(es) THEN K("ELSE") \o Written(Last(es))
    ELSE K("CASE") \o Written(es[2 * i - 1]) \o K("THEN") \o Before(es[2 * i])])

LetText(n, arrow) == K("LET") \o Written(n.kids[1]) \o K(arrow) \o Written(n.kids[2]) \o K("SEMI")

Written(n) ==
  CASE n.type \in {"IDENT", "INT", "STRING"} -> Text(n.type, n)
    [] n.type = "TUPLE" -> K("POPEN") \o TupleItems(n.kids) \o K("PCLOSE")
    [] n.type = "LIST" -> K("SOPEN") \o Commas(n.kids) \o K("SCLOSE")
    [] n.type = "SPREAD" -> K("ELLIPS") \o Written(n.kids[1])
    [] n.type = "APPLY" -> Each(Atom, n.kids)
    [] n.type = "UNARY" -> Text("OP", n) \o Operand(n.kids[1], FALSE)
    [] n.type = "BINARY" ->
         Operand(n.kids[1], LeftFits(n.name, n.kids[1]))
           \o Text(IF n.name = "mod" THEN "INFIX" ELSE "OP", n)
           \o Operand(n.kids[2], RightFits(n.name, n.kids[2]))
    [] n.type = "IF" -> K("IF") \o Written(n.kids[1]) \o K("THEN") \o Before(n.kids[2])
                          \o K("ELSE") \o Written(n.kids[3])
    [] n.type = "MATCH" -> K("MATCH") \o Before(n.kids[1]) \o CasesWritten(Tail(n.kids))
    [] n.type = "LAMBDA" -> K("BSLASH") \o Each(Param, Front(n.kids)) \o K("RARROW")
                              \o Written(Last(n.kids))
    [] n.type = "BLOCK" -> K("COPEN") \o All(n.kids) \o K("CCLOSE")
    [] n.type = "ASSIGN" -> LetText(n, "EQ")
    [] n.type = "BIND" -> LetText(n, "LARROW")
    [] n.type = "VOID" -> Written(n.kids[1]) \o K("SEMI")
    [] n.type = "PIDENT" -> Text("IDENT", n)
    [] n.type = "PWILD" -> K("UNDER")
    [] n.type = "PCONST" -> Written(n.kids[1])
    [] n.type = "PTUPLE" -> K("POPEN") \o TupleItems(n.kids) \o K("PCLOSE")
    [] n.type = "PLIST" -> K("SOPEN") \o Commas(n.kids) \o K("SCLOSE")
    [] n.type = "PLTAIL" -> K("ELLIPS") \o (IF n.name = "" THEN <<>> ELSE Text("IDENT", n))
    [] n.type = "PALIAS" -> Text("IDENT", n) \o K("AT") \o Param(n.kids[1])
    [] n.type = "PAPPLY" -> (IF n.value = 1 THEN K("REC") ELSE <<>>) \o Text("IDENT", n)
                              \o Each(Param, n.kids)

-----------------------------------------------------------------------------
(* Three operators over four operands, grouped in every way. *)
Operations ==
  LET op(o, a, b) == Op2(o, a, b)
      groups(o, p, q) ==
        {op(o, I(1), op(p, I(2), op(q, I(3), I(4)))), op(o, I(1), op(q, op(p, I(2), I(3)), I(4))),
         op(p, op(o, I(1), I(2)), op(q, I(3), I(4))), op(q, op(o, I(1), op(p, I(2), I(3))), I(4)),
         op(q, op(p, op(o, I(1), I(2)), I(3)), I(4))}
      ends == {">>", "+", "*"}
  IN UNION {groups(o, p, q) :
              o \in ends, p \in ends \cup {"=>", "$", "-", "mod"}, q \in ends \cup {"=>"}}

(* Every kind of expression around every other.  A constant pattern does not
   begin like another pattern, which it would be taken for. *)
Exprs(a, b) ==
  {T(<<>>), T(<<a>>), T(<<a, b>>), T(<<Spread(a), b>>), L(<<>>), L(<<a, Spread(b)>>),
   App(<<a, b>>), App(<<F, a, b>>), Op1("-", a), Op2("+", a, b), If(a, b, X),
   If(X, a, b), Matching(<<a, P("x"), b>>), Matching(<<X, P("x"), a, Wild, X, b>>),
   Lam(<<P("x"), a>>), Lam(<<P("x"), PC(Op1("-", a)), b>>), Block(<<>>), Block(<<a>>), Block(<<Void(a)>>),
   Block(<<Void(a), b>>), Block(<<LetIn(P("x"), a), b>>), Block(<<LetBe(P("x"), a), Void(b)>>)}

(* Every kind of pattern around every other, in every place. *)
Patterns(p, q) ==
  {p, Wild, PC(I(1)), PT(<<>>), PT(<<p>>), PT(<<p, q>>), PL(<<>>), PL(<<p, q>>),
   PL(<<p, Rest("z")>>), PL(<<Rest("")>>), PF("g", <<p, q>>), PRec("g", <<p>>)}
Places(p) ==
  {Block(<<LetIn(p, X)>>), Lam(<<p, P("y"), X>>), Block(<<LetBe(PT(<<p, Wild>>), X), Y>>)}
    \cup (IF p.type = "PAPPLY" THEN {} ELSE {Matching(<<X, p, Y, Alias("w", p), X>>)})

Simple == Exprs(V("x"), I(1))
Inner == Patterns(P("x"), P("y")) \cup {Alias("w", P("x"))}

Around ==
  UNION {Exprs(e, Y) \cup Exprs(Y, e) : e \in Simple}
    \cup UNION {UNION {Places(q) : q \in Patterns(p, P("y")) \cup Patterns(P("y"), p)} : p \in Inner}

TestTrees == Range(Tests) \cup Range(PatternExample) \cup Range(EffectTests)

-----------------------------------------------------------------------------
Program(n) == IF n.type = "BLOCK" THEN n ELSE Block(<<n>>)
Lexemes(n) == All(Program(n).kids)

Whole(trees) == {[text |-> SetDown(Lexemes(n)), tree |-> Program(n)] : n \in trees}

(* The lexemes without one of them, or with another in its place. *)
Spoiled(lexemes, other) ==
  {[text |-> SetDown(SubSeq(lexemes, 1, i - 1) \o other \o SubSeq(lexemes, i + 1, Len(lexemes))),
    tree |-> Nothing] : i \in DOMAIN lexemes}

Unfinished == <<"1", ".">>

Damaged(trees) ==
  UNION {Spoiled(Lexemes(n), <<>>) \cup Spoiled(Lexemes(n), <<Unfinished>>) : n \in trees}

(* All short texts of the characters that mean different things in different
   places, and of one that means nothing. *)
Odd == {"\"", "\\", "-", "{", "}", "x", "1", ".", BACKQUOTE, "'"}
Scribbles ==
  {[text |-> t, tree |-> Nothing] :
     t \in {t \in UNION {[1..n -> Odd] : n \in 1..4} :
              Len(t) < 2 \/ ~LooksAt(t, Len(t) - 1, "{", "-")}}

(* All short strings that do not end in a backslash, before another one. *)
Quotations ==
  {[text |-> SetDown(<<<<"f">>, Quote(s), Quote(<<>>)>>),
    tree |-> Program(App(<<F, S(String(s)), S("")>>))] :
     s \in {s \in UNION {[1..n -> {"\"", "\\", "\n", "n", "-"}] : n \in 1..4} :
              Last(s) # "\\"}}

(* A blank, a comment of each kind with what is no comment in it. *)
MCLayouts == {<<"\n">>, <<"{", "-", "\"", "-", "-", "}">>,
              <<" ", "-", "-", "{", "-", "\"", "\n">>}

MCInputs ==
  Whole(Operations \cup Around \cup TestTrees) \cup Damaged(Simple \cup TestTrees)
    \cup Scribbles \cup Quotations
=============================================================================
