------------------------------- MODULE Trees ---------------------------------
(* Syntax trees: short names for nodes, and the programs of the             *)
(* repository's tests and examples.                                        *)
EXTENDS Ast, Sequences

E(type, kids) == Node(type, "", 0, kids)
I(n) == Node("INT", "", n, <<>>)
S(s) == Node("STRING", s, 0, <<>>)
V(x) == Node("IDENT", x, 0, <<>>)
T(kids) == E("TUPLE", kids)
L(kids) == E("LIST", kids)
Spread(e) == E("SPREAD", <<e>>)
App(kids) == E("APPLY", kids)
Op2(op, a, b) == Node("BINARY", op, 0, <<a, b>>)
Op1(op, a) == Node("UNARY", op, 0, <<a>>)
If(c, t, e) == E("IF", <<c, t, e>>)
Matching(kids) == E("MATCH", kids)
Lam(kids) == E("LAMBDA", kids)
Block(kids) == E("BLOCK", kids)
LetIn(p, e) == E("ASSIGN", <<p, e>>)
LetBe(p, e) == E("BIND", <<p, e>>)
Void(e) == E("VOID", <<e>>)

P(x) == Node("PIDENT", x, 0, <<>>)
Wild == E("PWILD", <<>>)
PC(e) == E("PCONST", <<e>>)
PT(ps) == E("PTUPLE", ps)
PL(ps) == E("PLIST", ps)
Rest(x) == Node("PLTAIL", x, 0, <<>>)
PF(f, ps) == Node("PAPPLY", f, 0, ps)
Alias(x, p) == Node("PALIAS", x, 0, <<p>>)
PRec(f, ps) == Node("PAPPLY", f, 1, ps)

-----------------------------------------------------------------------------
(* test/test_compiler.c, examples/pattern.ham and examples/html.ham *)

X == V("x")
Y == V("y")
F == V("f")
XS == V("xs")
Pair == T(<<X, Y>>)

MapRec ==
  LetIn(PRec("map", <<P("f"), P("xs")>>),
        Matching(<<XS, PL(<<>>), L(<<>>),
                   PL(<<P("x"), Rest("rest")>>),
                   L(<<App(<<F, X>>), Spread(App(<<V("map"), F, V("rest")>>))>>)>>))

JoinRec ==
  LetIn(PRec("join", <<P("sep"), P("xs")>>),
        Matching(<<XS, PL(<<>>), I(0), PL(<<P("x")>>), X,
                   PL(<<P("x"), Rest("rest")>>),
                   Op2("+", X, Op2("+", V("sep"),
                                   App(<<V("join"), V("sep"), V("rest")>>)))>>))

Tests == <<
  Block(<<>>), I(42), S("foo"), T(<<I(1), I(2), I(3)>>), L(<<I(1), I(2), I(3)>>),
  L(<<I(1), I(2), Spread(L(<<I(3), I(4)>>)), I(5)>>),
  App(<<V("id"), I(1)>>),
  If(I(1), I(2), I(3)),
  If(Op2("==", I(1), I(1)), If(Op2("==", I(1), I(2)), I(3), I(4)),
     If(I(5), I(6), I(7))),
  Op1("!", I(1)), Op1("-", I(1)), App(<<Op1("-", App(<<V("id"), I(1)>>)), I(2)>>),
  Op2("*", I(3), I(2)), App(<<V("error"), S("bad")>>), Op2("+", I(1), S("a")),
  Block(<<LetIn(P("x"), I(1)), LetIn(P("y"), I(2)), Pair>>),
  Block(<<LetIn(P("x"), I(1)),
          LetIn(P("y"), Block(<<LetIn(P("x"), I(2)), X>>)), Pair>>),
  Block(<<LetIn(P("x"), I(1)),
          LetIn(P("y"), Block(<<LetIn(P("z"), I(2)), T(<<X, V("z")>>)>>)), Y>>),
  Block(<<LetIn(PT(<<P("x"), P("y")>>), T(<<I(1), I(2)>>)), Pair>>),
  Block(<<LetIn(PL(<<P("x"), P("y")>>), L(<<I(1), I(2)>>)), Pair>>),
  Block(<<LetIn(PL(<<P("x"), Rest("")>>), L(<<I(1), I(2), I(3)>>)), X>>),
  Block(<<LetIn(PL(<<P("x"), Rest("xs")>>), L(<<I(1), I(2), I(3)>>)), T(<<X, XS>>)>>),
  Block(<<LetIn(PF("f", <<P("x"), P("y")>>), Pair), App(<<F, I(1), I(2)>>)>>),
  Block(<<LetIn(PF("f", <<P("x"), P("y")>>), Pair), LetIn(P("g"), App(<<F, I(1)>>)),
          T(<<App(<<V("g"), I(2)>>), App(<<V("g"), I(3)>>)>>)>>),
  Block(<<LetIn(PF("f", <<P("x")>>),
                Block(<<LetIn(PF("g", <<P("x"), P("y")>>), Pair),
                        App(<<V("g"), X, X>>)>>)),
          App(<<F, I(1)>>)>>),
  Block(<<LetIn(PF("f", <<PT(<<P("x"), P("y")>>)>>), T(<<Y, X>>)),
          App(<<F, T(<<I(1), I(2)>>)>>)>>),
  Block(<<LetIn(P("f"), Lam(<<PT(<<P("x"), P("y")>>), T(<<Y, X>>)>>)),
          App(<<F, T(<<I(1), I(2)>>)>>)>>),
  Block(<<LetIn(PT(<<P("x"), Wild>>), T(<<I(1), I(2)>>)), LetIn(Wild, I(3)), X>>),
  Block(<<MapRec, App(<<V("map"), Lam(<<P("x"), Op2("+", X, I(1))>>),
                        L(<<I(1), I(2), I(3)>>)>>)>>),
  Block(<<MapRec, LetIn(P("test_map"), App(<<V("map"), Lam(<<P("x"), Op2("+", X, I(1))>>)>>)),
          T(<<App(<<V("test_map"), L(<<>>)>>), App(<<V("test_map"), L(<<I(1)>>)>>)>>)>>),
  Block(<<JoinRec, App(<<V("join"), I(0), L(<<I(1), I(2), I(3)>>)>>)>>)>>

(* The match of examples/pattern.ham, and one nested in a list. *)
PatternExample == <<
  Block(<<LetIn(P("g"), Matching(<<T(<<S("foo"), I(7), I(8)>>),
                                   PT(<<PC(S("bar")), Wild, P("y")>>), Y,
                                   PT(<<PC(S("foo")), P("x"), Wild>>), X>>)), V("g")>>),
  Matching(<<L(<<I(1), I(2)>>), PL(<<PC(I(2))>>), I(0), PL(<<PC(I(1)), P("x")>>), X>>)>>

-----------------------------------------------------------------------------
(* Effects. *)

Printing(e) == App(<<V("print"), e>>)
Ret(e) == App(<<V("return"), e>>)
EachOf(e) == App(<<V("each"), e>>)
Unit == T(<<>>)

AssertEq ==
  LetIn(PF("assert_eq", <<P("a"), P("b")>>),
        If(Op2("==", V("a"), V("b")), Ret(Unit), App(<<V("error"), S("failed")>>)))
Asserted(a, b) == Void(App(<<V("assert_eq"), a, b>>))

(* examples/monad.ham and error.ham, an assertion that fails, and values that
   are not effects. *)
EffectTests == <<
  Block(<<AssertEq,
          LetIn(PF("suffix", <<P("x")>>), Op2("*", X, I(10))),
          LetIn(P("mapped"), Block(<<LetBe(P("x"), L(<<I(1), I(2), I(3)>>)),
                                     L(<<X, App(<<V("suffix"), X>>)>>)>>)),
          Asserted(V("mapped"), L(<<I(1), I(10), I(2), I(20), I(3), I(30)>>)),
          Printing(S("passed"))>>),
  Block(<<AssertEq, LetBe(P("time"), V("get_time")),
          LetIn(PT(<<P("year"), P("month"), P("day"), P("hour"), P("minute"),
                       P("second")>>), V("time")),
          Asserted(App(<<V("const"), V("year"), I(123)>>), V("year")),
          Printing(V("day"))>>),
  Block(<<LetIn(P("do_stuff"), Block(<<
            Void(Printing(Block(<<Void(Printing(S("foo"))), Printing(S("bar"))>>))),
            LetIn(P("iter"), EachOf(L(<<I(7), I(8), I(9)>>))),
            LetBe(P("x"), V("iter")), LetBe(P("y"), V("iter")), Printing(Pair)>>)),
          Void(Printing(V("do_stuff"))), Void(V("do_stuff")), V("do_stuff")>>),
  Block(<<AssertEq, Asserted(L(<<I(1)>>), L(<<I(1)>>)), Asserted(S("foo"), S("foo")),
          Printing(S("passed"))>>),
  Block(<<AssertEq, Asserted(I(1), I(1)), Asserted(I(1), I(2)), Printing(S("passed"))>>),
  V("id"), V("print"), V("get_time"), Block(<<Void(V("print")), Unit>>),
  Block(<<Void(I(1)), Unit>>), EachOf(I(1))>>

(* An error in a block that is itself an effect of a block. *)
NestedExample == <<
  Block(<<AssertEq,
          Void(Block(<<Asserted(I(1), I(1)), Asserted(I(1), I(2)), Printing(I(3))>>)),
          Printing(S("passed"))>>)>>
=============================================================================
