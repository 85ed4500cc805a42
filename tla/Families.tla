------------------------------ MODULE Families ------------------------------
(* Programs generated over small sets of values, patterns and names.       *)
EXTENDS Trees, SequencesExt

(* Operands of more than one byte, a jump over more than 255 bytes. *)
Wide ==
  LET items == L([i \in 1..30 |-> I(i)])
  IN <<Matching(<<I(70000), PC(I(-1)), Unit,
                  If(Op2("==", V("id"), S("id")), items, T(<<I(-70000), S("")>>))>>)>>

Examples == Tests \o EffectTests \o Wide

(* All pairs, by an operator. *)
Map2(f(_, _), s, t) == FlattenSeq(Map(LAMBDA a : Map(LAMBDA b : f(a, b), t), s))

RECURSIVE Names(_)
Names(p) ==
  IF p.type = "PIDENT" \/ (p.type = "PLTAIL" /\ p.name # "") THEN <<V(p.name)>>
  ELSE FlattenSeq(Map(Names, p.kids))

(* A match of two cases, in a function that has operands of its caller below
   and captures z; each case yields the names it binds. *)
CaseBody(i, p) == T(<<I(i), V("z")>> \o Names(p))
MatchOf(v, p, q) ==
  Block(<<LetIn(PF("f", <<P("v")>>),
                Matching(<<V("v"), p, CaseBody(1, p), q, CaseBody(2, q)>>)),
          T(<<App(<<F, v>>), I(7)>>)>>)
MatchElse(v, p, q) ==
  Matching(<<v, p, T(Names(p)), q, If(Op2("==", I(1), I(2)), I(1), T(Names(q))),
             Block(<<LetIn(P("x"), I(3)), X>>)>>)

Scrutinees == <<I(1), T(<<I(1), I(2)>>), L(<<>>), L(<<I(1)>>), L(<<I(1), I(2)>>),
                L(<<I(1), I(2), I(3)>>)>>

(* Refutable at the top only: what lies inside always matches. *)
FlatPatterns == <<P("x"), Wild, PC(I(1)), PC(L(<<>>)), PT(<<>>), PT(<<P("x"), P("y")>>),
                  PT(<<Wild, P("x")>>), PL(<<>>), PL(<<P("x")>>), PL(<<P("x"), P("y")>>),
                  PL(<<P("x"), Rest("y")>>), PL(<<Wild, Rest("")>>), PL(<<Rest("x")>>)>>

MatchFamily(build(_, _, _), patterns) ==
  FlattenSeq(Map(LAMBDA v : Map2(LAMBDA p, q : build(v, p, q), patterns, patterns),
                 Scrutinees))

FlatMatches ==
  LET under(v, p, q) == Block(<<LetIn(P("z"), I(9)), MatchOf(v, p, q)>>)
  IN MatchFamily(under, FlatPatterns) \o MatchFamily(MatchElse, FlatPatterns)

(* Every way to bind p to e around a body b: an assignment, an argument, a
   case, a component, a capture of a closure that outlives the block, and a
   recursive function, with the names x and y shadowing each other. *)
Binders(b) ==
  FlattenSeq(Map2(LAMBDA p, e :
    LET other == IF p = "x" THEN "y" ELSE "x"
    IN <<Block(<<LetIn(P(p), e), b>>),
         App(<<Lam(<<P(p), b>>), e>>),
         Block(<<LetIn(PF("f", <<P(p), Wild>>), b), App(<<App(<<F, e>>), I(7)>>)>>),
         Matching(<<e, P(p), b>>),
         Block(<<LetIn(PT(<<Wild, P(p)>>), T(<<I(7), e>>)), b>>),
         App(<<Block(<<LetIn(P(p), e), Lam(<<P(other), b>>)>>), I(5)>>),
         If(Op2("==", e, I(1)), b, L(<<e, Spread(L(<<b>>))>>)),
         Block(<<LetIn(PRec("f", <<P(p), P("n")>>),
                       If(Op2("==", V("n"), I(1)), b,
                          App(<<F, V(p), Op2("-", V("n"), I(1))>>))),
                 App(<<F, e, I(2)>>)>>)>>,
    <<"x", "y">>, <<X, Y>>))

(* One binder inside another. *)
Scopes ==
  LET nested(b) == FlattenSeq(Map(Binders, Binders(b)))
      scope(b) == Block(<<LetIn(P("x"), I(1)), LetIn(P("y"), I(2)), b>>)
  IN Map(scope, FlattenSeq(Map(nested, <<X, Y, Pair>>)))

-----------------------------------------------------------------------------
(* Effects. *)

(* Two statements, over all effects, in a function called with operands below,
   and all ends. *)
SomeEffects == <<
  Printing(Pair), Ret(X), V("get_time"), EachOf(L(<<I(3), I(4)>>)), L(<<I(5)>>),
  L(<<I(6), I(7)>>), Block(<<Void(Printing(X)), Ret(Y)>>),
  Block(<<LetBe(P("x"), EachOf(L(<<X, Y>>))), Printing(X)>>)>>

EffectPrograms ==
  LET statements(x) == Map(Void, SomeEffects) \o Map(LAMBDA e : LetBe(P(x), e), SomeEffects)
      ends == <<Printing(Pair), Ret(X), L(<<Pair>>), Unit>>
      twice(s, t, e) == App(<<Lam(<<P("x"), Block(<<LetIn(P("y"), I(2)), s, t, e>>)>>), I(1)>>)
      ending(e) == Map2(LAMBDA s, t : twice(s, t, e), statements("x"), statements("y"))
  IN FlattenSeq(Map(ending, ends))
=============================================================================
