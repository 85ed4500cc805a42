----------------------------- MODULE Reference ------------------------------
(***************************************************************************)
(* What a program means, with no bytecode, stack, frame or capture: an     *)
(* expression has a value in an environment of names, and executing an     *)
(* effect prints some values and has a value.  The compiled program is     *)
(* checked against it.                                                     *)
(***************************************************************************)
EXTENDS Effects, Ast

CONSTANT Programs  \* the syntax trees of the programs compiled

(* A failed match has no value, and neither has what depends on it. *)
Halt_ == Value("halt", 0, "", <<>>)
Panic_ == Value("panic", 0, "", <<>>)
Crash == Value("crashed", 0, "", <<>>)
Failed(v) == v.kind \in {"halt", "panic", "error", "crashed"}

(* A function of params and body in env; s is its name if it is recursive. *)
Function(params, body, env, s) ==
  [kind |-> "function", n |-> 0, s |-> s, args |-> <<>>,
   params |-> params, body |-> body, env |-> env]

RECURSIVE Eval(_, _), MatchAll(_, _, _), Items(_, _), Statements(_, _), Bind(_, _)

(* v unless one of vs, evaluated last to first, failed. *)
Strict(vs, v) ==
  IF \E i \in DOMAIN vs : Failed(vs[i])
    THEN Last(SelectSeq(vs, Failed))
    ELSE v

Wildcard == Node("PWILD", "", 0, <<>>)

NoMatch == [ok |-> FALSE, env |-> <<>>]

Match(p, v, env) ==
  CASE p.type = "PIDENT" -> [ok |-> TRUE, env |-> (p.name :> v) @@ env]
    [] p.type = "PWILD" -> [ok |-> TRUE, env |-> env]
    [] p.type = "PCONST" -> [ok |-> hvalue_eq(Eval(p.kids[1], env), v), env |-> env]
    [] p.type = "PTUPLE" ->
         IF v.kind = "tuple" /\ Len(v.args) = Len(p.kids)
           THEN MatchAll(p.kids, v.args, env) ELSE NoMatch
    [] p.type = "PLIST" ->
         IF p.kids = <<>> THEN [ok |-> v = HNil, env |-> env]
         ELSE IF p.kids[1].type = "PLTAIL"
           THEN [ok |-> TRUE, env |-> IF p.kids[1].name = "" THEN env
                                      ELSE (p.kids[1].name :> v) @@ env]
         ELSE IF v.kind = "cons"
           THEN MatchAll(<<p.kids[1], [p EXCEPT !.kids = Tail(@)]>>, v.args, env)
         ELSE NoMatch

MatchAll(ps, vs, env) ==
  IF ps = <<>> THEN [ok |-> TRUE, env |-> env]
  ELSE LET first == Match(ps[1], vs[1], env)
       IN IF first.ok THEN MatchAll(Tail(ps), Tail(vs), first.env) ELSE NoMatch

Apply(f, as) ==
  LET args == f.args \o as
      arity == IF f.kind = "native" THEN f.n ELSE Len(f.params)
      self == IF f.s = "" THEN f.env
              ELSE (f.s :> [f EXCEPT !.args = <<>>]) @@ f.env
      matched == MatchAll(f.params, args, self)
  IN IF f.kind \notin {"native", "function"} \/ Len(args) > arity THEN Panic_
     ELSE IF Len(args) < arity THEN [f EXCEPT !.args = args]
     ELSE IF f.kind = "native" THEN NativeOutcome(f.s, args)
     ELSE IF matched.ok THEN Eval(f.body, matched.env) ELSE Halt_

EvalAll(ns, env) == [i \in DOMAIN ns |-> Eval(ns[i], env)]

Call_(vs) == Strict(vs, Apply(Last(vs), Front(vs)))

Lookup(name, env) == IF name \in DOMAIN env THEN env[name] ELSE Panic_

(* The value of the first case that matches, or of the else. *)
RECURSIVE Cases(_, _, _)
Cases(v, kids, env) ==
  IF kids = <<>> THEN Halt_
  ELSE IF Len(kids) = 1 THEN Eval(kids[1], env)
  ELSE LET m == Match(kids[1], v, env)
       IN IF m.ok THEN Eval(kids[2], m.env) ELSE Cases(v, SubSeq(kids, 3, Len(kids)), env)

Items(ns, env) ==
  IF ns = <<>> THEN HNil
  ELSE LET spread == ns[1].type = "SPREAD"
           v == Eval(IF spread THEN ns[1].kids[1] ELSE ns[1], env)
           rest == Items(Tail(ns), env)
       IN Strict(<<rest, v>>, IF spread THEN hvalue_list_concat(v, rest)
                              ELSE HCons(v, rest))

(* let _ = e does not evaluate e. *)
Let(n, rest, env) ==
  LET lhs == n.kids[1]
      v == IF lhs.type = "PAPPLY"
             THEN Function(lhs.kids, n.kids[2], env, IF lhs.value = 1 THEN lhs.name ELSE "")
             ELSE Eval(n.kids[2], env)
      m == IF lhs.type = "PAPPLY" THEN [ok |-> TRUE, env |-> (lhs.name :> v) @@ env]
           ELSE Match(lhs, v, env)
  IN IF lhs.type = "PWILD" THEN Statements(rest, env)
     ELSE IF Failed(v) THEN v
     ELSE IF m.ok THEN Statements(rest, m.env) ELSE Halt_

Joined(first, rest) ==
  IF rest = HNil THEN first
  ELSE IF first.kind \in {"nil", "cons"} THEN hvalue_list_concat(first, rest)
  ELSE Panic_

BothJoined(first, rest) == Strict(<<rest, first>>, Joined(first, rest))

(* The lists that then makes of the items, in one, or an effect to execute. *)
Bind(v, then) ==
  CASE v = HNil -> HNil
    [] v.kind = "cons" -> BothJoined(Apply(then, <<v.args[1]>>), Bind(v.args[2], then))
    [] v.kind = "binding" \/ (v.kind = "native" /\ v.s \in EffectNames) -> Binding(v, then)
    [] OTHER -> IF Failed(v) THEN v ELSE Panic_

Statements(ns, env) ==
  IF ns = <<>> THEN HTuple(<<>>)
  ELSE IF ns[1].type = "ASSIGN" THEN Let(ns[1], Tail(ns), env)
  ELSE IF ns[1].type \in {"BIND", "VOID"}
    THEN Bind(Eval(Last(ns[1].kids), env),
              Function(<<IF ns[1].type = "BIND" THEN ns[1].kids[1] ELSE Wildcard>>,
                       Node("BLOCK", "", 0, Tail(ns)), env, ""))
  ELSE Eval(ns[1], env)

Eval(n, env) ==
  CASE n.type = "INT" -> HInt(n.value)
    [] n.type = "STRING" -> HStr(n.name)
    [] n.type = "IDENT" -> Lookup(n.name, env)
    [] n.type = "TUPLE" -> LET vs == EvalAll(n.kids, env) IN Strict(vs, HTuple(vs))
    [] n.type = "LIST" -> Items(n.kids, env)
    [] n.type = "UNARY" ->
         IF n.name = "-" /\ n.kids[1].type = "INT" THEN HInt(-n.kids[1].value)
         ELSE Call_(EvalAll(n.kids, env) \o <<Lookup(n.name, env)>>)
    [] n.type = "BINARY" -> Call_(EvalAll(n.kids, env) \o <<Lookup(n.name, env)>>)
    [] n.type = "APPLY" -> Call_(EvalAll(Tail(n.kids), env) \o <<Eval(n.kids[1], env)>>)
    [] n.type = "IF" ->
         LET cond == Eval(n.kids[1], env)
         IN Strict(<<cond>>, IF cond.kind = "true" THEN Eval(n.kids[2], env)
                             ELSE IF cond.kind = "false" THEN Eval(n.kids[3], env)
                             ELSE Panic_)
    [] n.type = "MATCH" ->
         LET v == Eval(n.kids[1], env) IN Strict(<<v>>, Cases(v, Tail(n.kids), env))
    [] n.type = "LAMBDA" -> Function(Front(n.kids), Last(n.kids), env, "")
    [] n.type = "BLOCK" -> Statements(n.kids, env)

-----------------------------------------------------------------------------
(* Executing effects: what is printed, and a value. *)

(* A value as far as it can be told apart: functions are opaque. *)
RECURSIVE Shown(_)
Shown(v) ==
  IF v.kind \in {"closure", "function"} THEN Value("function", 0, "", <<>>)
  ELSE [v EXCEPT !.args = [i \in DOMAIN @ |-> Shown(@[i])]]

Run(out, v) == [out |-> out, v |-> v]
Silently(v) == Run(<<>>, v)

(* What is left of a failed run is not executed. *)
AndThen(first, rest) ==
  IF Failed(first.v) THEN first ELSE Run(first.out \o rest.out, rest.v)

Resume(then, v) == IF then = Null \/ Failed(v) THEN v ELSE Apply(then, <<v>>)

(* The result of an effect, by itself.  A return with nowhere to return to
   crashes, and what get_time finds then is not looked at. *)
Result(e, last) ==
  CASE ~IsEffect(e) -> e
    [] e.s = "print_effect" -> HUnit
    [] e.s = "return_effect" -> IF last THEN Crash ELSE e.args[1]
    [] e.s = "get_time" -> IF last THEN HUnit ELSE Time
    [] OTHER -> Panic_

Printed(e) == IF e.s = "print_effect" THEN <<Shown(e.args[1])>> ELSE <<>>

RECURSIVE Execute(_, _), Each(_, _)

(* e, and then what then makes of its result. *)
Chained(first, then) == AndThen(first, Execute(first.v, then))

Execute(e, then) ==
  CASE e.kind = "binding" -> Chained(Execute(e.args[1], e.args[2]), then)
    [] e.s = "each_effect" -> IF then = Null THEN Silently(HUnit) ELSE Each(e.args[1], then)
    [] OTHER -> Run(Printed(e), Resume(then, Result(e, then = Null)))

(* An item executes what then made of it to its end. *)
Item(made) ==
  IF Failed(made.v) THEN made
  ELSE IF IsEffect(made.v) THEN Execute(made.v, Null)
  ELSE Silently(Panic_)

Each(list, then) ==
  IF list = HNil THEN Silently(HUnit)
  ELSE AndThen(Item(Execute(HEffect("return_effect", <<list.args[1]>>), then)),
               Each(list.args[2], then))

Executed(v) == IF Failed(v) THEN Silently(v) ELSE Execute(v, Null)
ShownRun(run) == Run(run.out, Shown(run.v))

Meaning == Map(LAMBDA n : ShownRun(Executed(Eval(n, Extern))), Programs)

-----------------------------------------------------------------------------
(* The compiled program, if it ends, ends the way its expression says: it  *)
(* has printed the same values and yields the same value, or it halts,     *)
(* panics, crashes or reports an error where the expression has no value.  *)
(* Captures, locals, blocks, jumps and the order of effects all have to be *)
(* right for this.                                                         *)
MeansTheSame ==
  Ended /\ status # "corrupted" =>
    /\ Map(Shown, output) = Meaning[source].out
    /\ IF status = "yielded" THEN Shown(outcome) = Meaning[source].v
       ELSE Meaning[source].v.kind = (IF status = "halted" THEN "halt" ELSE status)
=============================================================================
