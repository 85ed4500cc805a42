------------------------------ MODULE Prelude -------------------------------
(* What module_make_prelude of src/lib/builtin/prelude.c puts there, as far *)
(* as the programs need it.                                                *)
EXTENDS HValueOps, TLC

Argc ==
  "id" :> 1 @@ "error" :> 1 @@ "print" :> 1 @@ "return" :> 1 @@ "each" :> 1 @@
  "const" :> 2 @@ "==" :> 2 @@ "+" :> 2 @@ "-" :> 2 @@ "*" :> 2

Members ==
  [name \in DOMAIN Argc |-> HNative(name, Argc[name])]
    @@ ("get_time" :> HEffect("get_time", <<>>))

SomeTime == HTuple(Map(HInt, <<2024, 2, 29, 23, 59, 60>>))

Panicked == Value("panic", 0, "", <<>>)

native_call(name, args) ==
  CASE name \in {"id", "const"} -> args[1]
    [] name = "==" -> HBool(hvalue_eq(args[1], args[2]))
    [] name = "error" ->
         IF args[1].kind = "string" THEN Value("error", 0, "", <<>>) ELSE Panicked
    [] name = "print" -> HEffect("print_effect", args)
    [] name = "return" -> HEffect("return_effect", args)
    [] name = "each" ->
         IF args[1].kind \in {"nil", "cons"} THEN HEffect("each_effect", args) ELSE Panicked
    [] args[1].kind # "int" \/ args[2].kind # "int" -> Panicked
    [] name = "+" -> HInt(args[1].n + args[2].n)
    [] name = "-" -> HInt(args[1].n - args[2].n)
    [] name = "*" -> HInt(args[1].n * args[2].n)
=============================================================================
