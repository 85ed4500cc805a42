------------------------------ MODULE HValues -------------------------------
(* HValues as immutable terms, which is what value.h lets its client see:   *)
(* a kind, an integer, a text and the values inside.                       *)
EXTENDS Ast, Integers, Sequences

Value(kind, n, s, args) == [kind |-> kind, n |-> n, s |-> s, args |-> args]
HInt(n) == Value("int", n, "", <<>>)
HStr(s) == Value("string", 0, s, <<>>)
HBool(b) == Value(IF b THEN "true" ELSE "false", 0, "", <<>>)
HTuple(items) == Value("tuple", 0, "", items)
HNil == Value("nil", 0, "", <<>>)
HCons(h, t) == Value("cons", 0, "", <<h, t>>)
HClosure(fnindex, args) == Value("closure", fnindex, "", args)
HNative(name, argc) == Value("native", argc, name, <<>>)
HEffect(name, data) == Value("native", Len(data), name, data)
Binding(effect, then) == Value("binding", 0, "", <<effect, then>>)
Uninit == Value("uninit", 0, "", <<>>)  \* memory no HValue was stored in
=============================================================================
