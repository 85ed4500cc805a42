----------------------------- MODULE HValueOps ------------------------------
(* The functions of value.c that recurse over a whole HValue, on terms.    *)
EXTENDS HValues

(* hvalue_eq: functions equal nothing, not even themselves. *)
RECURSIVE hvalue_eq(_, _)
hvalue_eq(a, b) ==
  /\ a.kind = b.kind /\ a.kind \notin {"closure", "native", "binding", "error", "function"}
  /\ a.n = b.n /\ a.s = b.s
  /\ Len(a.args) = Len(b.args)
  /\ \A i \in DOMAIN a.args : hvalue_eq(a.args[i], b.args[i])

RECURSIVE hvalue_list_concat(_, _)
hvalue_list_concat(a, b) ==
  IF a = HNil THEN b
  ELSE IF b = HNil THEN a
  ELSE HCons(a.args[1], IF a.args[2].kind = "cons"
                         THEN hvalue_list_concat(a.args[2], b) ELSE b)
=============================================================================
