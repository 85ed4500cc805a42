----------------------------- MODULE Dictionary -----------------------------
(* What string_map.h promises: a partial function from strings to values,  *)
(* whose operations report what was there before.                          *)
CONSTANTS Key, Value, None

VARIABLES
  dict,  \* dict[k]: the value at key k, or None
  call,  \* the last operation, with its arguments
  reply  \* what it reported: a value, or None for `false`

Init ==
  /\ dict = [k \in Key |-> None]
  /\ call = <<>>
  /\ reply = None

Put(k, v) ==
  /\ dict' = [dict EXCEPT ![k] = v]
  /\ call' = <<"put", k, v>>
  /\ reply' = dict[k]

Get(k) ==
  /\ call' = <<"get", k>>
  /\ reply' = dict[k]
  /\ UNCHANGED dict

Next == \E k \in Key : Get(k) \/ \E v \in Value : Put(k, v)

Spec == Init /\ [][Next]_<<dict, call, reply>>
=============================================================================
