---------------------------- MODULE MCContainers -----------------------------
(* Keys that collide in every way: k2 has the hash of k1, k3 shares their   *)
(* bucket only, and k4 is the empty string, alone in its bucket.            *)
EXTENDS Containers

MCLength == [k \in Key |-> CASE k = "k3" -> 3 [] k = "k4" -> 0 [] OTHER -> 2]
MCHash == [k \in Key |-> CASE k = "k3" -> 2 [] k = "k4" -> 1 [] OTHER -> 0]

(* Operands: "b" is true and passes checks, "a" is false, and each is a     *)
(* component of the other.                                                  *)
MCVerdict == [passed \in BOOLEAN |-> IF passed THEN "b" ELSE "a"]
MCPart == [v \in Operand |-> IF v = "a" THEN "b" ELSE "a"]
MCJoined == [p \in Operand \X Operand |-> p[1]]
=============================================================================
