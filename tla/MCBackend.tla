----------------------------- MODULE MCBackend -----------------------------
(* Instances of Backend for TLC. *)
EXTENDS Backend, TLC

CONSTANTS c1, c2, p1, p2, p3

MCSizeOf == [c \in Chunks |-> IF c = c1 THEN 1 ELSE 2]

Symm == Permutations(Clients)
=============================================================================
