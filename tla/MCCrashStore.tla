---------------------------- MODULE MCCrashStore ----------------------------
(* Instances of CrashStore for TLC. *)
EXTENDS CrashStore, TLC

CONSTANTS p1, p2, o1, o2, c1, c2

\* Two objects that share chunk c2, which occurs twice in one of them.
MCChunkIDs == [o \in Objects |-> IF o = o1 THEN <<c1, c2>> ELSE <<c2, c2>>]

Symm == Permutations(Clients)
=============================================================================
