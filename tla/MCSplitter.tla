----------------------------- MODULE MCSplitter -----------------------------
(* Instances of Splitter for TLC. *)
EXTENDS Splitter

\* Byte 0 alone never makes a boundary, 1 makes one now and then.
MCGearTable == [b \in Bytes |-> IF b = 0 THEN 1 ELSE 6]

\* Every chunk size up to the limit, and requests beyond both ends.
MCRequests == [size : {-1, 0, 1, 2, 3, 5, 6, 8, 12, 20}, cdc : BOOLEAN, algo : {"sha256"}]
              \cup [size : {3}, cdc : BOOLEAN, algo : {"SHA256", "sha512_256"}]

MCRegistered == [name \in {"sha256", "SHA256", "sha512_256"} |->
                   IF name = "sha512_256" THEN name ELSE "sha256"]

\* All short contents, and some that reach Max (32 here) between boundaries.
Constant(n) == [i \in 1..n |-> 0]
MCContents == UNION {[1..n -> Bytes] : n \in 0..5}
                \cup {Constant(n) : n \in {32, 33, 37}}
                \cup {[i \in 1..36 |-> IF i = 35 THEN 1 ELSE 0]}
                \cup {[i \in 1..17 |-> i % 2], [i \in 1..19 |-> IF i % 5 < 3 THEN 1 ELSE 0]}
=============================================================================
