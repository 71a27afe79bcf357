----------------------------- MODULE StoreLocks -----------------------------
(***************************************************************************)
(* What a call is promised by the locks of a Store: the fence's read lock  *)
(* for Put, Delete and Get, with one lock per object taken inside it, and  *)
(* its write lock for GC and Close.  An announced writer holds up every    *)
(* call that comes after it, and lets them all in when it is done.         *)
(*                                                                         *)
(* Fence implements this with its counter and its map of mutexes, and      *)
(* ShardStore uses it.                                                     *)
(***************************************************************************)
CONSTANTS Clients, Objects, NoClient

VARIABLES
    shared,     \* clients with the read lock
    waiting,    \* clients held up by a writer
    writer,     \* the client that announced or holds the write lock
    alone,      \* whether it holds it
    objLock     \* the holder of each object's lock

lockVars == <<shared, waiting, writer, alone, objLock>>

LocksInit ==
    /\ shared = {} /\ waiting = {} /\ writer = NoClient /\ alone = FALSE
    /\ objLock = [o \in Objects |-> NoClient]

Without(p) == [o \in Objects |-> IF objLock[o] = p THEN NoClient ELSE objLock[o]]

Admit(p) ==
    /\ writer = NoClient
    /\ shared' = shared \cup {p}
    /\ UNCHANGED <<waiting, writer, alone, objLock>>

HoldUp(p) ==
    /\ writer # NoClient
    /\ waiting' = waiting \cup {p}
    /\ UNCHANGED <<shared, writer, alone, objLock>>

LockObject(p, o) ==
    /\ p \in shared /\ objLock[o] = NoClient
    /\ objLock' = [objLock EXCEPT ![o] = p]
    /\ UNCHANGED <<shared, waiting, writer, alone>>

UnlockObject(p) ==
    /\ p \in shared
    /\ objLock' = Without(p)
    /\ UNCHANGED <<shared, waiting, writer, alone>>

\* A call that ends gives back whatever it still has.
Leave(p) ==
    /\ p \in shared
    /\ shared' = shared \ {p} /\ objLock' = Without(p)
    /\ UNCHANGED <<waiting, writer, alone>>

Announce(p) ==
    /\ writer = NoClient
    /\ writer' = p
    /\ UNCHANGED <<shared, waiting, alone, objLock>>

Exclude ==
    /\ writer # NoClient /\ shared = {}
    /\ alone' = TRUE
    /\ UNCHANGED <<shared, waiting, writer, objLock>>

Readmit ==
    /\ alone
    /\ writer' = NoClient /\ alone' = FALSE
    /\ shared' = waiting /\ waiting' = {}
    /\ UNCHANGED objLock

LocksNext ==
    \/ \E p \in Clients : \/ Admit(p) \/ HoldUp(p) \/ Leave(p) \/ Announce(p)
                          \/ UnlockObject(p) \/ \E o \in Objects : LockObject(p, o)
    \/ Exclude \/ Readmit

LocksSpec == LocksInit /\ [][LocksNext]_lockVars
=============================================================================
