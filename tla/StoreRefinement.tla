-------------------------- MODULE StoreRefinement --------------------------
(***************************************************************************)
(* ShardStore implements ObjectStore: chunks, reference counts, files, GC  *)
(* and locks are invisible to callers.  A Put takes effect when it writes  *)
(* its index record, a Delete when it lowers or removes it.                *)
(***************************************************************************)
EXTENDS ShardStore

\* The phase of a call whose answer is r.
AnswerPhase(r) == CASE r \in {"none", "ok"} -> "done"
                    [] r = "error"         -> "failed"
                    [] r = "closed"        -> "refused"
                    [] r \in {"notfound", "incomplete"} -> "missed"

\* A Put or Delete that changed the index is done, whatever it still saves or
\* takes back; a Delete stays done while its GC runs.
Phase(p) ==
    IF op[p] \in {"none", "gc", "close"} THEN "idle"
    ELSE IF op[p] = "autogc" THEN AnswerPhase(out[p])
    ELSE CASE pc[p] = "finish" -> AnswerPhase(out[p])
           [] pc[p] \in SavePCs \cup {"del_man", "put_undo"} -> "done"
           [] pc[p] = "get_load" -> "sighted"
           [] pc[p] = "reading"  -> IF out[p] = "error" THEN "broken" ELSE "open"
           [] OTHER -> "pending"

CallOf(p) == CASE op[p] = "autogc" -> "delete"
               [] op[p] \in {"gc", "close"} -> "none"
               [] OTHER -> op[p]

Abstract == INSTANCE ObjectStore WITH
    uses   <- idx,
    shut   <- closed,
    call   <- [p \in Clients |-> CallOf(p)],
    target <- obj,
    phase  <- [p \in Clients |-> Phase(p)],
    listed <- [p \in Clients |-> {}]

\* Every call has one effect at one moment between call and return: a lost use
\* count, a Delete or Get that misses an object that was there all along, an
\* ErrIncomplete without a deletion, a failing Put that takes away somebody
\* else's use, a reader that breaks, and a GC a caller could notice are all
\* excluded (Put, Delete, Get, GC, Close).
ImplementsObjectStore == Abstract!AbsSpec

AsStoreLocks == INSTANCE StoreLocks WITH
    waiting <- {p \in Clients : pc[p] = "rwait"},
    alone   <- \E p \in Clients : writer = p /\ pc[p] # "wwait"

\* The calls use the fence and the objects' locks only as these allow: nothing
\* is locked without the read lock, by two calls, or past an announced writer,
\* and a call ends with nothing held (iofence, which Fence models in detail).
UsesStoreLocks == AsStoreLocks!LocksSpec
=============================================================================
