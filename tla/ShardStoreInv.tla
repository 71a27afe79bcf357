--------------------------- MODULE ShardStoreInv ---------------------------
(***************************************************************************)
(* The inductive invariant behind ShardStore's safety properties, in       *)
(* named parts: which call is where, who holds which lock, and what a call *)
(* knows about the object it has locked.                                   *)
(***************************************************************************)
EXTENDS ShardStore

SharedOps == {"put", "delete"}

\* p is in the critical section of its object's lock.
InObject(p) ==
    \/ pc[p] \in {"put_bump", "put_man", "put_refs", "put_undo",
                  "del_dec", "del_refs", "del_man"}
    \/ pc[p] \in SavePCs /\ op[p] \in SharedOps

\* p is between beginIO and its release.
InShared(p) ==
    \/ pc[p] \in {"enter", "finish"} \cup PutPCs \cup DeletePCs \cup GetPCs
    \/ pc[p] \in SavePCs /\ op[p] \in SharedOps

\* The call's kind, argument and answer fit the step it is at.
CallInv ==
    \A p \in Clients :
        /\ pc[p] = "idle" => op[p] = "none"
        /\ pc[p] \in FencePCs \cup {"finish"} => op[p] \in {"put", "delete", "get"}
        /\ pc[p] \in PutPCs => op[p] = "put"
        /\ pc[p] \in DeletePCs => op[p] = "delete"
        /\ pc[p] \in GetPCs => op[p] = "get"
        /\ pc[p] \in ExclPCs => op[p] \in ExclOps
        /\ pc[p] \in SavePCs => op[p] \in SharedOps \cup ExclOps
        /\ op[p] \in {"put", "delete", "get"} => obj[p] \in Objects
        /\ out[p] = "none" \/ pc[p] \in {"finish", "wunlock", "put_undo", "reading"}

\* The cursor is within the chunk list, and the use count read under the lock
\* is the one that leads to this step.
CursorInv ==
    \A p \in Clients :
        /\ pc[p] \in {"put_chunks", "put_refs", "del_lock", "del_refs"} \cup GetPCs =>
              pos[p] \in 1..(NEntries(obj[p]) + 1)
        /\ pc[p] = "del_lock" => pos[p] = 1
        /\ pc[p] \in {"put_bump", "put_undo"} => seen[p] > 0
        /\ pc[p] \in {"put_man", "put_refs"} => seen[p] = 0
        /\ pc[p] = "del_dec" => seen[p] > 1
        /\ pc[p] \in {"del_refs", "del_man"} => seen[p] = 1

\* The read lock is held exactly by the calls inside beginIO, the write lock
\* by at most one call, never both.
FenceInv ==
    \A p \in Clients :
        /\ p \in shared <=> InShared(p)
        /\ writer = p <=> (pc[p] = "wwait" \/ Exclusive(p))
        /\ Exclusive(p) => shared = {}

\* A call in an object's critical section holds its lock, and a held lock has
\* such a call behind it.
LockInv ==
    /\ \A p \in Clients : InObject(p) => objLock[obj[p]] = p
    /\ \A o \in Objects : LET p == objLock[o] IN
          p # NoClient => obj[p] = o /\ (InObject(p) \/ pc[p] = "finish")

\* The index record of the object in whose critical section p is.
Record(p) ==
    CASE pc[p] \in {"put_bump", "del_dec", "del_refs"} -> seen[p]
      [] pc[p] \in {"put_man", "put_refs", "del_man"} -> 0
      [] pc[p] = "put_undo" -> seen[p] + 1
      [] pc[p] \in SavePCs -> IF op[p] = "put" THEN seen[p] + 1 ELSE idx[obj[p]]

\* What a call has read of its object is still so.
RecordInv ==
    \A p \in Clients :
        /\ InObject(p) => idx[obj[p]] = Record(p)
        /\ pc[p] = "put_refs" => obj[p] \in manifests

Discipline == CallInv /\ FenceInv /\ LockInv /\ CursorInv /\ RecordInv

\* Chunks that a call relies on are present.
PinInv ==
    \A p \in Clients :
        op[p] = "put" \/ NoFault({"sub"}) => Needs(p) \subseteq blobs

\* The index file lags only behind a call that is about to write it.
LagInv ==
    ~Memory /\ NoFault({"save", "rename", "remove"}) =>
        /\ \A p \in Clients : pc[p] # "put_undo"
        /\ \A o \in Objects : LET p == objLock[o] IN
              idxFile[o] # idx[o] =>
                  /\ p # NoClient /\ pc[p] \in {"del_man", "save_idx"}
                  /\ idxFile[o] = seen[p]

\* A sweep has visited every chunk that is not in todo.
SweepInv ==
    NoFault({"fetch"}) =>
        \A p \in Clients : op[p] \in {"gc", "autogc"} =>
            /\ pc[p] = "sweep" => \A c \in blobs \ todo : refs[c] > 0
            /\ pc[p] \in SavePCs => \A c \in blobs : refs[c] > 0

\* An open reader has not met a missing chunk.
ReadInv ==
    NoFault({"sub"}) => \A p \in Clients : pc[p] = "reading" => out[p] # "error"

\* p has changed counts and not written them, or not emptied the journal, yet.
OwesRefs(p) == InObject(p) /\ pc[p] \in {"put_refs", "del_refs", "del_man", "save_idx", "save_refs"}
OwesTruncate(p) == OwesRefs(p) \/ (InObject(p) /\ pc[p] = "save_trunc")

\* Counts differ from their file, or the journal holds records, only while some
\* call is going to write them out.
DirtyInv ==
    ~Memory /\ NoFault(FaultKinds) =>
        /\ refsFile # refs => \E p \in Clients : OwesRefs(p)
        /\ journal # <<>> => \E p \in Clients : OwesTruncate(p)

\* Everything together: at every moment of every interleaving calls hold the
\* locks their step needs, the index and the counts agree with what calls read
\* under those locks, and chunks in use are present.
SafetyInv == /\ Discipline
             /\ RefsExact /\ RefsCover
             /\ VisibleReadable /\ PinInv /\ SweepInv /\ ReadInv
             /\ LagInv /\ DirtyInv
=============================================================================
