----------------------------- MODULE ShardStore -----------------------------
(***************************************************************************)
(* A running Store of the root package: concurrent clients call Put,       *)
(* Delete, Get, GC and Close on one Store value.                           *)
(*                                                                         *)
(* Objects and chunks are content-addressed, so an object is modelled by   *)
(* its ID and the sequence of chunk IDs its content splits into; chunk     *)
(* bytes, sizes, offsets and timestamps are left out.                      *)
(*                                                                         *)
(* One action is one step the code takes without another goroutine being   *)
(* able to observe an intermediate state: a critical section of Index.mu,  *)
(* Table.mu or RWMutex, or one file operation (WriteAtomic is a rename).   *)
(* Reads of an object's index record and manifest under that object's lock *)
(* are merged with taking the lock, because only the lock's holder writes  *)
(* them; likewise the deferred releases at the end of a call.              *)
(***************************************************************************)
EXTENDS Naturals, Sequences, FiniteSets

CONSTANTS
    Clients,      \* goroutines that call the store
    Objects,      \* object IDs (contents that may be put)
    Chunks,       \* chunk IDs
    ChunkIDs,     \* the manifest's chunk list of every object
    NoClient,     \* "nobody" as the holder of a lock
    NoObject,     \* "no object" as the argument of a call
    Memory,       \* TRUE for OpenMemory, FALSE for Open(root)
    AutoGC,       \* WithAutoGC: Delete ends with a GC
    Ops,          \* the calls the clients make
    MaxUse,       \* bound: uses of one object, pending Puts included
    Failing,      \* the kinds of I/O failure that may strike
    MaxFaults     \* bound: how many strike in all

AllOps == {"put", "delete", "get", "gc", "close"}

\* What may fail and leave the state disturbed.  "add" and "sub": a journal
\* append inside AddMany or SubMany; "remove": removing a manifest; "save": a
\* file operation of persist that reports its error; "rename": a rename that
\* fails over an existing file, which WriteAtomic reports as success; "fetch":
\* a GC's read of a chunk.
FaultKinds == {"add", "sub", "remove", "save", "rename", "fetch"}

ASSUME ChunkIDsAssumption == ChunkIDs \in [Objects -> Seq(Chunks)]
ASSUME NoneAssumption == NoClient \notin Clients /\ NoObject \notin Objects
ASSUME FiniteAssumption == IsFiniteSet(Objects)
ASSUME ModeAssumption == Memory \in BOOLEAN /\ AutoGC \in BOOLEAN
ASSUME BoundsAssumption == /\ Ops \subseteq AllOps
                           /\ MaxUse \in Nat
                           /\ Failing \subseteq FaultKinds
                           /\ MaxFaults \in Nat

VARIABLES
    \* the Store value
    idx,          \* index: UseCount of every object, 0 when it has no record
    refs,         \* refcount.Table: the count of every chunk, 0 when missing
    closed,       \* Store.closed
    \* the store's chunk files and manifests
    blobs,        \* chunks present in the backend
    manifests,    \* objects whose manifest is present
    \* files rewritten by persist, and the journal
    idxFile,      \* the index snapshot
    refsFile,     \* the refcount snapshot
    journal,      \* journal records since the last Truncate
    \* synchronisation
    shared,       \* clients holding the fence's read lock
    writer,       \* the client that announced or holds the write lock
    objLock,      \* the holder of each object's lock
    persistM,     \* the holder of Store.persistM
    \* every client's call
    pc,           \* where it is
    op,           \* the call
    obj,          \* the object it is about
    pos,          \* next entry of the object's chunk list
    seen,         \* rec.UseCount as read under the object's lock
    out,          \* the result it is going to return
    \* the running GC
    todo,         \* listed chunks not yet visited
    faults        \* the I/O failures so far

storeVars  == <<idx, refs, closed>>
fileVars   == <<blobs, manifests>>
diskVars   == <<idxFile, refsFile, journal>>
lockVars   == <<shared, writer, objLock, persistM>>
callVars   == <<op, obj, pos, seen, out>>
vars == <<storeVars, fileVars, diskVars, lockVars, pc, callVars, todo, faults>>

-----------------------------------------------------------------------------
\* The program counters, grouped by what the call is doing.

FencePCs  == {"rlock", "rwait", "enter"}
PutPCs    == {"put_chunks", "put_bump", "put_man", "put_refs", "put_undo"}
DeletePCs == {"del_lock", "del_dec", "del_refs", "del_man"}
GetPCs    == {"get_look", "get_load", "reading"}
SavePCs   == {"save_idx", "save_refs", "save_trunc"}
ExclPCs   == {"wlock", "wwait", "sweep", "wunlock"}

PCs == {"idle", "finish"} \cup FencePCs \cup PutPCs \cup DeletePCs
         \cup GetPCs \cup SavePCs \cup ExclPCs

Outs == {"none", "ok", "error", "notfound", "incomplete", "closed"}

\* Journal records: Torn is the prefix of a record that a failing append or a
\* crash left at the end of the file.
Rec(kind, c) == <<kind, c>>
Torn == <<"torn">>
Records == ({"inc", "dec"} \X Chunks) \cup {Torn}

NEntries(o) == Len(ChunkIDs[o])
Slot(o, i) == ChunkIDs[o][i]
ChunksOf(o) == {Slot(o, i) : i \in 1..NEntries(o)}

\* Operations that hold the fence's write lock ("autogc" is the GC a Delete
\* starts after releasing its read lock).
ExclOps == {"gc", "autogc", "close"}

\* p holds the fence's write lock.
Exclusive(p) == op[p] \in ExclOps /\ pc[p] \in SavePCs \cup {"sweep", "wunlock"}

Goto(p, l) == pc' = [pc EXCEPT ![p] = l]
Answer(p, r) == out' = [out EXCEPT ![p] = r]

\* A disk store logs a change of a count; a memory store has no journal.
Log(r) == journal' = IF Memory THEN journal ELSE Append(journal, r)

Fault(k) == /\ k \in Failing /\ Len(faults) < MaxFaults
            /\ faults' = Append(faults, k)

-----------------------------------------------------------------------------
(* A store just opened on an empty root (or OpenMemory). *)

Init ==
    /\ idx = [o \in Objects |-> 0]
    /\ refs = [c \in Chunks |-> 0]
    /\ closed = FALSE
    /\ blobs = {} /\ manifests = {}
    /\ idxFile = idx /\ refsFile = refs /\ journal = <<>>
    /\ shared = {}
    /\ writer = NoClient
    /\ objLock = [o \in Objects |-> NoClient]
    /\ persistM = NoClient
    /\ pc = [p \in Clients |-> "idle"]
    /\ op = [p \in Clients |-> "none"]
    /\ obj = [p \in Clients |-> NoObject]
    /\ pos = [p \in Clients |-> 0]
    /\ seen = [p \in Clients |-> 0]
    /\ out = [p \in Clients |-> "none"]
    /\ todo = {}
    /\ faults = <<>>

-----------------------------------------------------------------------------
(* Calling the store, and the fence's read lock (beginIO).  A pending writer *)
(* makes new readers wait until it unlocks, as sync.RWMutex does.            *)

\* Puts of o that have not returned.
Putting(o) == {p \in Clients : op[p] = "put" /\ obj[p] = o}

CallShared(p) ==
    /\ pc[p] = "idle"
    /\ \E k \in Ops \cap {"put", "delete", "get"}, o \in Objects :
          /\ k = "put" => idx[o] + Cardinality(Putting(o)) < MaxUse
          /\ op' = [op EXCEPT ![p] = k]
          /\ obj' = [obj EXCEPT ![p] = o]
    /\ Goto(p, "rlock")
    /\ UNCHANGED <<storeVars, fileVars, diskVars, lockVars, pos, seen, out, todo, faults>>

CallExclusive(p) ==
    /\ pc[p] = "idle"
    /\ \E k \in Ops \cap {"gc", "close"} : op' = [op EXCEPT ![p] = k]
    /\ Goto(p, "wlock")
    /\ UNCHANGED <<storeVars, fileVars, diskVars, lockVars, obj, pos, seen, out, todo, faults>>

\* Mutant: a reader that overtakes a waiting writer.
RLockOvertaking(p) ==
    /\ pc[p] = "rlock"
    /\ IF \E q \in Clients : Exclusive(q)
         THEN shared' = shared /\ Goto(p, "rwait")
         ELSE shared' = shared \cup {p} /\ Goto(p, "enter")
    /\ UNCHANGED <<storeVars, fileVars, diskVars, writer, objLock, persistM,
                   callVars, todo, faults>>

\* Mutant: a call that takes no part in the fence.
RLockAbsent(p) ==
    /\ pc[p] = "rlock"
    /\ Goto(p, "enter")
    /\ UNCHANGED <<storeVars, fileVars, diskVars, lockVars, callVars, todo, faults>>

RLock(p) ==
    /\ pc[p] = "rlock"
    /\ IF writer = NoClient
         THEN shared' = shared \cup {p} /\ Goto(p, "enter")
         ELSE shared' = shared /\ Goto(p, "rwait")
    /\ UNCHANGED <<storeVars, fileVars, diskVars, writer, objLock, persistM,
                   callVars, todo, faults>>

EnterClosed(p) ==
    /\ pc[p] = "enter" /\ closed
    /\ Answer(p, "closed")
    /\ Goto(p, "finish")
    /\ UNCHANGED <<storeVars, fileVars, diskVars, lockVars, op, obj, pos, seen, todo, faults>>

Enter(p) ==
    /\ pc[p] = "enter" /\ ~closed
    /\ Goto(p, CASE op[p] = "put"    -> "put_chunks"
                 [] op[p] = "delete" -> "del_lock"
                 [] op[p] = "get"    -> "get_look")
    /\ pos' = [pos EXCEPT ![p] = 1]
    /\ UNCHANGED <<storeVars, fileVars, diskVars, lockVars, op, obj, seen, out, todo, faults>>

\* Mutant: a call that fails keeps its object's lock.
FinishLeaky(p) ==
    /\ pc[p] = "finish"
    /\ shared' = shared \ {p}
    /\ objLock' = [o \in Objects |-> IF objLock[o] = p /\ out[p] # "error"
                                     THEN NoClient ELSE objLock[o]]
    /\ op' = [op EXCEPT ![p] = "none"]
    /\ Goto(p, "idle")
    /\ obj' = [obj EXCEPT ![p] = NoObject]
    /\ pos' = [pos EXCEPT ![p] = 0]
    /\ seen' = [seen EXCEPT ![p] = 0]
    /\ Answer(p, "none")
    /\ UNCHANGED <<storeVars, fileVars, diskVars, writer, persistM, todo, faults>>

\* The deferred releases and the return of a call under the read lock.  With
\* WithAutoGC a Delete that succeeded goes on to GC.
Finish(p) ==
    /\ pc[p] = "finish"
    /\ shared' = shared \ {p}
    /\ objLock' = [o \in Objects |-> IF objLock[o] = p THEN NoClient ELSE objLock[o]]
    /\ IF op[p] = "delete" /\ out[p] = "ok" /\ AutoGC
         THEN /\ op' = [op EXCEPT ![p] = "autogc"]
              /\ Goto(p, "wlock")
              /\ obj' = obj
         ELSE /\ op' = [op EXCEPT ![p] = "none"]
              /\ Goto(p, "idle")
              /\ obj' = [obj EXCEPT ![p] = NoObject]
    /\ pos' = [pos EXCEPT ![p] = 0]
    /\ seen' = [seen EXCEPT ![p] = 0]
    /\ Answer(p, "none")
    /\ UNCHANGED <<storeVars, fileVars, diskVars, writer, persistM, todo, faults>>

-----------------------------------------------------------------------------
(* Put *)

\* The content is split; every piece goes to the backend, which skips a
\* chunk it already has.
PutChunk(p) ==
    /\ pc[p] = "put_chunks" /\ pos[p] <= NEntries(obj[p])
    /\ blobs' = blobs \cup {Slot(obj[p], pos[p])}
    /\ pos' = [pos EXCEPT ![p] = @ + 1]
    /\ UNCHANGED <<storeVars, manifests, diskVars, lockVars, pc, op, obj, seen,
                   out, todo, faults>>

\* Reading the content, a chunk write, encoding or writing the manifest, or
\* reading one fails: the call returns the error and leaves what it wrote.
CallFail(p) ==
    /\ \/ pc[p] \in {"put_chunks", "put_man"}
       \/ pc[p] = "get_load" /\ ~Memory
       \/ pc[p] = "del_lock" /\ objLock[obj[p]] = NoClient /\ idx[obj[p]] > 0 /\ ~Memory
    /\ Answer(p, "error")
    /\ Goto(p, "finish")
    /\ UNCHANGED <<storeVars, fileVars, diskVars, lockVars, op, obj, pos, seen, todo, faults>>

\* Mutant: Put without the object's lock.
PutLockAbsent(p) ==
    /\ pc[p] = "put_chunks" /\ pos[p] = NEntries(obj[p]) + 1
    /\ seen' = [seen EXCEPT ![p] = idx[obj[p]]]
    /\ Goto(p, IF idx[obj[p]] > 0 THEN "put_bump" ELSE "put_man")
    /\ UNCHANGED <<storeVars, fileVars, diskVars, lockVars, op, obj, pos, out, todo, faults>>

\* LockObject and idx.Get: the content is new, or its use count is raised.
PutLock(p) ==
    /\ pc[p] = "put_chunks" /\ pos[p] = NEntries(obj[p]) + 1
    /\ objLock[obj[p]] = NoClient
    /\ objLock' = [objLock EXCEPT ![obj[p]] = p]
    /\ seen' = [seen EXCEPT ![p] = idx[obj[p]]]
    /\ Goto(p, IF idx[obj[p]] > 0 THEN "put_bump" ELSE "put_man")
    /\ UNCHANGED <<storeVars, fileVars, diskVars, shared, writer, persistM,
                   op, obj, pos, out, todo, faults>>

PutBump(p) ==
    /\ pc[p] = "put_bump"
    /\ idx' = [idx EXCEPT ![obj[p]] = seen[p] + 1]
    /\ Goto(p, "save_idx")
    /\ UNCHANGED <<refs, closed, fileVars, diskVars, lockVars, callVars, todo, faults>>

\* persist failed after a bump: the record gets its old use count back.
PutUndo(p) ==
    /\ pc[p] = "put_undo"
    /\ idx' = [idx EXCEPT ![obj[p]] = seen[p]]
    /\ Goto(p, "finish")
    /\ UNCHANGED <<refs, closed, fileVars, diskVars, lockVars, callVars, todo, faults>>

PutManifest(p) ==
    /\ pc[p] = "put_man"
    /\ manifests' = manifests \cup {obj[p]}
    /\ pos' = [pos EXCEPT ![p] = 1]
    /\ Goto(p, "put_refs")
    /\ UNCHANGED <<storeVars, blobs, diskVars, lockVars, op, obj, seen, out, todo, faults>>

\* One Table.Add of AddMany: the count and its journal record.
PutAddRef(p) ==
    /\ pc[p] = "put_refs" /\ pos[p] <= NEntries(obj[p])
    /\ LET c == Slot(obj[p], pos[p])
       IN  /\ refs' = [refs EXCEPT ![c] = @ + 1]
           /\ Log(Rec("inc", c))
    /\ pos' = [pos EXCEPT ![p] = @ + 1]
    /\ UNCHANGED <<idx, closed, fileVars, idxFile, refsFile, lockVars, pc, op, obj,
                   seen, out, todo, faults>>

\* Mutant: AddMany goes on after an Add that failed.
PutAddRefFailIgnored(p) ==
    /\ pc[p] = "put_refs" /\ pos[p] <= NEntries(obj[p])
    /\ ~Memory /\ Fault("add")
    /\ pos' = [pos EXCEPT ![p] = @ + 1]
    /\ UNCHANGED <<storeVars, fileVars, diskVars, lockVars, pc, op, obj, seen, out, todo>>

\* The journal append fails (nothing, part or all of the record reached the
\* file): this Add is undone, the earlier ones of the call are not.
PutAddRefFail(p) ==
    /\ pc[p] = "put_refs" /\ pos[p] <= NEntries(obj[p])
    /\ ~Memory /\ Fault("add")
    /\ journal' \in {journal, Append(journal, Torn),
                     Append(journal, Rec("inc", Slot(obj[p], pos[p])))}
    /\ Answer(p, "error")
    /\ Goto(p, "finish")
    /\ UNCHANGED <<storeVars, fileVars, idxFile, refsFile, lockVars, op, obj, pos, seen, todo>>

\* Mutant: Put answers without having saved.
PutIndexUnsaved(p) ==
    /\ pc[p] = "put_refs" /\ pos[p] = NEntries(obj[p]) + 1
    /\ idx' = [idx EXCEPT ![obj[p]] = 1]
    /\ Answer(p, "ok")
    /\ Goto(p, "finish")
    /\ UNCHANGED <<refs, closed, fileVars, diskVars, lockVars, op, obj, pos, seen, todo, faults>>

PutIndex(p) ==
    /\ pc[p] = "put_refs" /\ pos[p] = NEntries(obj[p]) + 1
    /\ idx' = [idx EXCEPT ![obj[p]] = 1]
    /\ Goto(p, "save_idx")
    /\ UNCHANGED <<refs, closed, fileVars, diskVars, lockVars, callVars, todo, faults>>

-----------------------------------------------------------------------------
(* Delete *)

\* Mutant: the last use, too, is only a use count to lower.
DeleteLockOffByOne(p) ==
    /\ pc[p] = "del_lock"
    /\ objLock[obj[p]] = NoClient
    /\ objLock' = [objLock EXCEPT ![obj[p]] = p]
    /\ seen' = [seen EXCEPT ![p] = idx[obj[p]]]
    /\ IF idx[obj[p]] = 0 \/ obj[p] \notin manifests
         THEN Answer(p, "notfound") /\ Goto(p, "finish")
         ELSE out' = out /\ Goto(p, "del_dec")
    /\ UNCHANGED <<storeVars, fileVars, diskVars, shared, writer, persistM,
                   op, obj, pos, todo, faults>>

\* Mutant: Delete without the object's lock.
DeleteLockAbsent(p) ==
    /\ pc[p] = "del_lock"
    /\ seen' = [seen EXCEPT ![p] = idx[obj[p]]]
    /\ IF idx[obj[p]] = 0 \/ obj[p] \notin manifests
         THEN Answer(p, "notfound") /\ Goto(p, "finish")
         ELSE out' = out /\ Goto(p, IF idx[obj[p]] > 1 THEN "del_dec" ELSE "del_refs")
    /\ UNCHANGED <<storeVars, fileVars, diskVars, lockVars, op, obj, pos, todo, faults>>

\* LockObject, idx.Get and loadManifest.
DeleteLock(p) ==
    /\ pc[p] = "del_lock"
    /\ objLock[obj[p]] = NoClient
    /\ objLock' = [objLock EXCEPT ![obj[p]] = p]
    /\ seen' = [seen EXCEPT ![p] = idx[obj[p]]]
    /\ IF idx[obj[p]] = 0 \/ obj[p] \notin manifests
         THEN Answer(p, "notfound") /\ Goto(p, "finish")
         ELSE out' = out /\ Goto(p, IF idx[obj[p]] > 1 THEN "del_dec" ELSE "del_refs")
    /\ UNCHANGED <<storeVars, fileVars, diskVars, shared, writer, persistM,
                   op, obj, pos, todo, faults>>

DeleteDec(p) ==
    /\ pc[p] = "del_dec"
    /\ idx' = [idx EXCEPT ![obj[p]] = seen[p] - 1]
    /\ Goto(p, "save_idx")
    /\ UNCHANGED <<refs, closed, fileVars, diskVars, lockVars, callVars, todo, faults>>

\* Mutant: Sub without the underflow check.
DeleteSubRefUnchecked(p) ==
    /\ pc[p] = "del_refs" /\ pos[p] <= NEntries(obj[p])
    /\ LET c == Slot(obj[p], pos[p])
       IN  /\ refs' = [refs EXCEPT ![c] = @ - 1]
           /\ Log(Rec("dec", c))
    /\ pos' = [pos EXCEPT ![p] = @ + 1]
    /\ UNCHANGED <<idx, closed, fileVars, idxFile, refsFile, lockVars, pc, op, obj,
                   seen, out, todo, faults>>

\* One Table.Sub of SubMany.
DeleteSubRef(p) ==
    /\ pc[p] = "del_refs" /\ pos[p] <= NEntries(obj[p])
    /\ LET c == Slot(obj[p], pos[p])
       IN  /\ refs[c] > 0
           /\ refs' = [refs EXCEPT ![c] = @ - 1]
           /\ Log(Rec("dec", c))
    /\ pos' = [pos EXCEPT ![p] = @ + 1]
    /\ UNCHANGED <<idx, closed, fileVars, idxFile, refsFile, lockVars, pc, op, obj,
                   seen, out, todo, faults>>

DeleteUnderflow(p) ==
    /\ pc[p] = "del_refs" /\ pos[p] <= NEntries(obj[p])
    /\ refs[Slot(obj[p], pos[p])] = 0
    /\ Answer(p, "error")
    /\ Goto(p, "finish")
    /\ UNCHANGED <<storeVars, fileVars, diskVars, lockVars, op, obj, pos, seen, todo, faults>>

\* The append fails: this Sub is undone, the earlier ones of the call are not,
\* and the object stays indexed.
DeleteSubRefFail(p) ==
    /\ pc[p] = "del_refs" /\ pos[p] <= NEntries(obj[p])
    /\ refs[Slot(obj[p], pos[p])] > 0
    /\ ~Memory /\ Fault("sub")
    /\ journal' \in {journal, Append(journal, Torn),
                     Append(journal, Rec("dec", Slot(obj[p], pos[p])))}
    /\ Answer(p, "error")
    /\ Goto(p, "finish")
    /\ UNCHANGED <<storeVars, fileVars, idxFile, refsFile, lockVars, op, obj, pos, seen, todo>>

DeleteIndex(p) ==
    /\ pc[p] = "del_refs" /\ pos[p] = NEntries(obj[p]) + 1
    /\ idx' = [idx EXCEPT ![obj[p]] = 0]
    /\ Goto(p, "del_man")
    /\ UNCHANGED <<refs, closed, fileVars, diskVars, lockVars, callVars, todo, faults>>

DeleteManifest(p) ==
    /\ pc[p] = "del_man"
    /\ manifests' = manifests \ {obj[p]}
    /\ Goto(p, "save_idx")
    /\ UNCHANGED <<storeVars, blobs, diskVars, lockVars, callVars, todo, faults>>

DeleteManifestFail(p) ==
    /\ pc[p] = "del_man" /\ ~Memory
    /\ Fault("remove")
    /\ Answer(p, "error")
    /\ Goto(p, "finish")
    /\ UNCHANGED <<storeVars, fileVars, diskVars, lockVars, op, obj, pos, seen, todo>>

-----------------------------------------------------------------------------
(* persist: under persistM the index, then the counts, are written, and the  *)
(* journal is emptied.                                                       *)

AfterPersist(p) == Goto(p, IF op[p] \in ExclOps THEN "wunlock" ELSE "finish")

\* There is nothing to write for a memory store.
PersistMemory(p) ==
    /\ pc[p] = "save_idx" /\ Memory
    /\ Answer(p, "ok")
    /\ AfterPersist(p)
    /\ UNCHANGED <<storeVars, fileVars, diskVars, lockVars, op, obj, pos, seen, todo, faults>>

\* Mutant: a persist that finds another one running leaves it to that one.
PersistIndexCoalesced(p) ==
    /\ pc[p] = "save_idx" /\ ~Memory
    /\ IF persistM = NoClient
         THEN persistM' = p /\ idxFile' = idx /\ out' = out /\ Goto(p, "save_refs")
         ELSE persistM' = persistM /\ idxFile' = idxFile /\ Answer(p, "ok") /\ AfterPersist(p)
    /\ UNCHANGED <<storeVars, fileVars, refsFile, journal, shared, writer, objLock,
                   op, obj, pos, seen, todo, faults>>

\* Mutant: the journal is emptied before the counts are saved.
PersistIndexTruncating(p) ==
    /\ pc[p] = "save_idx" /\ ~Memory /\ persistM = NoClient
    /\ persistM' = p
    /\ idxFile' = idx /\ journal' = <<>>
    /\ Goto(p, "save_refs")
    /\ UNCHANGED <<storeVars, fileVars, refsFile, shared, writer, objLock,
                   callVars, todo, faults>>

PersistIndex(p) ==
    /\ pc[p] = "save_idx" /\ ~Memory /\ persistM = NoClient
    /\ persistM' = p
    /\ \/ idxFile' = idx /\ UNCHANGED faults
       \/ idxFile' = idxFile /\ Fault("rename")
    /\ Goto(p, "save_refs")
    /\ UNCHANGED <<storeVars, fileVars, refsFile, journal, shared, writer, objLock,
                   callVars, todo>>

PersistRefs(p) ==
    /\ pc[p] = "save_refs"
    /\ \/ refsFile' = refs /\ UNCHANGED faults
       \/ refsFile' = refsFile /\ Fault("rename")
    /\ Goto(p, "save_trunc")
    /\ UNCHANGED <<storeVars, fileVars, idxFile, journal, lockVars, callVars, todo>>

\* Mutant: the journal is never emptied.
PersistKeeping(p) ==
    /\ pc[p] = "save_trunc"
    /\ persistM' = NoClient
    /\ Answer(p, "ok")
    /\ AfterPersist(p)
    /\ UNCHANGED <<storeVars, fileVars, diskVars, shared, writer, objLock,
                   op, obj, pos, seen, todo, faults>>

PersistTruncate(p) ==
    /\ pc[p] = "save_trunc"
    /\ journal' = <<>>
    /\ persistM' = NoClient
    /\ Answer(p, "ok")
    /\ AfterPersist(p)
    /\ UNCHANGED <<storeVars, fileVars, idxFile, refsFile, shared, writer, objLock,
                   op, obj, pos, seen, todo, faults>>

\* A file operation fails: persist gives up there; Truncate may have emptied
\* the journal all the same.  A Put that had bumped a use count takes the bump
\* back, every other caller just returns the error.
PersistFail(p) ==
    /\ \/ pc[p] = "save_idx" /\ ~Memory /\ persistM = NoClient
       \/ pc[p] \in {"save_refs", "save_trunc"}
    /\ Fault("save")
    /\ persistM' = NoClient
    /\ journal' \in IF pc[p] = "save_trunc" THEN {journal, <<>>} ELSE {journal}
    /\ Answer(p, "error")
    /\ IF op[p] = "put" /\ seen[p] > 0 THEN Goto(p, "put_undo") ELSE AfterPersist(p)
    /\ UNCHANGED <<storeVars, fileVars, idxFile, refsFile, shared, writer, objLock,
                   op, obj, pos, seen, todo>>

-----------------------------------------------------------------------------
(* Get, and the reader it returns, which keeps the read lock until closed.   *)

GetLookup(p) ==
    /\ pc[p] = "get_look"
    /\ IF idx[obj[p]] > 0
         THEN out' = out /\ Goto(p, "get_load")
         ELSE Answer(p, "notfound") /\ Goto(p, "finish")
    /\ UNCHANGED <<storeVars, fileVars, diskVars, lockVars, op, obj, pos, seen, todo, faults>>

\* Mutant: Get gives the read lock back when it returns the reader.
GetLoadReleasing(p) ==
    /\ pc[p] = "get_load"
    /\ shared' = shared \ {p}
    /\ IF obj[p] \in manifests
         THEN out' = out /\ Goto(p, "reading")
         ELSE Answer(p, "incomplete") /\ Goto(p, "finish")
    /\ UNCHANGED <<storeVars, fileVars, diskVars, writer, objLock, persistM,
                   op, obj, pos, seen, todo, faults>>

GetLoad(p) ==
    /\ pc[p] = "get_load"
    /\ IF obj[p] \in manifests
         THEN out' = out /\ Goto(p, "reading")
         ELSE Answer(p, "incomplete") /\ Goto(p, "finish")
    /\ UNCHANGED <<storeVars, fileVars, diskVars, lockVars, op, obj, pos, seen, todo, faults>>

\* blobReader fetches the next chunk; a chunk that is gone is a read error.
ReadChunk(p) ==
    /\ pc[p] = "reading" /\ pos[p] <= NEntries(obj[p])
    /\ IF Slot(obj[p], pos[p]) \in blobs
         THEN pos' = [pos EXCEPT ![p] = @ + 1] /\ out' = out
         ELSE pos' = pos /\ Answer(p, "error")
    /\ UNCHANGED <<storeVars, fileVars, diskVars, lockVars, pc, op, obj, seen,
                   todo, faults>>

\* blobReader.Close, after any number of reads.
CloseReader(p) ==
    /\ pc[p] = "reading"
    /\ Answer(p, "ok")
    /\ Goto(p, "finish")
    /\ UNCHANGED <<storeVars, fileVars, diskVars, lockVars, op, obj, pos, seen, todo, faults>>

-----------------------------------------------------------------------------
(* The fence's write lock, GC and Close.                                     *)

\* Mutant: a second writer does not wait for the first.
WLockUnguarded(p) ==
    /\ pc[p] = "wlock"
    /\ writer' = p
    /\ Goto(p, "wwait")
    /\ UNCHANGED <<storeVars, fileVars, diskVars, shared, objLock, persistM,
                   callVars, todo, faults>>

\* RWMutex.Lock: one writer at a time announces itself ...
WLockAnnounce(p) ==
    /\ pc[p] = "wlock" /\ writer = NoClient
    /\ writer' = p
    /\ Goto(p, "wwait")
    /\ UNCHANGED <<storeVars, fileVars, diskVars, shared, objLock, persistM,
                   callVars, todo, faults>>

\* ... and goes on when the readers are gone.  On a closed store GC and Close
\* return at once.
WLockClosed(p) ==
    /\ pc[p] = "wwait" /\ shared = {} /\ closed
    /\ Answer(p, IF op[p] = "close" THEN "ok" ELSE "closed")
    /\ Goto(p, "wunlock")
    /\ UNCHANGED <<storeVars, fileVars, diskVars, lockVars, op, obj, pos, seen, todo, faults>>

\* Mutant: GC does not wait for the calls in flight.
GCBeginEager(p) ==
    /\ pc[p] = "wwait" /\ ~closed
    /\ op[p] \in {"gc", "autogc"}
    /\ todo' = blobs
    /\ Goto(p, "sweep")
    /\ UNCHANGED <<storeVars, fileVars, diskVars, lockVars, callVars, faults>>

GCBegin(p) ==
    /\ pc[p] = "wwait" /\ shared = {} /\ ~closed
    /\ op[p] \in {"gc", "autogc"}
    /\ todo' = blobs
    /\ Goto(p, "sweep")
    /\ UNCHANGED <<storeVars, fileVars, diskVars, lockVars, callVars, faults>>

\* The collector visits one listed chunk, in any order.
GCSweep(p) ==
    /\ pc[p] = "sweep"
    /\ \E c \in todo :
         /\ todo' = todo \ {c}
         /\ blobs' = IF refs[c] > 0 THEN blobs ELSE blobs \ {c}
    /\ UNCHANGED <<storeVars, manifests, diskVars, lockVars, pc, callVars, faults>>

\* Reading a chunk fails before it is deleted: it is skipped, and stays.
GCSkip(p) ==
    /\ pc[p] = "sweep" /\ ~Memory /\ Fault("fetch")
    /\ \E c \in todo : refs[c] = 0 /\ todo' = todo \ {c}
    /\ UNCHANGED <<storeVars, fileVars, diskVars, lockVars, pc, callVars>>

\* Listing or deleting fails: GC returns without persisting.
GCFail(p) ==
    /\ pc[p] = "sweep" /\ ~Memory
    /\ todo' = {}
    /\ Answer(p, "error")
    /\ Goto(p, "wunlock")
    /\ UNCHANGED <<storeVars, fileVars, diskVars, lockVars, op, obj, pos, seen, faults>>

\* Mutant: GC stops before the list is exhausted.
GCEndEarly(p) ==
    /\ pc[p] = "sweep"
    /\ Goto(p, "save_idx")
    /\ UNCHANGED <<storeVars, fileVars, diskVars, lockVars, callVars, todo, faults>>

GCEnd(p) ==
    /\ pc[p] = "sweep" /\ todo = {}
    /\ Goto(p, "save_idx")
    /\ UNCHANGED <<storeVars, fileVars, diskVars, lockVars, callVars, todo, faults>>

CloseBegin(p) ==
    /\ pc[p] = "wwait" /\ shared = {} /\ ~closed
    /\ op[p] = "close"
    /\ closed' = TRUE
    /\ Goto(p, "save_idx")
    /\ UNCHANGED <<idx, refs, fileVars, diskVars, lockVars, callVars, todo, faults>>

\* RWMutex.Unlock lets the readers that were waiting in, and the call returns.
WUnlock(p) ==
    /\ pc[p] = "wunlock"
    /\ writer' = NoClient
    /\ shared' = {q \in Clients : pc[q] = "rwait"}
    /\ pc' = [q \in Clients |-> IF q = p THEN "idle"
                               ELSE IF pc[q] = "rwait" THEN "enter" ELSE pc[q]]
    /\ op' = [op EXCEPT ![p] = "none"]
    /\ obj' = [obj EXCEPT ![p] = NoObject]
    /\ Answer(p, "none")
    /\ UNCHANGED <<storeVars, fileVars, diskVars, objLock, persistM, pos, seen, todo, faults>>

-----------------------------------------------------------------------------

PutStep(p) == \/ PutChunk(p) \/ PutLock(p) \/ PutBump(p) \/ PutUndo(p)
              \/ PutManifest(p) \/ PutAddRef(p) \/ PutIndex(p)

DeleteStep(p) == \/ DeleteLock(p) \/ DeleteDec(p) \/ DeleteSubRef(p)
                 \/ DeleteUnderflow(p) \/ DeleteIndex(p) \/ DeleteManifest(p)

PersistBegin(p) == IF Memory THEN PersistMemory(p) ELSE PersistIndex(p)

PersistStep(p) == PersistBegin(p) \/ PersistRefs(p) \/ PersistTruncate(p)

GetStep(p) == GetLookup(p) \/ GetLoad(p) \/ ReadChunk(p) \/ CloseReader(p)

ExclStep(p) == \/ WLockAnnounce(p) \/ WLockClosed(p) \/ GCBegin(p) \/ GCSweep(p)
               \/ GCEnd(p) \/ CloseBegin(p) \/ WUnlock(p)

Call(p) == CallShared(p) \/ CallExclusive(p)

\* What a client does once it has called ...
Step(p) == \/ RLock(p) \/ EnterClosed(p) \/ Enter(p) \/ Finish(p)
           \/ PutStep(p) \/ DeleteStep(p) \/ PersistStep(p) \/ GetStep(p)
           \/ ExclStep(p)

\* ... and the failures it may meet.
Failure(p) == \/ CallFail(p) \/ PutAddRefFail(p) \/ DeleteSubRefFail(p)
              \/ DeleteManifestFail(p) \/ PersistFail(p) \/ GCFail(p) \/ GCSkip(p)

Next == \E p \in Clients : Call(p) \/ Step(p) \/ Failure(p)

Spec == Init /\ [][Next]_vars

-----------------------------------------------------------------------------
(* Fairness.  A call that can go on does: goroutines are scheduled (WF), and *)
(* a Go mutex is handed to a waiter that has waited long enough (SF on       *)
(* acquiring one).  That covers CloseReader, which Get demands of its        *)
(* caller; failures and new calls are never forced.                          *)

Fairness ==
    \A p \in Clients :
        /\ WF_vars(Step(p))
        /\ SF_vars(PutLock(p)) /\ SF_vars(DeleteLock(p))
        /\ SF_vars(PersistIndex(p)) /\ SF_vars(WLockAnnounce(p))

FairSpec == Spec /\ Fairness

-----------------------------------------------------------------------------
(* Properties *)

StoreTypes ==
    /\ idx \in [Objects -> Nat] /\ idxFile \in [Objects -> Nat]
    /\ refs \in [Chunks -> Nat] /\ refsFile \in [Chunks -> Nat]
    /\ closed \in BOOLEAN
    /\ blobs \in SUBSET Chunks /\ manifests \in SUBSET Objects
    /\ journal \in Seq(Records)
    /\ todo \in SUBSET Chunks
    /\ faults \in Seq(FaultKinds)

LockTypes ==
    /\ shared \in SUBSET Clients
    /\ writer \in Clients \cup {NoClient} /\ persistM \in Clients \cup {NoClient}
    /\ objLock \in [Objects -> Clients \cup {NoClient}]

CallTypes ==
    /\ pc \in [Clients -> PCs]
    /\ op \in [Clients -> AllOps \cup {"autogc", "none"}]
    /\ obj \in [Clients -> Objects \cup {NoObject}]
    /\ pos \in [Clients -> Nat] /\ seen \in [Clients -> Nat]
    /\ out \in [Clients -> Outs]

\* Type invariant: every variable of the store keeps to its domain.
TypeOK == StoreTypes /\ LockTypes /\ CallTypes

NoFault(kinds) == \A i \in 1..Len(faults) : faults[i] \notin kinds

\* Every entry of every object's chunk list.
Slots == UNION {{<<o, i>> : i \in 1..NEntries(o)} : o \in Objects}

\* The i-th entry of o has its reference counted: o is indexed, except that a
\* Put or Delete in the middle of AddMany or SubMany has done only a part.
Counted(o, i) ==
    LET p == objLock[o]
    IN  IF p # NoClient /\ pc[p] = "put_refs" THEN i < pos[p]
        ELSE IF p # NoClient /\ pc[p] = "del_refs" THEN pos[p] <= i
        ELSE idx[o] > 0

Holders(c) == {s \in Slots : Slot(s[1], s[2]) = c /\ Counted(s[1], s[2])}

\* Whatever the interleaving of Puts, Deletes, GCs and Closes, and whatever
\* failure other than of a journal append, a chunk's count is the number of
\* manifest entries that refer to it (Table, README invariants 1 and 3).
RefsExact ==
    NoFault({"add", "sub"}) => \A c \in Chunks : refs[c] = Cardinality(Holders(c))

\* A failed append in AddMany can only leak: the count never falls below the
\* references, so GC still keeps every chunk somebody needs.
RefsCover ==
    NoFault({"sub"}) => \A c \in Chunks : Cardinality(Holders(c)) <= refs[c]

\* What the index shows can be read back: its manifest and all its chunks are
\* there (README invariants 2 and 4), at every moment of every interleaving
\* and after any I/O failure but that of a journal append in SubMany.
VisibleReadable ==
    NoFault({"sub"}) =>
        \A o \in Objects : idx[o] > 0 => o \in manifests /\ ChunksOf(o) \subseteq blobs

\* A reader that Get handed out never misses a chunk, even if the object is
\* deleted under it and a GC is asked for (Get, blobReader).
ReadersServed ==
    NoFault({"sub"}) =>
        \A p \in Clients : pc[p] = "reading" => out[p] # "error" /\ ChunksOf(obj[p]) \subseteq blobs

\* The chunks a call relies on: those an open reader serves, and those a Put
\* has handed to the backend.
Needs(p) ==
    IF pc[p] \in {"get_load", "reading"} THEN ChunksOf(obj[p])
    ELSE IF pc[p] = "put_chunks" THEN {Slot(obj[p], i) : i \in 1..(pos[p] - 1)}
    ELSE IF pc[p] \in {"put_bump", "put_man", "put_refs"} THEN ChunksOf(obj[p])
    ELSE {}

\* A chunk is only ever removed while its count is zero and no call relies on
\* it (README invariant 3; Fence: "GC never deletes what is being written or
\* read").
GCRemovesOnlyGarbage ==
    [][\A c \in blobs \ blobs' : refs[c] = 0 /\ \A p \in Clients : c \notin Needs(p)]_vars

\* A GC that reaches persist has left no chunk without a reference, unless it
\* could not read one (Collector.Run visits all that was there when it began).
GCComplete ==
    NoFault({"fetch"}) =>
        \A p \in Clients : op[p] \in {"gc", "autogc"} /\ pc[p] \in SavePCs =>
            \A c \in blobs : refs[c] > 0

\* The use counts on disk are those in memory, except that a call in progress
\* on the object may not have written its own change yet: what a caller was
\* told succeeded is on disk (Put, Delete, persist).
DurableIndex ==
    ~Memory /\ NoFault({"save", "rename", "remove"}) =>
        \A o \in Objects :
            \/ idxFile[o] = idx[o]
            \/ objLock[o] # NoClient /\ idxFile[o] = seen[objLock[o]]

\* Once no call is in the middle of an object, the counts on disk are those in
\* memory and the journal holds nothing more, so a reopen would not apply any
\* record twice (persist, Journal.Truncate).
DurableWhenQuiet ==
    ~Memory /\ NoFault(FaultKinds) /\ (\A o \in Objects : objLock[o] = NoClient) =>
        refsFile = refs /\ journal = <<>>

\* Every call returns, a Delete's GC included, provided readers get closed: no
\* order of object locks, persistM and the fence lets calls wait forever on
\* each other (Fence, LockObject, persist).
CallsReturn == \A p \in Clients : pc[p] # "idle" ~> pc[p] = "idle"
=============================================================================
