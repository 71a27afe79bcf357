------------------------------ MODULE Backend ------------------------------
(***************************************************************************)
(* The chunk backends (internal/blobstore) with the totals they keep for   *)
(* StoreStats, below a Store: Puts run concurrently under the fence's read *)
(* lock, a GC deletes chunks while it is alone, and a disk backend counts  *)
(* its files when it is opened.                                            *)
(*                                                                         *)
(* Memory holds its mutex for a whole operation.  Disk takes none: a Put   *)
(* looks twice whether the file exists, writes, syncs and renames a         *)
(* temporary file and adds to two counters, each in a step of its own.     *)
(* What ShardStore calls blobs is `present` here.                          *)
(*                                                                         *)
(* A crash ends the process at any step, and what was written to a file    *)
(* and not synced may be lost with it.                                     *)
(***************************************************************************)
EXTENDS Integers, FiniteSets, FiniteSetsExt

CONSTANTS
    Clients,    \* goroutines that put chunks
    Chunks,     \* chunk IDs
    SizeOf,     \* the length of each
    Kinds,      \* backends: "disk", "memory"
    NoChunk,    \* "no chunk"
    MaxFiles,   \* bound: calls start while fewer files are counted
    MaxCrashes  \* bound: how often the process stops

ASSUME SizeAssumption == SizeOf \in [Chunks -> Nat] /\ NoChunk \notin Chunks
ASSUME BoundsAssumption == Kinds \subseteq {"disk", "memory"} /\ {MaxFiles, MaxCrashes} \subseteq Nat

VARIABLES
    kind,       \* the backend
    present,    \* the chunks it has (files in place, or keys of Memory.blobs)
    nfile,      \* Disk.nfile, or len(Memory.blobs)
    nbytes,     \* Disk.nbytes, or Memory.nbytes
    synced,     \* the chunks whose file was synced before it got its name
    torn,       \* the chunks whose file lost content in a crash
    flushed,    \* clients whose temporary file has been synced
    ntemp,      \* temporary files there are
    left,       \* temporary files that were there when a crash came (ghost)
    open,       \* the backend is open
    crashes,    \* how often the process stopped
    pc,         \* where a Put is
    chunk       \* and which chunk it puts

totals   == <<nfile, nbytes>>
files    == <<present, synced, torn, flushed, ntemp>>
lifeVars == <<kind, open, left, crashes>>
vars == <<totals, files, lifeVars, pc, chunk>>

Goto(p, l) == pc' = [pc EXCEPT ![p] = l]

TotalSize(S) == MapThenSumSet(LAMBDA c : SizeOf[c], S)

Quiet == \A p \in Clients : pc[p] = "idle"

Init ==
    /\ kind \in Kinds
    /\ present = {} /\ nfile = 0 /\ nbytes = 0
    /\ synced = {} /\ torn = {} /\ flushed = {} /\ ntemp = 0
    /\ open = TRUE /\ left = 0 /\ crashes = 0
    /\ pc = [p \in Clients |-> "idle"]
    /\ chunk = [p \in Clients |-> NoChunk]

\* A call of Put; guard refuses it when the backend is closed.
Call(p) ==
    /\ pc[p] = "idle" /\ open /\ nfile < MaxFiles
    /\ \E c \in Chunks : chunk' = [chunk EXCEPT ![p] = c]
    /\ Goto(p, IF kind = "disk" THEN "look" ELSE "memory")
    /\ UNCHANGED <<totals, files, lifeVars>>

Return(p) == Goto(p, "idle") /\ chunk' = [chunk EXCEPT ![p] = NoChunk]

-----------------------------------------------------------------------------
(* Memory.Put *)

MemoryPut(p) ==
    /\ pc[p] = "memory"
    /\ present' = present \cup {chunk[p]}
    /\ nfile' = Cardinality(present')
    /\ nbytes' = IF chunk[p] \in present THEN nbytes ELSE nbytes + SizeOf[chunk[p]]
    /\ Return(p)
    /\ UNCHANGED <<synced, torn, flushed, ntemp, lifeVars>>

-----------------------------------------------------------------------------
(* Disk.Put *)

\* It returns at once if the file exists.
Look(p) ==
    /\ pc[p] = "look"
    /\ \/ chunk[p] \in present /\ Return(p)
       \/ chunk[p] \notin present /\ Goto(p, "again") /\ UNCHANGED chunk
    /\ UNCHANGED <<totals, files, lifeVars>>

\* WriteAtomicExclusive looks again; if the file is there now it writes nothing
\* and reports success as if it had.
LookAgain(p) ==
    /\ pc[p] = "again"
    /\ Goto(p, IF chunk[p] \in present THEN "count" ELSE "write")
    /\ UNCHANGED <<totals, files, lifeVars, chunk>>

\* Mutant: written, and renamed before it is synced.
WriteTempUnsynced(p) ==
    /\ pc[p] = "write"
    /\ ntemp' = ntemp + 1
    /\ Goto(p, "rename")
    /\ UNCHANGED <<totals, present, synced, torn, flushed, lifeVars, chunk>>

\* WriteAtomic: a temporary file of its own in the same directory.
WriteTemp(p) ==
    /\ pc[p] = "write"
    /\ ntemp' = ntemp + 1
    /\ Goto(p, "sync")
    /\ UNCHANGED <<totals, present, synced, torn, flushed, lifeVars, chunk>>

\* Mutant: the temporary file stays when it cannot be synced.
SyncTempUncleaned(p) ==
    /\ pc[p] = "sync"
    /\ \/ Goto(p, "rename") /\ flushed' = flushed \cup {p} /\ UNCHANGED chunk
       \/ Return(p) /\ UNCHANGED flushed
    /\ UNCHANGED <<totals, present, synced, torn, ntemp, lifeVars>>

\* Sync and Close; a failure, of Write too, removes the temporary file.
SyncTemp(p) ==
    /\ pc[p] = "sync"
    /\ \/ Goto(p, "rename") /\ flushed' = flushed \cup {p} /\ UNCHANGED <<chunk, ntemp>>
       \/ Return(p) /\ ntemp' = ntemp - 1 /\ UNCHANGED flushed
    /\ UNCHANGED <<totals, present, synced, torn, lifeVars>>

\* The rename puts the file in place, over one that came in between.
Rename(p) ==
    /\ pc[p] = "rename"
    /\ present' = present \cup {chunk[p]}
    /\ synced' = IF p \in flushed THEN synced \cup {chunk[p]} ELSE synced \ {chunk[p]}
    /\ flushed' = flushed \ {p} /\ ntemp' = ntemp - 1
    /\ Goto(p, "count")
    /\ UNCHANGED <<totals, torn, lifeVars, chunk>>

\* Or it fails: success if the file is there, an error if it is not.
RenameFail(p) ==
    /\ pc[p] = "rename"
    /\ flushed' = flushed \ {p} /\ ntemp' = ntemp - 1
    /\ \/ chunk[p] \in present /\ Goto(p, "count") /\ UNCHANGED chunk
       \/ chunk[p] \notin present /\ Return(p)
    /\ UNCHANGED <<totals, present, synced, torn, lifeVars>>

CountFile(p) ==
    /\ pc[p] = "count"
    /\ nfile' = nfile + 1
    /\ Goto(p, "size")
    /\ UNCHANGED <<nbytes, files, lifeVars, chunk>>

CountBytes(p) ==
    /\ pc[p] = "size"
    /\ nbytes' = nbytes + SizeOf[chunk[p]]
    /\ Return(p)
    /\ UNCHANGED <<nfile, files, lifeVars>>

-----------------------------------------------------------------------------
(* A GC's deletes, and Close, with no Put under way; a crash at any time *)

\* Mutant: a chunk that is gone is taken off the totals again.
DeleteFileUnchecked(c) ==
    /\ Quiet /\ open /\ kind = "disk"
    /\ present' = present \ {c} /\ synced' = synced \ {c} /\ torn' = torn \ {c}
    /\ nfile' = nfile - 1 /\ nbytes' = nbytes - SizeOf[c]
    /\ UNCHANGED <<flushed, ntemp, lifeVars, pc, chunk>>

\* Disk.Delete; a file that is not there, or cannot be removed, changes nothing.
DeleteFile(c) ==
    /\ Quiet /\ open /\ kind = "disk" /\ c \in present
    /\ present' = present \ {c} /\ synced' = synced \ {c} /\ torn' = torn \ {c}
    /\ nfile' = nfile - 1 /\ nbytes' = nbytes - SizeOf[c]
    /\ UNCHANGED <<flushed, ntemp, lifeVars, pc, chunk>>

MemoryDelete(c) ==
    /\ Quiet /\ open /\ kind = "memory" /\ c \in present
    /\ present' = present \ {c}
    /\ nfile' = Cardinality(present') /\ nbytes' = nbytes - SizeOf[c]
    /\ UNCHANGED <<synced, torn, flushed, ntemp, lifeVars, pc, chunk>>

Close ==
    /\ Quiet /\ open
    /\ open' = FALSE
    /\ UNCHANGED <<totals, files, kind, left, crashes, pc, chunk>>

Crash ==
    /\ open /\ kind = "disk" /\ crashes < MaxCrashes
    /\ open' = FALSE /\ crashes' = crashes + 1
    /\ \E S \in SUBSET (present \ synced) : torn' = torn \cup S
    /\ left' = ntemp /\ flushed' = {}
    /\ pc' = [p \in Clients |-> "idle"]
    /\ chunk' = [p \in Clients |-> NoChunk]
    /\ UNCHANGED <<totals, present, synced, ntemp, kind>>

\* Mutant: the sizes are not added up.
OpenDiskFiles ==
    /\ ~open /\ kind = "disk"
    /\ open' = TRUE
    /\ nfile' = Cardinality(present) /\ nbytes' = 0
    /\ UNCHANGED <<files, kind, left, crashes, pc, chunk>>

\* OpenDisk counts the files that have a chunk's name, so no temporary ones.
OpenDisk ==
    /\ ~open /\ kind = "disk"
    /\ open' = TRUE
    /\ nfile' = Cardinality(present) /\ nbytes' = TotalSize(present)
    /\ UNCHANGED <<files, kind, left, crashes, pc, chunk>>

PutStep(p) == \/ MemoryPut(p) \/ Look(p) \/ LookAgain(p) \/ WriteTemp(p) \/ SyncTemp(p)
              \/ Rename(p) \/ RenameFail(p) \/ CountFile(p) \/ CountBytes(p)

Next == \/ \E p \in Clients : Call(p) \/ PutStep(p)
        \/ \E c \in Chunks : DeleteFile(c) \/ MemoryDelete(c)
        \/ Close \/ Crash \/ OpenDisk

Spec == Init /\ [][Next]_vars

-----------------------------------------------------------------------------
(* Properties *)

\* Every variable keeps to its domain; the totals do not go below zero.
TypeOK ==
    /\ kind \in Kinds /\ open \in BOOLEAN
    /\ present \subseteq Chunks /\ synced \subseteq present /\ torn \subseteq present
    /\ {nfile, nbytes, ntemp, left} \subseteq Nat /\ crashes \in 0..MaxCrashes
    /\ flushed \subseteq Clients
    /\ pc \in [Clients -> {"idle", "memory", "look", "again", "write", "sync", "rename",
                           "count", "size"}]
    /\ chunk \in [Clients -> Chunks \cup {NoChunk}]

\* What StoreStats reports of the chunks is what the backend has.  It fails: two
\* Puts of one new chunk both count it.
StatsExact == open /\ Quiet => nfile = Cardinality(present) /\ nbytes = TotalSize(present)

\* The totals of a disk backend drift one way only, whatever Puts, deletes,
\* crashes and reopenings come after: with no Put under way each counts every
\* file there is.  Those of a memory backend do not drift.
TotalsDriftUp ==
    open /\ Quiet =>
        /\ nfile >= Cardinality(present) /\ nbytes >= TotalSize(present)
        /\ kind = "memory" => nfile = Cardinality(present) /\ nbytes = TotalSize(present)

\* A file under a chunk's name has the whole chunk, after a crash too, though
\* Puts of one chunk replace one another's file (layout.WriteAtomic).
FilesWhole == torn = {}

\* Puts remove their temporary files, however they end: others are left only by
\* a crash (which nothing removes later).
TempsAccounted ==
    ntemp = left + Cardinality({p \in Clients : pc[p] \in {"sync", "rename"}})
=============================================================================
