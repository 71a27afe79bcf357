----------------------------- MODULE CrashStore -----------------------------
(***************************************************************************)
(* The disk store of ShardStore through crashes, Close and Open.           *)
(*                                                                         *)
(* A crash ends the process between any two steps: the Store value, its    *)
(* locks and all calls are gone; chunk files, manifests, both snapshots    *)
(* and the journal stay.  Files are written through rename and fsync, so   *)
(* only a journal append in progress can leave half of what it wrote.      *)
(***************************************************************************)
EXTENDS ShardStore, Integers, SequencesExt

CONSTANTS
    TornWrites,   \* a crash may cut a journal append short
    MaxCrashes    \* bound: how often the process stops

ASSUME DiskAssumption == ~Memory
ASSUME CrashAssumption == TornWrites \in BOOLEAN /\ MaxCrashes \in Nat
ASSUME ClientsAssumption == IsFiniteSet(Clients)

VARIABLES
    up,        \* "up", "down", or "failed" when Open returned an error
    crashes,   \* how often the process stopped
    acked,     \* per object: Puts minus Deletes that returned nil (ghost)
    struck     \* the objects that lost their manifest in a Delete cut short (ghost)

crashVars == <<up, crashes, acked, struck>>
allVars == <<vars, crashVars>>

CrashInit == Init /\ up = "up" /\ crashes = 0 /\ acked = [o \in Objects |-> 0]
                  /\ struck = {}

\* Puts (Deletes) of o that return nil in this step.
Answered(k, o) == {p \in Clients : /\ pc[p] = "finish" /\ pc'[p] # "finish"
                                   /\ op[p] = k /\ obj[p] = o /\ out[p] = "ok"}

Acknowledge ==
    acked' = [o \in Objects |-> acked[o] + Cardinality(Answered("put", o))
                                       - Cardinality(Answered("delete", o))]

Run == up = "up" /\ Next /\ Acknowledge /\ UNCHANGED <<up, crashes, struck>>

-----------------------------------------------------------------------------
(* Journal.Replay on the loaded counts reads the file one record's length at  *)
(* a time.  Half a record shifts what is appended after it: the next reads    *)
(* straddle two records and find no valid one.                                *)

\* encodeRec: magic, op, id, n and the checksum of these.
RecSize == 5
Fields(r) == <<[field |-> "magic"], [field |-> "op", op |-> r[1]], [field |-> "id", id |-> r[2]],
               [field |-> "n", n |-> 1], [field |-> "sum", of |-> r]>>

\* What the file holds when parts[i] fields of the torn record i were written.
TornAt == {i \in DOMAIN journal : journal[i] = Torn}
Cells(parts) ==
    FlattenSeq([i \in DOMAIN journal |->
        IF i \in TornAt THEN SubSeq(Fields(Rec("inc", CHOOSE c \in Chunks : TRUE)), 1, parts[i])
                        ELSE Fields(journal[i])])

\* decodeRec: the magic and the checksum must be right.
Decodes(block) == /\ block[1].field = "magic" /\ block[RecSize].field = "sum"
                  /\ block[RecSize].of = Rec(block[2].op, block[3].id)

\* Mutant: the two record kinds mixed up.
Replay1Swapped(t, block) ==
    IF \/ ~t.ok \/ ~Decodes(block)
       \/ block[2].op = "inc" /\ t.counts[block[3].id] = 0
    THEN [t EXCEPT !.ok = FALSE]
    ELSE [t EXCEPT !.counts[block[3].id] = IF block[2].op = "dec" THEN @ + 1 ELSE @ - 1]

\* Applying the next record to what the earlier ones gave; no count goes below 0.
Replay1(t, block) ==
    IF \/ ~t.ok \/ ~Decodes(block)
       \/ block[2].op = "dec" /\ t.counts[block[3].id] < block[4].n
    THEN [t EXCEPT !.ok = FALSE]
    ELSE [t EXCEPT !.counts[block[3].id] =
             IF block[2].op = "inc" THEN @ + block[4].n ELSE @ - block[4].n]

\* Fewer cells than a record at the end are ignored, and stay in the file.
Replayed(parts) ==
    LET cells  == Cells(parts)
        blocks == [i \in 1..Len(cells) \div RecSize |->
                     SubSeq(cells, (i - 1) * RecSize + 1, i * RecSize)]
    IN FoldLeft(Replay1, [ok |-> TRUE, counts |-> refsFile], blocks)

-----------------------------------------------------------------------------

\* The volatile state of a process that is not running.
Volatile ==
    /\ closed' = FALSE
    /\ shared' = {} /\ writer' = NoClient /\ persistM' = NoClient
    /\ objLock' = [o \in Objects |-> NoClient]
    /\ pc' = [p \in Clients |-> "idle"]
    /\ op' = [p \in Clients |-> "none"]
    /\ obj' = [p \in Clients |-> NoObject]
    /\ pos' = [p \in Clients |-> 0]
    /\ seen' = [p \in Clients |-> 0]
    /\ out' = [p \in Clients |-> "none"]
    /\ todo' = {}

\* Clients that may be in the middle of a journal append.
Appending == \E p \in Clients : pc[p] \in {"put_refs", "del_refs"} /\ pos[p] <= NEntries(obj[p])

\* Calls of kind k on o that have not answered.
Pending(k, o) == Cardinality({p \in Clients : op[p] = k /\ obj[p] = o})

Crash ==
    /\ up = "up" /\ crashes < MaxCrashes
    /\ crashes' = crashes + 1
    /\ up' = "down"
    /\ struck' = struck \cup {o \in Objects \ manifests : Pending("delete", o) > 0}
    /\ Volatile
    /\ \/ journal' = journal
       \/ TornWrites /\ Appending /\ journal' = Append(journal, Torn)
    /\ UNCHANGED <<idx, refs, fileVars, idxFile, refsFile, faults, acked>>

\* Mutant: Open without the replay.
OpenWithoutReplay ==
    /\ up = "down"
    /\ up' = "up"
    /\ idx' = idxFile /\ refs' = refsFile /\ acked' = idxFile
    /\ UNCHANGED <<closed, fileVars, diskVars, lockVars, pc, callVars, todo, faults,
                   crashes, struck>>

\* Open: load both snapshots, replay the journal, start with no call running.
\* The journal keeps its records until the next persist.
Open ==
    /\ up = "down"
    /\ \E parts \in [TornAt -> 1..RecSize - 1] :
         IF ~Replayed(parts).ok
         THEN up' = "failed" /\ UNCHANGED <<idx, refs, acked>>
         ELSE /\ up' = "up"
              /\ idx' = idxFile
              /\ refs' = Replayed(parts).counts
              /\ acked' = idxFile
    /\ UNCHANGED <<closed, fileVars, diskVars, lockVars, pc, callVars, todo, faults,
                   crashes, struck>>

CrashNext == Run \/ Crash \/ Open

CrashSpec == CrashInit /\ [][CrashNext]_allVars

-----------------------------------------------------------------------------
(* Properties *)

\* What a caller was told survives: were the process to stop now, every object
\* would come back with the uses acknowledged so far, give or take the Puts
\* and Deletes that have not answered (Put and Delete answer after persist).
AckedDurable ==
    up = "up" =>
        \A o \in Objects :
            /\ acked[o] - Pending("delete", o) <= idxFile[o]
            /\ idxFile[o] <= acked[o] + Pending("put", o)

\* After any crash, an object in the index has a manifest and all its chunks,
\* and no later GC takes one (README invariants 2 and 4).
RecoveredReadable ==
    up = "up" =>
        \A o \in Objects : idx[o] > 0 => o \in manifests /\ ChunksOf(o) \subseteq blobs

\* Replaying records that the saved counts already contain may count a
\* reference twice, but never loses one (Journal.Replay after persist).
RecoveredCovered ==
    up = "up" => \A c \in Chunks : Cardinality(Holders(c)) <= refs[c]

\* The journal is for recovering from a crash (Table.AttachJournal), and half a
\* record at its end is discarded (Journal.Replay): Open succeeds after any
\* crash.
OpenSucceeds == up # "failed"

\* Half a record inside the journal is the one thing that keeps Open from
\* succeeding: without it no replay meets a count below zero, whatever crashed
\* or failed before (Journal.Replay).
OpenFailsOnlyOnTorn ==
    up = "failed" => \E i \in 1..Len(journal) - 1 : journal[i] = Torn

\* Only complete manifests enter the index (index.Record, README invariant 4):
\* an indexed object has its manifest, after crashes too.
IndexedHasManifest == up = "up" => \A o \in Objects : idx[o] > 0 => o \in manifests

\* A crash leaves no object without its manifest except one whose own Delete it
\* cut short, though all calls write one another's records to the index file
\* (applyDelete removes the manifest before it saves the index).
OnlyStruckIncomplete ==
    up = "up" => \A o \in Objects : idx[o] > 0 /\ o \notin manifests => o \in struck
=============================================================================
