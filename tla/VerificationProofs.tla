------------------------- MODULE VerificationProofs -------------------------
(***************************************************************************)
(* The calls that look disturb nobody: without them, what the other calls  *)
(* do is a behavior of ShardStore on fewer clients, so all that is proved  *)
(* of ShardStore holds here.                                               *)
(***************************************************************************)
EXTENDS Verification, TLAPS

\* The clients that do not look, and a variable of the calls seen by them.
Callers == Clients \ Lookers
Seen(f) == [p \in Callers |-> f[p]]

\* The store as it is without the Lookers.
Store == INSTANCE StoreRefinementProofs WITH
    Clients <- Callers, shared <- shared \ Lookers,
    pc <- Seen(pc), op <- Seen(op), obj <- Seen(obj), pos <- Seen(pos),
    seen <- Seen(seen), out <- Seen(out)

\* Its constants are such as its theorems assume.
LEMMA StoreConstants ==
    /\ ChunkIDs \in [Objects -> Seq(Chunks)]
    /\ NoClient \notin Callers /\ NoObject \notin Objects
    /\ Store!IsFiniteSet(Objects)
    /\ Memory \in BOOLEAN /\ AutoGC \in BOOLEAN
    /\ Ops \subseteq Store!AllOps /\ MaxUse \in Nat
    /\ Failing \subseteq Store!FaultKinds /\ MaxFaults \in Nat
  BY ChunkIDsAssumption, NoneAssumption, FiniteAssumption, ModeAssumption, BoundsAssumption
     DEF Callers, IsFiniteSet, Store!IsFiniteSet, AllOps, Store!AllOps, FaultKinds,
         Store!FaultKinds

-----------------------------------------------------------------------------
(* The inductive invariant *)

\* The variables of the calls are functions on the clients.
Domains ==
    /\ pc = [p \in Clients |-> pc[p]] /\ op = [p \in Clients |-> op[p]]
    /\ obj = [p \in Clients |-> obj[p]] /\ pos = [p \in Clients |-> pos[p]]
    /\ seen = [p \in Clients |-> seen[p]] /\ out = [p \in Clients |-> out[p]]
    /\ listed = [p \in Clients |-> listed[p]]

\* A memory store has no journal whose appends could fail.
NoLostAppend == NoFault({"add", "sub"})

LookPCs == {"look", "load", "check", "list", "next"}
LookOps == {"stat", "verify", "verifyall"}

\* The kind, argument, cursor and answer of a call that looks fit the step it is
\* at, and it has the read lock while it looks.
Shape(p) ==
    /\ pc[p] \in {"idle", "rlock", "rwait", "enter", "finish"} \cup LookPCs
    /\ IF pc[p] = "idle" THEN op[p] = "none" /\ obj[p] = NoObject ELSE op[p] \in LookOps
    /\ pc[p] = "look" => op[p] \in {"stat", "verify"}
    /\ pc[p] = "load" => op[p] = "verify"
    /\ pc[p] = "check" => op[p] \in {"verify", "verifyall"} /\ obj[p] \in Objects
                          /\ pos[p] \in 1..(NEntries(obj[p]) + 1)
    /\ pc[p] \in {"list", "next"} => op[p] = "verifyall"
    /\ op[p] \in {"stat", "verify"} => obj[p] \in Objects
    /\ IF pc[p] = "finish" THEN out[p] \in {"ok", "closed", "notfound", "gone"}
       ELSE out[p] = "none"
    /\ p \in shared <=> pc[p] \in {"enter", "finish"} \cup LookPCs

\* Only a VerifyAll has a list, and checks an object of it; the chunks of all
\* that a call has seen in the index are present.
Sights(p) ==
    /\ listed[p] \in SUBSET Objects
    /\ listed[p] # {} => op[p] = "verifyall" /\ pc[p] \in {"check", "next"}
    /\ pc[p] = "check" /\ op[p] = "verifyall" => obj[p] \in listed[p]
    /\ pc[p] \in {"load", "check"} => ChunksOf(obj[p]) \subseteq blobs
    /\ \A o \in listed[p] : ChunksOf(o) \subseteq blobs

\* Nobody looks while a GC or Close is alone.
LookFence == \A p \in Callers : Exclusive(p) => \A q \in Lookers : q \notin shared

LookInv == /\ Domains /\ NoLostAppend /\ Store!StoreInv /\ Store!AnswerInv
           /\ \A p \in Lookers : Shape(p) /\ Sights(p)
           /\ \A p \in Callers : listed[p] = {}
           /\ LookFence

-----------------------------------------------------------------------------
(* The other calls *)

\* A step of a call that does not look is the same step of the store without
\* the Lookers.
LEMMA CallerStep ==
    ASSUME LookInv, NEW p \in Callers, Call(p) \/ Step(p) \/ Failure(p)
    PROVE  Store!Call(p) \/ Store!Step(p) \/ Store!Failure(p)
<1>0. Domains
  BY DEF LookInv
<1> USE <1>0 DEF Domains, Seen, Callers, Goto, Store!Goto, Answer, Store!Answer,
   storeVars, Store!storeVars, fileVars, Store!fileVars, diskVars, Store!diskVars,
   lockVars, Store!lockVars, callVars, Store!callVars, ExclOps, Store!ExclOps,
   NEntries, Store!NEntries, Slot, Store!Slot, Rec, Store!Rec, Torn, Store!Torn,
   Log, Store!Log, Fault, Store!Fault, AfterPersist, Store!AfterPersist
<1>1. ASSUME CallShared(p) PROVE Store!CallShared(p)
  <2>1. \A o \in Objects : Putting(o) = Store!Putting(o)
    BY DEF Putting, Store!Putting, LookInv, Shape, LookOps
  <2>2. \A S : Cardinality(S) = Store!Cardinality(S)
    BY DEF Cardinality, Store!Cardinality
  <2>3. PICK k \in Ops \cap {"put", "delete", "get"}, o \in Objects :
            /\ k = "put" => idx[o] + Cardinality(Putting(o)) < MaxUse
            /\ op' = [op EXCEPT ![p] = k]
            /\ obj' = [obj EXCEPT ![p] = o]
    BY <1>1 DEF CallShared
  <2>4. k = "put" => idx[o] + Store!Cardinality(Store!Putting(o)) < MaxUse
    BY <2>1, <2>2, <2>3
  <2>5. /\ Seen(op)' = [Seen(op) EXCEPT ![p] = k] /\ Seen(obj)' = [Seen(obj) EXCEPT ![p] = o]
        /\ Seen(pc)[p] = "idle" /\ Seen(pc)' = [Seen(pc) EXCEPT ![p] = "rlock"]
        /\ Seen(pos)' = Seen(pos) /\ Seen(seen)' = Seen(seen) /\ Seen(out)' = Seen(out)
    BY <1>1, <2>3 DEF CallShared
  <2>6. \E k1 \in Ops \cap {"put", "delete", "get"}, o1 \in Objects :
            /\ k1 = "put" => idx[o1] + Store!Cardinality(Store!Putting(o1)) < MaxUse
            /\ Seen(op)' = [Seen(op) EXCEPT ![p] = k1]
            /\ Seen(obj)' = [Seen(obj) EXCEPT ![p] = o1]
    <3> HIDE DEF Seen
    <3> QED BY <2>3, <2>4, <2>5
  <2> QED BY <1>1, <2>5, <2>6 DEF CallShared, Store!CallShared
<1>2. ASSUME Enter(p) PROVE Store!Enter(p)
  <2> DEFINE l == CASE op[p] = "put" -> "put_chunks" [] op[p] = "delete" -> "del_lock"
                    [] op[p] = "get" -> "get_look"
  <2>1. pc' = [pc EXCEPT ![p] = l]
    BY <1>2 DEF Enter
  <2> HIDE DEF l
  <2>2. Seen(pc)' = [Seen(pc) EXCEPT ![p] = l]
    BY <2>1
  <2> USE DEF l
  <2>3. Seen(pc)' = [Seen(pc) EXCEPT ![p] =
             CASE Seen(op)[p] = "put" -> "put_chunks" [] Seen(op)[p] = "delete" -> "del_lock"
               [] Seen(op)[p] = "get" -> "get_look"]
    BY <2>2, Zenon
  <2> QED BY <1>2, <2>3 DEF Enter, Store!Enter
<1>3. ASSUME CallExclusive(p) \/ RLock(p) \/ EnterClosed(p) \/ Finish(p)
      PROVE  Store!CallExclusive(p) \/ Store!RLock(p) \/ Store!EnterClosed(p) \/
             Store!Finish(p)
  BY <1>3, ZenonT(60) DEF CallExclusive, Store!CallExclusive, RLock, Store!RLock, EnterClosed,
     Store!EnterClosed, Finish, Store!Finish
<1>4. ASSUME PutChunk(p) \/ PutLock(p) \/ PutBump(p) \/ PutUndo(p)
      PROVE  Store!PutChunk(p) \/ Store!PutLock(p) \/ Store!PutBump(p) \/
             Store!PutUndo(p)
  BY <1>4 DEF PutChunk, Store!PutChunk, PutLock, Store!PutLock, PutBump, Store!PutBump,
     PutUndo, Store!PutUndo
<1>5. ASSUME PutManifest(p) \/ PutAddRef(p) \/ PutIndex(p) \/ DeleteLock(p)
      PROVE  Store!PutManifest(p) \/ Store!PutAddRef(p) \/ Store!PutIndex(p) \/
             Store!DeleteLock(p)
  BY <1>5, ZenonT(60) DEF PutManifest, Store!PutManifest, PutAddRef, Store!PutAddRef, PutIndex,
     Store!PutIndex, DeleteLock, Store!DeleteLock
<1>6. ASSUME DeleteDec(p) \/ DeleteSubRef(p) \/ DeleteUnderflow(p) \/ DeleteIndex(p)
      PROVE  Store!DeleteDec(p) \/ Store!DeleteSubRef(p) \/ Store!DeleteUnderflow(p) \/
             Store!DeleteIndex(p)
  BY <1>6 DEF DeleteDec, Store!DeleteDec, DeleteSubRef, Store!DeleteSubRef,
     DeleteUnderflow, Store!DeleteUnderflow, DeleteIndex, Store!DeleteIndex
<1>7. ASSUME DeleteManifest(p) \/ PersistRefs(p) \/ PersistTruncate(p) \/ GetLookup(p)
      PROVE  Store!DeleteManifest(p) \/ Store!PersistRefs(p) \/ Store!PersistTruncate(p) \/
             Store!GetLookup(p)
  BY <1>7 DEF DeleteManifest, Store!DeleteManifest, PersistRefs, Store!PersistRefs,
     PersistTruncate, Store!PersistTruncate, GetLookup, Store!GetLookup
<1>8. ASSUME GetLoad(p) \/ ReadChunk(p) \/ CloseReader(p) \/ WLockAnnounce(p)
      PROVE  Store!GetLoad(p) \/ Store!ReadChunk(p) \/ Store!CloseReader(p) \/
             Store!WLockAnnounce(p)
  BY <1>8 DEF GetLoad, Store!GetLoad, ReadChunk, Store!ReadChunk, CloseReader,
     Store!CloseReader, WLockAnnounce, Store!WLockAnnounce
<1>9. ASSUME WLockClosed(p) \/ GCBegin(p) \/ GCSweep(p) \/ GCEnd(p)
      PROVE  Store!WLockClosed(p) \/ Store!GCBegin(p) \/ Store!GCSweep(p) \/
             Store!GCEnd(p)
  BY <1>9 DEF WLockClosed, Store!WLockClosed, GCBegin, Store!GCBegin, GCSweep,
     Store!GCSweep, GCEnd, Store!GCEnd
<1>10. ASSUME CloseBegin(p) \/ WUnlock(p) PROVE Store!CloseBegin(p) \/ Store!WUnlock(p)
  BY <1>10, ZenonT(60) DEF CloseBegin, Store!CloseBegin, WUnlock, Store!WUnlock
<1>11. ASSUME CallFail(p) \/ PutAddRefFail(p)
      PROVE  Store!CallFail(p) \/ Store!PutAddRefFail(p)
  BY <1>11 DEF CallFail, Store!CallFail, PutAddRefFail, Store!PutAddRefFail
<1>12. ASSUME DeleteSubRefFail(p) \/ DeleteManifestFail(p) \/ PersistFail(p)
      PROVE  Store!DeleteSubRefFail(p) \/ Store!DeleteManifestFail(p) \/
             Store!PersistFail(p)
  BY <1>12 DEF DeleteSubRefFail, Store!DeleteSubRefFail, DeleteManifestFail,
     Store!DeleteManifestFail, PersistFail, Store!PersistFail
<1>13. ASSUME GCFail(p) \/ GCSkip(p) PROVE Store!GCFail(p) \/ Store!GCSkip(p)
  BY <1>13 DEF GCFail, Store!GCFail, GCSkip, Store!GCSkip
<1>14. ASSUME PersistBegin(p) PROVE Store!PersistBegin(p)
  BY <1>14 DEF PersistBegin, Store!PersistBegin, PersistMemory, Store!PersistMemory,
     PersistIndex, Store!PersistIndex
<1> QED BY <1>1, <1>2, <1>3, <1>4, <1>5, <1>6, <1>7, <1>8, <1>9, <1>10, <1>11, <1>12,
   <1>13, <1>14
   DEF Call, Store!Call, Step, Store!Step, Failure, Store!Failure, PutStep, Store!PutStep,
       DeleteStep, Store!DeleteStep, PersistStep, Store!PersistStep, GetStep, Store!GetStep, ExclStep, Store!ExclStep

\* What a step of a call that does not look leaves to those that do: their own
\* variables, except that a WUnlock lets the waiting ones in.  It begins to be
\* alone only when nobody is inside, and removes chunks only when it is alone.
OwnCall(p) ==
    /\ Domains'
    /\ \A q \in Clients \ {p} : /\ pc'[q] = pc[q] /\ op'[q] = op[q] /\ obj'[q] = obj[q]
                               /\ pos'[q] = pos[q] /\ seen'[q] = seen[q] /\ out'[q] = out[q]
    /\ shared' \ {p} = shared \ {p}

StartsAlone(p) == Exclusive(p)' => Exclusive(p) \/ shared = {}

\* Every such step but a WUnlock is so.
LEMMA CallerFrames ==
    ASSUME LookInv, NEW p \in Callers, Call(p) \/ Step(p) \/ Failure(p), UNCHANGED listed,
           ~WUnlock(p)
    PROVE  /\ OwnCall(p) /\ StartsAlone(p) /\ NoLostAppend'
           /\ blobs \subseteq blobs' \/ Exclusive(p)
<1>1. /\ pc[p] \in ExclPCs => op[p] \in ExclOps
      /\ pc[p] \in PutPCs \cup DeletePCs \cup GetPCs \cup {"finish"} => op[p] \notin ExclOps
      /\ pc[p] = "enter" => op[p] \in {"put", "delete", "get"}
      /\ faults \in Seq(FaultKinds)
  BY DEF LookInv, Store!StoreInv, Store!Typing, Store!CallInv, Store!ExclPCs, ExclPCs,
     Store!ExclOps, ExclOps, Store!TypeOK, Store!StoreTypes, Store!FaultKinds, FaultKinds, Seen,
     Store!PutPCs, PutPCs, Store!DeletePCs, DeletePCs, Store!GetPCs, GetPCs, Store!FencePCs
<1>2. Domains /\ NoLostAppend
  BY DEF LookInv
<1>3. \A k \in FaultKinds \ {"add", "sub"} : faults' = Append(faults, k) => NoLostAppend'
  BY <1>1, <1>2 DEF NoLostAppend, NoFault, FaultKinds
<1>4. UNCHANGED faults => NoLostAppend'
  BY <1>2 DEF NoLostAppend, NoFault
<1> HIDE DEF NoLostAppend
<1> DEFINE Alone == StartsAlone(p)
           Frame == OwnCall(p)
           Chunk == blobs \subseteq blobs' \/ Exclusive(p)
           Good == Frame /\ Alone /\ NoLostAppend' /\ Chunk
<1> USE DEF Goto, Answer, AfterPersist, storeVars, fileVars, diskVars, lockVars, callVars,
   OwnCall, StartsAlone, Exclusive, Domains, Callers, ExclOps, ExclPCs, SavePCs, PutPCs,
   DeletePCs, GetPCs
<1>5. ASSUME CallShared(p) \/ CallExclusive(p) \/ RLock(p) PROVE Good
  <2>1. Frame
    BY <1>2, <1>5 DEF CallShared, CallExclusive, RLock
  <2>2. Alone /\ Chunk
    BY <1>1, <1>2, <1>5 DEF CallShared, CallExclusive, RLock
  <2>3. NoLostAppend'
    BY <1>3, <1>4, <1>5, MemoryAssumption DEF CallShared, CallExclusive, RLock, Fault,
       FaultKinds
  <2> QED BY <2>1, <2>2, <2>3
<1>6. ASSUME EnterClosed(p) \/ Enter(p) \/ Finish(p) PROVE Good
  <2>1. Frame
    BY <1>2, <1>6 DEF EnterClosed, Enter, Finish
  <2>2. Alone /\ Chunk
    BY <1>1, <1>2, <1>6 DEF EnterClosed, Enter, Finish
  <2>3. NoLostAppend'
    BY <1>3, <1>4, <1>6, MemoryAssumption DEF EnterClosed, Enter, Finish, Fault, FaultKinds
  <2> QED BY <2>1, <2>2, <2>3
<1>7. ASSUME PutChunk(p) \/ PutLock(p) \/ PutBump(p) PROVE Good
  <2>1. Frame
    BY <1>2, <1>7 DEF PutChunk, PutLock, PutBump
  <2>2. Alone /\ Chunk
    BY <1>1, <1>2, <1>7 DEF PutChunk, PutLock, PutBump
  <2>3. NoLostAppend'
    BY <1>3, <1>4, <1>7, MemoryAssumption DEF PutChunk, PutLock, PutBump, Fault, FaultKinds
  <2> QED BY <2>1, <2>2, <2>3
<1>8. ASSUME PutUndo(p) \/ PutManifest(p) \/ PutAddRef(p) PROVE Good
  <2>1. Frame
    BY <1>2, <1>8 DEF PutUndo, PutManifest, PutAddRef
  <2>2. Alone /\ Chunk
    BY <1>1, <1>2, <1>8 DEF PutUndo, PutManifest, PutAddRef
  <2>3. NoLostAppend'
    BY <1>3, <1>4, <1>8, MemoryAssumption DEF PutUndo, PutManifest, PutAddRef, Fault,
       FaultKinds
  <2> QED BY <2>1, <2>2, <2>3
<1>9. ASSUME PutIndex(p) \/ DeleteLock(p) \/ DeleteDec(p) PROVE Good
  <2>1. Frame
    BY <1>2, <1>9 DEF PutIndex, DeleteLock, DeleteDec
  <2>2. Alone /\ Chunk
    BY <1>1, <1>2, <1>9 DEF PutIndex, DeleteLock, DeleteDec
  <2>3. NoLostAppend'
    BY <1>3, <1>4, <1>9, MemoryAssumption DEF PutIndex, DeleteLock, DeleteDec, Fault,
       FaultKinds
  <2> QED BY <2>1, <2>2, <2>3
<1>10. ASSUME DeleteSubRef(p) \/ DeleteUnderflow(p) \/ DeleteIndex(p) PROVE Good
  <2>1. Frame
    BY <1>2, <1>10 DEF DeleteSubRef, DeleteUnderflow, DeleteIndex
  <2>2. Alone /\ Chunk
    BY <1>1, <1>2, <1>10 DEF DeleteSubRef, DeleteUnderflow, DeleteIndex
  <2>3. NoLostAppend'
    BY <1>3, <1>4, <1>10, MemoryAssumption DEF DeleteSubRef, DeleteUnderflow, DeleteIndex,
       Fault, FaultKinds
  <2> QED BY <2>1, <2>2, <2>3
<1>11. ASSUME DeleteManifest(p) \/ PersistMemory(p) PROVE Good
  <2>1. Frame
    BY <1>2, <1>11 DEF DeleteManifest, PersistMemory
  <2>2. Alone /\ Chunk
    BY <1>1, <1>2, <1>11 DEF DeleteManifest, PersistMemory
  <2>3. NoLostAppend'
    BY <1>3, <1>4, <1>11, MemoryAssumption DEF DeleteManifest, PersistMemory, Fault,
       FaultKinds
  <2> QED BY <2>1, <2>2, <2>3
<1>12. ASSUME PersistIndex(p) PROVE Good
  <2>1. Frame
    BY <1>2, <1>12 DEF PersistIndex
  <2>2. Alone /\ Chunk
    BY <1>1, <1>2, <1>12 DEF PersistIndex
  <2>3. NoLostAppend'
    BY <1>3, <1>4, <1>12, MemoryAssumption DEF PersistIndex, Fault, FaultKinds
  <2> QED BY <2>1, <2>2, <2>3
<1>13. ASSUME PersistRefs(p) \/ PersistTruncate(p) PROVE Good
  <2>1. Frame
    BY <1>2, <1>13 DEF PersistRefs, PersistTruncate
  <2>2. Alone /\ Chunk
    BY <1>1, <1>2, <1>13 DEF PersistRefs, PersistTruncate
  <2>3. NoLostAppend'
    BY <1>3, <1>4, <1>13, MemoryAssumption DEF PersistRefs, PersistTruncate, Fault,
       FaultKinds
  <2> QED BY <2>1, <2>2, <2>3
<1>14. ASSUME GetLookup(p) \/ GetLoad(p) \/ ReadChunk(p) \/ CloseReader(p) PROVE Good
  <2>1. Frame
    BY <1>2, <1>14 DEF GetLookup, GetLoad, ReadChunk, CloseReader
  <2>2. Alone /\ Chunk
    BY <1>1, <1>2, <1>14 DEF GetLookup, GetLoad, ReadChunk, CloseReader
  <2>3. NoLostAppend'
    BY <1>3, <1>4, <1>14, MemoryAssumption DEF GetLookup, GetLoad, ReadChunk, CloseReader,
       Fault, FaultKinds
  <2> QED BY <2>1, <2>2, <2>3
<1>15. ASSUME WLockAnnounce(p) \/ WLockClosed(p) \/ GCBegin(p) PROVE Good
  <2>1. Frame
    BY <1>2, <1>15 DEF WLockAnnounce, WLockClosed, GCBegin
  <2>2. Alone /\ Chunk
    BY <1>1, <1>2, <1>15 DEF WLockAnnounce, WLockClosed, GCBegin
  <2>3. NoLostAppend'
    BY <1>3, <1>4, <1>15, MemoryAssumption DEF WLockAnnounce, WLockClosed, GCBegin, Fault,
       FaultKinds
  <2> QED BY <2>1, <2>2, <2>3
<1>16. ASSUME GCSweep(p) PROVE Good
  <2>1. Frame
    BY <1>2, <1>16 DEF GCSweep
  <2>2. Alone /\ Chunk
    BY <1>1, <1>2, <1>16 DEF GCSweep
  <2>3. NoLostAppend'
    BY <1>3, <1>4, <1>16, MemoryAssumption DEF GCSweep, Fault, FaultKinds
  <2> QED BY <2>1, <2>2, <2>3
<1>17. ASSUME GCEnd(p) \/ CloseBegin(p) PROVE Good
  <2>1. Frame
    BY <1>2, <1>17 DEF GCEnd, CloseBegin
  <2>2. Alone /\ Chunk
    BY <1>1, <1>2, <1>17 DEF GCEnd, CloseBegin
  <2>3. NoLostAppend'
    BY <1>3, <1>4, <1>17, MemoryAssumption DEF GCEnd, CloseBegin, Fault, FaultKinds
  <2> QED BY <2>1, <2>2, <2>3
<1>18. ASSUME CallFail(p) \/ PutAddRefFail(p) PROVE Good
  <2>1. Frame
    BY <1>2, <1>18 DEF CallFail, PutAddRefFail
  <2>2. Alone /\ Chunk
    BY <1>1, <1>2, <1>18 DEF CallFail, PutAddRefFail
  <2>3. NoLostAppend'
    BY <1>3, <1>4, <1>18, MemoryAssumption DEF CallFail, PutAddRefFail, Fault, FaultKinds
  <2> QED BY <2>1, <2>2, <2>3
<1>19. ASSUME DeleteSubRefFail(p) \/ DeleteManifestFail(p) PROVE Good
  <2>1. Frame
    BY <1>2, <1>19 DEF DeleteSubRefFail, DeleteManifestFail
  <2>2. Alone /\ Chunk
    BY <1>1, <1>2, <1>19 DEF DeleteSubRefFail, DeleteManifestFail
  <2>3. NoLostAppend'
    BY <1>3, <1>4, <1>19, MemoryAssumption DEF DeleteSubRefFail, DeleteManifestFail, Fault,
       FaultKinds
  <2> QED BY <2>1, <2>2, <2>3
<1>20. ASSUME PersistFail(p) PROVE Good
  <2>1. Frame
    BY <1>2, <1>20 DEF PersistFail
  <2>2. Alone /\ Chunk
    BY <1>1, <1>2, <1>20 DEF PersistFail
  <2>3. NoLostAppend'
    BY <1>3, <1>4, <1>20, MemoryAssumption DEF PersistFail, Fault, FaultKinds
  <2> QED BY <2>1, <2>2, <2>3
<1>21. ASSUME GCFail(p) \/ GCSkip(p) PROVE Good
  <2>1. Frame
    BY <1>2, <1>21 DEF GCFail, GCSkip
  <2>2. Alone /\ Chunk
    BY <1>1, <1>2, <1>21 DEF GCFail, GCSkip
  <2>3. NoLostAppend'
    BY <1>3, <1>4, <1>21, MemoryAssumption DEF GCFail, GCSkip, Fault, FaultKinds
  <2> QED BY <2>1, <2>2, <2>3
<1> QED BY <1>5, <1>6, <1>7, <1>8, <1>9, <1>10, <1>11, <1>12, <1>13, <1>14, <1>15, <1>16,
   <1>17, <1>18, <1>19, <1>20, <1>21
   DEF Call, Step, Failure, PutStep, DeleteStep, PersistStep, PersistBegin, GetStep,
      ExclStep

-----------------------------------------------------------------------------
(* The calls that look *)

LookerStep(p) == \/ (RLock(p) \/ EnterClosed(p) \/ Finish(p)) /\ UNCHANGED listed
                 \/ CallLook(p) \/ LookStep(p)

\* How the lookup in the index ends.
LEMMA LookCases ==
    ASSUME NEW p, Look(p), op[p] \in {"stat", "verify"}, idx[obj[p]] \in Nat
    PROVE  \/ Conclude(p, "notfound") /\ idx[obj[p]] = 0
           \/ Conclude(p, "ok") /\ op[p] = "stat" /\ idx[obj[p]] > 0
           \/ out' = out /\ Goto(p, "load") /\ op[p] = "verify" /\ idx[obj[p]] > 0
<1>1. CASE idx[obj[p]] = 0
  BY <1>1 DEF Look
<1>2. CASE idx[obj[p]] > 0 /\ op[p] = "stat"
  BY <1>2 DEF Look
<1>3. CASE idx[obj[p]] > 0 /\ op[p] = "verify"
  BY <1>3 DEF Look
<1> QED BY <1>1, <1>2, <1>3

\* A call that looks changes its own variables and its read lock, nothing else.
LEMMA LookerFrames ==
    ASSUME LookInv, NEW p \in Lookers, LookerStep(p)
    PROVE  /\ OwnCall(p) /\ \A q \in Clients \ {p} : listed'[q] = listed[q]
           /\ UNCHANGED <<storeVars, fileVars, diskVars, writer, objLock, persistM, todo, faults>>
<1> DEFINE Own == OwnCall(p) /\ \A q \in Clients \ {p} : listed'[q] = listed[q]
           Rest == UNCHANGED <<storeVars, fileVars, diskVars, writer, objLock, persistM,
                               todo, faults>>
<1>1. Domains
  BY DEF LookInv
<1> USE DEF OwnCall, Domains, Goto, Answer, Conclude, storeVars, fileVars, diskVars,
   lockVars,
   callVars
<1>2. ASSUME Finish(p), UNCHANGED listed PROVE Own /\ Rest
  <2>1. \A o \in Objects : objLock[o] # p
    BY LookersAssumption, NoneAssumption DEF LookInv, Store!StoreInv, Store!Typing,
       Store!TypeOK, Store!LockTypes, Callers
  <2>2. objLock' = objLock
    BY <1>2, <2>1 DEF Finish, LookInv, Store!StoreInv, Store!Typing, Store!TypeOK,
       Store!LockTypes
  <2> QED BY <1>1, <1>2, <2>2 DEF Finish
<1>3. ASSUME RLock(p) \/ EnterClosed(p), UNCHANGED listed PROVE Own /\ Rest
  BY <1>1, <1>3 DEF RLock, EnterClosed
<1>4. ASSUME CallLook(p) \/ EnterLook(p) \/ List(p) \/ AllChecked(p) PROVE Own /\ Rest
  BY <1>1, <1>4 DEF CallLook, EnterLook, List, AllChecked
<1>5. ASSUME Look(p) PROVE Own /\ Rest
  <2>1. op[p] \in {"stat", "verify"} /\ idx[obj[p]] \in Nat
    BY <1>5 DEF Look, LookInv, Shape, Store!StoreInv, Store!Typing, Store!TypeOK,
       Store!StoreTypes
  <2>2. \/ Conclude(p, "notfound") \/ Conclude(p, "ok")
        \/ out' = out /\ Goto(p, "load") /\ op[p] = "verify" /\ idx[obj[p]] > 0
    <3> HIDE DEF Conclude, Goto
    <3> QED BY <1>5, <2>1, LookCases
  <2> QED BY <1>1, <1>5, <2>2 DEF Look
<1>6. ASSUME Load(p) \/ CheckChunk(p) PROVE Own /\ Rest
  BY <1>1, <1>6 DEF Load, CheckChunk
<1>7. ASSUME Report(p) PROVE Own /\ Rest
  <2>1. op[p] \in {"verify", "verifyall"} /\ out[p] = "none"
    BY <1>7 DEF Report, LookInv, Shape
  <2> QED BY <1>1, <1>7, <2>1 DEF Report
<1>8. ASSUME LoadNext(p) PROVE Own /\ Rest
  BY <1>1, <1>8 DEF LoadNext
<1> QED BY <1>2, <1>3, <1>4, <1>5, <1>6, <1>7, <1>8 DEF LookerStep, LookStep

\* So the store without it does not move.
LEMMA LookerHidden ==
    ASSUME LookInv, NEW p \in Lookers, LookerStep(p)
    PROVE  UNCHANGED Store!vars
<1>1. /\ OwnCall(p)
      /\ UNCHANGED <<storeVars, fileVars, diskVars, writer, objLock, persistM, todo, faults>>
  BY LookerFrames
<1>2. \A q \in Callers : q \in Clients \ {p}
  BY DEF Callers
<1>3. /\ Seen(pc)' = Seen(pc) /\ Seen(op)' = Seen(op) /\ Seen(obj)' = Seen(obj)
      /\ Seen(pos)' = Seen(pos) /\ Seen(seen)' = Seen(seen) /\ Seen(out)' = Seen(out)
  BY <1>1, <1>2 DEF OwnCall, Seen
<1>4. (shared \ Lookers)' = shared \ Lookers
  BY <1>1 DEF OwnCall
<1> QED BY <1>1, <1>3, <1>4 DEF storeVars, fileVars, diskVars, Store!vars, Store!storeVars,
           Store!fileVars, Store!diskVars, Store!lockVars, Store!callVars

\* Each of its steps leads where the invariant holds of it.
LEMMA LookerKeeps ==
    ASSUME LookInv, NEW p \in Lookers, LookerStep(p)
    PROVE  Shape(p)' /\ Sights(p)' /\ (p \in shared' => p \in shared \/ writer = NoClient)
<1> DEFINE Here == Shape(p)' /\ Sights(p)' /\ (p \in shared' => p \in shared \/ writer = NoClient)
<1>1. Domains /\ Shape(p) /\ Sights(p) /\ p \in Clients
  BY LookersAssumption DEF LookInv
<1>2. UNCHANGED <<idx, closed, blobs, manifests, writer>>
  BY LookerFrames DEF storeVars, fileVars
<1>3. \A o \in Objects : /\ idx[o] \in Nat /\ NEntries(o) \in Nat
                         /\ idx[o] > 0 => o \in manifests /\ ChunksOf(o) \subseteq blobs
  BY ChunkIDsAssumption DEF LookInv, NoLostAppend, NoFault, Store!StoreInv, Store!ChunkInv,
     Store!VisibleReadable, Store!NoFault, Store!Typing, Store!TypeOK, Store!StoreTypes,
     ChunksOf, Store!ChunksOf, Slot, Store!Slot, NEntries, Store!NEntries
<1> USE DEF Shape, LookPCs, LookOps, Domains, Goto, Answer, Conclude, storeVars, fileVars,
   diskVars, lockVars, callVars
<1>4. Sights(p)' <=> /\ listed'[p] \in SUBSET Objects
                     /\ listed'[p] # {} => op'[p] = "verifyall" /\ pc'[p] \in {"check", "next"}
                     /\ pc'[p] = "check" /\ op'[p] = "verifyall" => obj'[p] \in listed'[p]
                     /\ pc'[p] \in {"load", "check"} => ChunksOf(obj'[p]) \subseteq blobs
                     /\ \A o \in listed'[p] : ChunksOf(o) \subseteq blobs
  BY <1>2 DEF Sights, ChunksOf
<1>5. ASSUME CallLook(p) PROVE Here
  BY <1>1, <1>2, <1>4, <1>5 DEF CallLook, Sights
<1>6. ASSUME RLock(p), UNCHANGED listed PROVE Here
  BY <1>1, <1>2, <1>4, <1>6 DEF RLock, Sights
<1>7. ASSUME EnterClosed(p), UNCHANGED listed PROVE Here
  BY <1>1, <1>2, <1>4, <1>7 DEF EnterClosed, Sights
<1>8. ASSUME EnterLook(p) PROVE Here
  BY <1>1, <1>2, <1>4, <1>8 DEF EnterLook, Sights
<1>9. ASSUME Look(p) PROVE Here
  <2>1. op[p] \in {"stat", "verify"} /\ obj[p] \in Objects /\ idx[obj[p]] \in Nat
    BY <1>1, <1>3, <1>9 DEF Look
  <2>2. \/ Conclude(p, "notfound") \/ Conclude(p, "ok")
        \/ out' = out /\ Goto(p, "load") /\ op[p] = "verify" /\ idx[obj[p]] > 0
    <3> HIDE DEF Conclude, Goto
    <3> QED BY <1>9, <2>1, LookCases
  <2> QED BY <1>1, <1>2, <1>3, <1>4, <1>9, <2>1, <2>2 DEF Look, Sights
<1>10. ASSUME Load(p) PROVE Here
  BY <1>1, <1>2, <1>3, <1>4, <1>10 DEF Load, Sights
<1>11. ASSUME CheckChunk(p) PROVE Here
  <2>1. Slot(obj[p], pos[p]) \in blobs
    BY <1>1, <1>3, <1>11 DEF CheckChunk, Sights, ChunksOf
  <2> QED BY <1>1, <1>2, <1>3, <1>4, <1>11, <2>1 DEF CheckChunk, Sights
<1>12. ASSUME Report(p) PROVE Here
  <2>1. op[p] \in {"verify", "verifyall"} /\ out[p] = "none"
    BY <1>1, <1>12 DEF Report
  <2>2. listed' = [listed EXCEPT ![p] = @ \ {obj[p]}]
    BY <1>12, <2>1 DEF Report
  <2> QED BY <1>1, <1>2, <1>4, <1>12, <2>1, <2>2, ZenonT(60) DEF Report, Sights
<1>13. ASSUME List(p) PROVE Here
  BY <1>1, <1>2, <1>3, <1>4, <1>13 DEF List, Sights
<1>14. ASSUME LoadNext(p) PROVE Here
  BY <1>1, <1>2, <1>3, <1>4, <1>14 DEF LoadNext, Sights
<1>15. ASSUME AllChecked(p) PROVE Here
  BY <1>1, <1>2, <1>4, <1>15 DEF AllChecked, Sights
<1>16. ASSUME Finish(p), UNCHANGED listed PROVE Here
  BY <1>1, <1>2, <1>4, <1>16 DEF Finish, Sights
<1> QED BY <1>5, <1>6, <1>7, <1>8, <1>9, <1>10, <1>11, <1>12, <1>13, <1>14, <1>15, <1>16
       DEF LookerStep, LookStep

-----------------------------------------------------------------------------
(* The invariant *)

\* When a GC or Close releases the write lock, the calls that wait to look get
\* the read lock, and nobody is alone.
LEMMA Unlocked ==
    ASSUME LookInv, NEW p \in Callers, WUnlock(p), UNCHANGED listed
    PROVE  /\ Domains' /\ \A r \in Callers : ~Exclusive(r)'
           /\ \A q \in Lookers :
                 /\ pc'[q] = IF pc[q] = "rwait" THEN "enter" ELSE pc[q]
                 /\ q \in shared' <=> pc[q] = "rwait"
                 /\ q \notin shared
                 /\ op'[q] = op[q] /\ obj'[q] = obj[q] /\ pos'[q] = pos[q] /\ out'[q] = out[q]
           /\ UNCHANGED <<blobs, faults>>
<1>1. Domains /\ p \in Clients /\ p \notin Lookers /\ Lookers \subseteq Clients
  BY LookersAssumption DEF LookInv, Callers
<1>2. /\ op[p] \in ExclOps /\ pc[p] = "wunlock"
      /\ \A r \in Callers : writer = r <=> (pc[r] = "wwait" \/ Exclusive(r))
  BY DEF WUnlock, LookInv, Store!StoreInv, Store!Typing, Store!CallInv, Store!Discipline,
     Store!FenceInv, Store!Exclusive, Exclusive, Store!ExclPCs, Store!ExclOps, ExclOps,
     Store!SavePCs, SavePCs, Seen
<1>3. Exclusive(p) /\ \A r \in Callers : Exclusive(r) => r = p
  BY <1>2 DEF Exclusive
<1>4. \A q \in Lookers : q \notin shared
  BY <1>3 DEF LookInv, LookFence
<1>5. /\ pc' = [q \in Clients |-> IF q = p THEN "idle"
                                  ELSE IF pc[q] = "rwait" THEN "enter" ELSE pc[q]]
      /\ op' = [op EXCEPT ![p] = "none"] /\ shared' = {q \in Clients : pc[q] = "rwait"}
      /\ obj' = [obj EXCEPT ![p] = NoObject] /\ out' = [out EXCEPT ![p] = "none"]
      /\ UNCHANGED <<pos, seen, blobs, faults>>
  BY DEF WUnlock, Answer, fileVars
<1>6. Domains'
  BY <1>1, <1>5 DEF Domains
<1>7. \A r \in Callers : ~Exclusive(r)'
  BY <1>1, <1>3, <1>5 DEF Exclusive, SavePCs, Domains, Callers
<1> QED BY <1>1, <1>4, <1>5, <1>6, <1>7

\* A step of a call that does not look, or of the store without the Lookers,
\* keeps what is known of that store.
LEMMA StoreKeeps ==
    LookInv /\ [Store!Next]_(Store!vars) => Store!StoreInv' /\ Store!AnswerInv'
  BY StoreConstants, Store!StoreInvStep, Store!AnswerStep DEF LookInv, Store!StoreInv

\* What a call that looks has seen stays so while it keeps its variables and no
\* chunk is removed, or none it relies on.
LEMMA SightsKept ==
    ASSUME NEW q, Sights(q), pc'[q] = pc[q] \/ pc'[q] = "enter",
           op'[q] = op[q], obj'[q] = obj[q], listed'[q] = listed[q],
           \/ blobs \subseteq blobs' /\ pc'[q] = pc[q]
           \/ pc[q] \notin {"load", "check", "next"}
    PROVE  Sights(q)'
<1>1. CASE blobs \subseteq blobs' /\ pc'[q] = pc[q]
  <2>1. \A o : ChunksOf(o) \subseteq blobs => ChunksOf(o) \subseteq blobs'
    BY <1>1
  <2>2. \A o : ChunksOf(o)' = ChunksOf(o)
    BY DEF ChunksOf, Slot, NEntries
  <2>3. /\ listed'[q] \in SUBSET Objects
        /\ listed'[q] # {} => op'[q] = "verifyall" /\ pc'[q] \in {"check", "next"}
        /\ pc'[q] = "check" /\ op'[q] = "verifyall" => obj'[q] \in listed'[q]
        /\ pc'[q] \in {"load", "check"} => ChunksOf(obj'[q]) \subseteq blobs'
        /\ \A o \in listed'[q] : ChunksOf(o) \subseteq blobs'
    BY <1>1, <2>1 DEF Sights
  <2> QED BY <2>3 DEF Sights, ChunksOf, Slot, NEntries
<1>2. CASE pc[q] \notin {"load", "check", "next"}
  <2>1. listed[q] = {} /\ pc'[q] \notin {"load", "check", "next"}
    BY <1>2 DEF Sights
  <2> QED BY <2>1 DEF Sights
<1> QED BY <1>1, <1>2

\* A step of a call that does not look is one of the store without the Lookers,
\* and keeps the invariant.
LEMMA CallerInvStep ==
    ASSUME LookInv, NEW p \in Callers, Call(p) \/ Step(p) \/ Failure(p), UNCHANGED listed
    PROVE  Store!Next /\ LookInv'
<1>1. Store!Next
  BY CallerStep DEF Store!Next
<1>2. Store!StoreInv' /\ Store!AnswerInv'
  BY <1>1, StoreKeeps
<1>3. /\ p \in Clients /\ p \notin Lookers /\ Lookers \subseteq Clients
      /\ \A q \in Lookers : Shape(q) /\ Sights(q) /\ (Exclusive(p) => q \notin shared)
      /\ \A r \in Callers : listed[r] = {}
  BY LookersAssumption DEF LookInv, LookFence, Callers
<1>4. CASE ~WUnlock(p)
  <2>1. /\ OwnCall(p) /\ StartsAlone(p) /\ NoLostAppend'
        /\ blobs \subseteq blobs' \/ Exclusive(p)
    BY <1>4, CallerFrames
  <2>2. ASSUME NEW q \in Lookers PROVE Shape(q)' /\ Sights(q)'
    <3>1. /\ pc'[q] = pc[q] /\ op'[q] = op[q] /\ obj'[q] = obj[q] /\ pos'[q] = pos[q]
          /\ out'[q] = out[q] /\ listed' = listed /\ (q \in shared' <=> q \in shared)
      BY <1>3, <2>1 DEF OwnCall
    <3>2. Shape(q)'
      BY <1>3, <3>1 DEF Shape, NEntries
    <3>3. Exclusive(p) => pc[q] \notin {"load", "check", "next"}
      BY <1>3 DEF Shape, LookPCs
    <3>4. Sights(q)'
      BY <1>3, <2>1, <3>1, <3>3, SightsKept
    <3> QED BY <3>2, <3>4
  <2>3. LookFence'
    <3> SUFFICES ASSUME NEW r \in Callers, Exclusive(r)', NEW q \in Lookers
                 PROVE  q \notin shared'
      BY DEF LookFence
    <3>1. q \in shared' <=> q \in shared
      BY <1>3, <2>1 DEF OwnCall
    <3>2. CASE r = p
      BY <1>3, <2>1, <3>1, <3>2 DEF StartsAlone
    <3>3. CASE r # p
      <4>1. Exclusive(r)
        BY <2>1, <3>3 DEF OwnCall, Exclusive, Callers
      <4> QED BY <3>1, <4>1 DEF LookInv, LookFence
    <3> QED BY <3>2, <3>3
  <2>4. Domains' /\ \A r \in Callers : listed'[r] = {}
    BY <1>3, <2>1 DEF OwnCall
  <2> QED BY <1>1, <1>2, <2>1, <2>2, <2>3, <2>4 DEF LookInv
<1>5. CASE WUnlock(p)
  <2>1. /\ Domains' /\ (\A r \in Callers : ~Exclusive(r)') /\ UNCHANGED <<blobs, faults>>
        /\ \A q \in Lookers :
              /\ pc'[q] = IF pc[q] = "rwait" THEN "enter" ELSE pc[q]
              /\ q \in shared' <=> pc[q] = "rwait"
              /\ q \notin shared
              /\ op'[q] = op[q] /\ obj'[q] = obj[q] /\ pos'[q] = pos[q] /\ out'[q] = out[q]
    BY <1>5, Unlocked
  <2>2. NoLostAppend'
    BY <2>1 DEF LookInv, NoLostAppend, NoFault
  <2>3. ASSUME NEW q \in Lookers PROVE Shape(q)' /\ Sights(q)'
    <3>1. Shape(q)'
      BY <1>3, <2>1 DEF Shape, LookPCs
    <3>2. pc[q] \notin {"load", "check", "next"}
      BY <1>3, <2>1 DEF Shape, LookPCs
    <3>3. Sights(q)'
      BY <1>3, <2>1, <3>2, SightsKept
    <3> QED BY <3>1, <3>3
  <2>4. \A r \in Callers : listed'[r] = {}
    BY <1>3
  <2>5. LookFence'
    BY <2>1 DEF LookFence
  <2> QED BY <1>1, <1>2, <2>1, <2>2, <2>3, <2>4, <2>5 DEF LookInv
<1> QED BY <1>1, <1>4, <1>5

\* A step of a call that looks keeps the invariant.
LEMMA LookerInvStep ==
    ASSUME LookInv, NEW p \in Lookers, LookerStep(p)
    PROVE  LookInv'
<1>1. UNCHANGED Store!vars
  BY LookerHidden
<1>2. Store!StoreInv' /\ Store!AnswerInv'
  BY <1>1, StoreKeeps
<1>3. /\ OwnCall(p) /\ \A q \in Clients \ {p} : listed'[q] = listed[q]
      /\ UNCHANGED <<blobs, writer, faults>>
  BY LookerFrames DEF fileVars
<1>4. Shape(p)' /\ Sights(p)' /\ (p \in shared' => p \in shared \/ writer = NoClient)
  BY LookerKeeps
<1>5. NoLostAppend'
  BY <1>3 DEF LookInv, NoLostAppend, NoFault
<1>6. ASSUME NEW q \in Lookers, q # p PROVE Shape(q)' /\ Sights(q)'
  <2>1. /\ pc'[q] = pc[q] /\ op'[q] = op[q] /\ obj'[q] = obj[q] /\ pos'[q] = pos[q]
        /\ out'[q] = out[q] /\ listed'[q] = listed[q] /\ (q \in shared' <=> q \in shared)
    BY <1>3, <1>6, LookersAssumption DEF OwnCall
  <2>2. Shape(q) /\ Sights(q)
    BY DEF LookInv
  <2> QED BY <1>3, <2>1, <2>2 DEF Shape, Sights, ChunksOf
<1>7. \A r \in Callers : listed'[r] = {}
  BY <1>3 DEF LookInv, Callers
<1>8. LookFence'
  <2> SUFFICES ASSUME NEW r \in Callers, Exclusive(r)', NEW q \in Lookers
               PROVE  q \notin shared'
    BY DEF LookFence
  <2>1. Exclusive(r)
    BY <1>3 DEF OwnCall, Exclusive, Callers
  <2>2. writer = r /\ r # NoClient
    BY <2>1, NoneAssumption DEF LookInv, Store!StoreInv, Store!Discipline, Store!FenceInv,
       Store!Exclusive, Exclusive, Store!ExclOps, ExclOps, Store!SavePCs, SavePCs, Seen, Callers
  <2>3. \A s \in Lookers : s \notin shared
    BY <2>1 DEF LookInv, LookFence
  <2>4. shared' \ {p} = shared \ {p}
    BY <1>3 DEF OwnCall
  <2> QED BY <1>4, <2>2, <2>3, <2>4
<1> QED BY <1>2, <1>3, <1>4, <1>5, <1>6, <1>7, <1>8 DEF LookInv, OwnCall

\* Only the Lookers look.
LEMMA LooksOnly ==
    ASSUME LookInv, NEW p \in Clients, CallLook(p) \/ LookStep(p)
    PROVE  p \in Lookers
<1>1. p \in Callers => pc[p] \notin {"look", "load", "check", "list", "next"}
  BY DEF LookInv, Store!StoreInv, Store!Typing, Store!TypeOK, Store!CallTypes, Store!PCs,
     Store!FencePCs, Store!PutPCs, Store!DeletePCs, Store!GetPCs, Store!SavePCs,
     Store!ExclPCs, Seen
<1> QED BY <1>1 DEF Callers, CallLook, LookStep, EnterLook, Look, Load, CheckChunk, Report,
           List, LoadNext, AllChecked

\* Every step keeps the invariant, and is a step of the store without the
\* Lookers or leaves it alone.
LEMMA LookInvStep == LookInv /\ [LookNext]_lookVars => LookInv' /\ [Store!Next]_(Store!vars)
<1> SUFFICES ASSUME LookInv, [LookNext]_lookVars
             PROVE  LookInv' /\ [Store!Next]_(Store!vars)
  OBVIOUS
<1>1. ASSUME NEW p \in Clients, p \notin Lookers, Call(p) \/ Step(p) \/ Failure(p),
             UNCHANGED listed
      PROVE  LookInv' /\ Store!Next
  BY <1>1, CallerInvStep DEF Callers
<1>2. ASSUME NEW p \in Lookers, LookerStep(p) PROVE LookInv' /\ UNCHANGED Store!vars
  BY <1>2, LookerInvStep, LookerHidden
<1>3. ASSUME NEW p \in Clients, CallLook(p) \/ LookStep(p) PROVE p \in Lookers
  BY <1>3, LooksOnly
<1>4. CASE UNCHANGED lookVars
  <2>1. UNCHANGED Store!vars
    BY <1>4 DEF lookVars, vars, storeVars, fileVars, diskVars, lockVars, callVars,
       Store!vars,
       Store!storeVars, Store!fileVars, Store!diskVars, Store!lockVars, Store!callVars, Seen
  <2>2. Store!StoreInv' /\ Store!AnswerInv'
    BY <2>1, StoreKeeps
  <2>3. UNCHANGED <<blobs, shared, faults, pc, op, obj, pos, seen, out, listed>>
    BY <1>4 DEF lookVars, vars, fileVars, lockVars, callVars
  <2>4. Domains' /\ NoLostAppend' /\ LookFence'
    BY <2>3 DEF LookInv, Domains, NoLostAppend, NoFault, LookFence, Exclusive
  <2>5. ASSUME NEW q \in Lookers PROVE Shape(q)' /\ Sights(q)'
    <3>1. Shape(q) /\ Sights(q)
      BY DEF LookInv
    <3> QED BY <2>3, <3>1, SightsKept DEF Shape, NEntries
  <2>6. \A r \in Callers : listed'[r] = {}
    BY <2>3 DEF LookInv
  <2> QED BY <2>1, <2>2, <2>4, <2>5, <2>6 DEF LookInv
<1> QED BY <1>1, <1>2, <1>3, <1>4 DEF LookNext, LookerStep

\* It holds of a store just opened.
LEMMA LookInvInit == LookInit => LookInv /\ Store!Init
<1> SUFFICES ASSUME LookInit PROVE LookInv /\ Store!Init
  OBVIOUS
<1>1. Store!Init
  BY DEF LookInit, Init, Store!Init, Seen, Callers
<1>2. Store!StoreInv
  BY <1>1, StoreConstants, Store!StoreInvInit
<1>3. Store!AnswerInv
  BY DEF Store!AnswerInv, LookInit, Init, Seen, Callers
<1>4. Domains /\ NoLostAppend /\ LookFence /\ \A p \in Callers : listed[p] = {}
  BY DEF LookInit, Init, Domains, NoLostAppend, NoFault, LookFence, Exclusive, Callers
<1>5. ASSUME NEW p \in Lookers PROVE Shape(p) /\ Sights(p)
  BY LookersAssumption DEF LookInit, Init, Shape, Sights, LookPCs
<1> QED BY <1>1, <1>2, <1>3, <1>4, <1>5 DEF LookInv

\* However many calls look, and whatever they meet, the others do only what they
\* could do without them: no Put, Delete, Get, GC or Close has an effect or an
\* answer because of a Verify, VerifyAll, Stat or Has, though it may have to wait
\* for one at the fence.
THEOREM CallersUndisturbed == LookSpec => Store!Spec
<1>1. LookInit => LookInv /\ Store!Init
  BY LookInvInit
<1>2. LookInv /\ [LookNext]_lookVars => LookInv' /\ [Store!Next]_(Store!vars)
  BY LookInvStep
<1> QED BY <1>1, <1>2, PTL DEF LookSpec, Store!Spec

\* Every chunk with a reference is in the backend, at every moment (AssertSafe).
THEOREM CountedChunksPresent == LookSpec => []ReferencedPresent
<1>1. LookInv => ReferencedPresent
  <2> SUFFICES ASSUME LookInv, NEW c \in Chunks, refs[c] > 0 PROVE c \in blobs
    BY DEF ReferencedPresent, Safe, Live
  <2>1. Store!StoreInv /\ Store!NoFault({"add", "sub"})
    BY DEF LookInv, NoLostAppend, NoFault, Store!NoFault
  <2> QED BY <2>1, StoreConstants, Store!CountedPresent
<1> QED BY <1>1, LookInvInit, LookInvStep, PTL DEF LookSpec

\* With no object locked the counts cover the index: MarkLive finds nothing to
\* repair, and no orphan is a chunk of an indexed object.
THEOREM CountsNeedNoRepair == LookSpec => []NothingToRepair
<1>1. LookInv => NothingToRepair
  <2> SUFFICES ASSUME LookInv, \A o \in Objects : objLock[o] = NoClient
               PROVE  Marked = refs /\ Orphans \cap Reachable = {}
    BY DEF NothingToRepair
  <2>1. /\ Store!StoreInv /\ Store!NoFault({"sub"})
        /\ refs \in [Chunks -> Nat] /\ idx \in [Objects -> Nat]
    BY DEF LookInv, NoLostAppend, NoFault, Store!NoFault, Store!StoreInv, Store!Typing,
       Store!TypeOK, Store!StoreTypes
  <2>2. ASSUME NEW c \in Reachable PROVE refs[c] > 0
    <3>1. PICK o \in Objects : idx[o] > 0 /\ c \in ChunksOf(o)
      BY DEF Reachable
    <3>2. c \in Store!ChunksOf(o)
      BY <3>1 DEF ChunksOf, Store!ChunksOf, Slot, Store!Slot, NEntries, Store!NEntries
    <3> QED BY <2>1, <3>1, <3>2, StoreConstants, Store!QuietReferenced
  <2>3. \A c \in Chunks : Marked[c] = refs[c]
    BY <2>1, <2>2 DEF Marked
  <2> QED BY <2>1, <2>2, <2>3 DEF Marked, Orphans
<1> QED BY <1>1, LookInvInit, LookInvStep, PTL DEF LookSpec

-----------------------------------------------------------------------------
(* What callers see, those that look included *)

\* The calls, their arguments and their phases, as LooksImplementObjectStore
\* reads them off.
Calling == [p \in Clients |-> IF p \in Lookers THEN op[p] ELSE CallOf(p)]
Target == [p \in Clients |-> IF op[p] = "verifyall" THEN NoObject ELSE obj[p]]
Stage == [p \in Clients |-> IF p \in Lookers THEN LookPhase(p) ELSE Phase(p)]

LookAbsStep == [WithLooks!AbsNext]_(WithLooks!absVars)

\* A step that callers among some clients do not notice.
Still(S) ==
    \A q \in S : Stage'[q] = Stage[q] /\ Calling'[q] = Calling[q] /\ Target'[q] = Target[q]

\* The calls that do not look are at the same phase without the Lookers.
LEMMA SamePhases ==
    \A p \in Callers : Store!Phase(p) = Phase(p) /\ Store!CallOf(p) = CallOf(p)
<1> TAKE p \in Callers
<1>1. Seen(op)[p] = op[p] /\ Seen(pc)[p] = pc[p] /\ Seen(out)[p] = out[p]
  BY DEF Seen
<1>2. Store!CallOf(p) = CallOf(p)
  BY <1>1 DEF CallOf, Store!CallOf
<1>3. \A r : Store!AnswerPhase(r) = AnswerPhase(r)
  BY DEF Store!AnswerPhase, AnswerPhase
<1>4. Store!Phase(p) = Phase(p)
  BY <1>1, <1>3 DEF Phase, Store!Phase, SavePCs, Store!SavePCs
<1> QED BY <1>2, <1>4

\* The same in the next state.
LEMMA SamePhasesNext ==
    (\A p \in Callers : Store!Phase(p) = Phase(p) /\ Store!CallOf(p) = CallOf(p))'
  BY SamePhases, PTL

\* A call that does not look is none of those that do.
LEMMA NoLookCalls ==
    ASSUME LookInv, NEW p \in Callers
    PROVE  CallOf(p) # "verifyall" /\ op[p] # "verifyall"
<1>1. op[p] \in {"put", "delete", "get", "gc", "close", "autogc", "none"}
  BY DEF LookInv, Store!StoreInv, Store!Typing, Store!TypeOK, Store!CallTypes,
     Store!AllOps, Seen
<1> QED BY <1>1 DEF CallOf

\* The same in the next state.
LEMMA NoLookCallsNext ==
    ASSUME LookInv', NEW p \in Callers
    PROVE  op'[p] # "verifyall"
<1>1. op'[p] \in {"put", "delete", "get", "gc", "close", "autogc", "none"}
  BY DEF LookInv, Store!StoreInv, Store!Typing, Store!TypeOK, Store!CallTypes,
     Store!AllOps, Seen
<1> QED BY <1>1

\* A call moves as it does without the Lookers, which do not notice.
LEMMA LiftMove ==
    ASSUME Still(Lookers), NEW p \in Callers, NEW S, NEW to, Store!Abstract!Move(p, S, to)
    PROVE  WithLooks!Move(p, S, to)
<1>1. /\ Store!Phase(p) \in S
      /\ [r \in Callers |-> Store!Phase(r)]'
           = [[r \in Callers |-> Store!Phase(r)] EXCEPT ![p] = to]
  BY DEF Store!Abstract!Move
<1>2. /\ Phase(p) \in S
      /\ [r \in Callers |-> Phase(r)]' = [[r \in Callers |-> Phase(r)] EXCEPT ![p] = to]
  BY <1>1, SamePhases, SamePhasesNext
<1>3. \A r \in Callers : Phase(r)' = IF r = p THEN to ELSE Phase(r)
  BY <1>2
<1>4. Stage[p] \in S /\ Stage' = [Stage EXCEPT ![p] = to]
  BY <1>2, <1>3, LookersAssumption DEF Stage, Still, Callers
<1> QED BY <1>4 DEF WithLooks!Move, Stage

\* So do the calls made ...
LEMMA LiftCall ==
    ASSUME Still(Lookers), NEW p \in Callers, NEW k,
           [q \in Callers |-> Store!CallOf(q)]'
              = [[q \in Callers |-> Store!CallOf(q)] EXCEPT ![p] = k]
    PROVE  Calling' = [Calling EXCEPT ![p] = k]
<1>1. [q \in Callers |-> CallOf(q)]' = [[q \in Callers |-> CallOf(q)] EXCEPT ![p] = k]
  BY SamePhases, SamePhasesNext
<1>2. \A q \in Callers : CallOf(q)' = IF q = p THEN k ELSE CallOf(q)
  BY <1>1
<1> QED BY <1>2, LookersAssumption DEF Calling, Still, Callers

\* ... and not made ...
LEMMA LiftCalls ==
    ASSUME Still(Lookers),
           [q \in Callers |-> Store!CallOf(q)]' = [q \in Callers |-> Store!CallOf(q)]
    PROVE  Calling' = Calling
<1>1. [q \in Callers |-> CallOf(q)]' = [q \in Callers |-> CallOf(q)]
  BY SamePhases, SamePhasesNext
<1>2. \A q \in Callers : CallOf(q)' = CallOf(q)
  BY <1>1
<1> QED BY <1>2, LookersAssumption DEF Calling, Still, Callers

\* ... and their arguments.
LEMMA LiftTarget ==
    ASSUME LookInv, LookInv', Still(Lookers), NEW p \in Callers, NEW o,
           Seen(obj)' = [Seen(obj) EXCEPT ![p] = o]
    PROVE  Target' = [Target EXCEPT ![p] = o]
<1>1. \A q \in Callers : obj'[q] = IF q = p THEN o ELSE obj[q]
  BY DEF Seen
<1>2. \A q \in Callers : op[q] # "verifyall" /\ op'[q] # "verifyall"
  BY NoLookCalls, NoLookCallsNext
<1>3. \A q \in Callers : Target'[q] = IF q = p THEN o ELSE Target[q]
  BY <1>1, <1>2 DEF Target, Callers
<1>4. \A q \in Clients : Target'[q] = IF q = p THEN o ELSE Target[q]
  BY <1>3 DEF Still, Callers
<1> QED BY <1>4 DEF Target, Callers

\* No argument changes.
LEMMA LiftTargets ==
    ASSUME LookInv, LookInv', Still(Lookers), Seen(obj)' = Seen(obj)
    PROVE  Target' = Target
<1>1. \A q \in Callers : obj'[q] = obj[q]
  BY DEF Seen
<1>2. \A q \in Callers : op[q] # "verifyall" /\ op'[q] # "verifyall"
  BY NoLookCalls, NoLookCallsNext
<1>3. \A q \in Clients : Target'[q] = Target[q]
  BY <1>1, <1>2 DEF Target, Callers, Still
<1> QED BY <1>3 DEF Target

\* Every step of the object store without the Lookers is one with them, if they
\* do not notice it, and a Close comes when none of them has an object open.
LEMMA LiftStep ==
    ASSUME LookInv, LookInv', Still(Lookers), UNCHANGED listed, Store!AbsStep,
           closed' = closed \/ \A q \in Lookers : Stage[q] \notin {"sighted", "open"}
    PROVE  LookAbsStep
<1> DEFINE SeenCall == [q \in Callers |-> Store!CallOf(q)]
           Same == Calling' = Calling
           SameT == Target' = Target
<1>1. ASSUME SeenCall' = SeenCall PROVE Calling' = Calling
  BY <1>1, LiftCalls
<1>2. ASSUME Seen(obj)' = Seen(obj) PROVE Target' = Target
  BY <1>2, LiftTargets
<1>3. ASSUME NEW p \in Callers
      PROVE  /\ Calling[p] = SeenCall[p] /\ Target[p] = Seen(obj)[p] /\ p \in Clients
             /\ SeenCall[p] # "verifyall"
  BY SamePhases, NoLookCalls DEF Calling, Target, Callers, Seen
<1>4. ASSUME NEW p \in Callers, Store!Abstract!Start(p) PROVE WithLooks!Start(p)
  <2>1. WithLooks!Move(p, {"idle"}, "pending")
    BY <1>4, LiftMove DEF Store!Abstract!Start
  <2>2. CASE \E k \in Store!Abstract!Calls, o \in Objects :
               /\ SeenCall' = [SeenCall EXCEPT ![p] = k]
               /\ Seen(obj)' = [Seen(obj) EXCEPT ![p] = o]
    <3>1. PICK k \in Store!Abstract!Calls, o \in Objects :
               /\ SeenCall' = [SeenCall EXCEPT ![p] = k]
               /\ Seen(obj)' = [Seen(obj) EXCEPT ![p] = o]
      BY <2>2
    <3>2. Calling' = [Calling EXCEPT ![p] = k] /\ Target' = [Target EXCEPT ![p] = o]
      BY <3>1, LiftCall, LiftTarget
    <3>3. k \in WithLooks!Calls
      BY <3>1 DEF Store!Abstract!Calls, WithLooks!Calls
    <3> QED BY <1>4, <2>1, <3>2, <3>3 DEF Store!Abstract!Start, WithLooks!Start, Calling,
       Target
  <2>3. CASE SeenCall' = [SeenCall EXCEPT ![p] = "verifyall"] /\ Seen(obj)' = Seen(obj)
    <3>1. Calling' = [Calling EXCEPT ![p] = "verifyall"] /\ Target' = Target
      BY <1>2, <2>3, LiftCall
    <3> QED BY <1>4, <2>1, <3>1 DEF Store!Abstract!Start, WithLooks!Start, Calling, Target
  <2> QED BY <1>4, <2>2, <2>3 DEF Store!Abstract!Start
<1>5. ASSUME NEW p \in Callers, Store!Abstract!PutEffect(p) PROVE WithLooks!PutEffect(p)
  <2>1. WithLooks!Move(p, {"pending"}, "done") /\ Calling' = Calling /\ Target' = Target
    BY <1>1, <1>2, <1>5, LiftMove DEF Store!Abstract!PutEffect
  <2> QED BY <1>3, <1>5, <2>1 DEF Store!Abstract!PutEffect, WithLooks!PutEffect, Calling,
     Target
<1>6. ASSUME NEW p \in Callers, Store!Abstract!DeleteEffect(p)
      PROVE  WithLooks!DeleteEffect(p)
  <2>1. WithLooks!Move(p, {"pending"}, "done") /\ Calling' = Calling /\ Target' = Target
    BY <1>1, <1>2, <1>6, LiftMove DEF Store!Abstract!DeleteEffect
  <2> QED BY <1>3, <1>6, <2>1 DEF Store!Abstract!DeleteEffect, WithLooks!DeleteEffect,
     Calling, Target
<1>7. ASSUME NEW p \in Callers, Store!Abstract!Sight(p) PROVE WithLooks!Sight(p)
  <2>1. WithLooks!Move(p, {"pending"}, "sighted") /\ Calling' = Calling /\ Target' = Target
    BY <1>1, <1>2, <1>7, LiftMove DEF Store!Abstract!Sight
  <2> QED BY <1>3, <1>7, <2>1 DEF Store!Abstract!Sight, WithLooks!Sight, Calling, Target
<1>8. ASSUME NEW p \in Callers, Store!Abstract!OpenReader(p) PROVE WithLooks!OpenReader(p)
  <2>1. WithLooks!Move(p, {"sighted"}, "open") /\ Calling' = Calling /\ Target' = Target
    BY <1>1, <1>2, <1>8, LiftMove DEF Store!Abstract!OpenReader
  <2> QED BY <1>3, <1>8, <2>1 DEF Store!Abstract!OpenReader, WithLooks!OpenReader, Calling,
     Target
<1>9. ASSUME NEW p \in Callers, Store!Abstract!CloseHandle(p) PROVE WithLooks!CloseHandle(p)
  <2>1. WithLooks!Move(p, {"open"}, "done") /\ Calling' = Calling /\ Target' = Target
    BY <1>1, <1>2, <1>9, LiftMove DEF Store!Abstract!CloseHandle
  <2>2. listed[p] = {}
    BY DEF LookInv
  <2> QED BY <1>3, <1>9, <2>1, <2>2 DEF Store!Abstract!CloseHandle, WithLooks!CloseHandle,
     Calling, Target
<1>10. ASSUME NEW p \in Callers, Store!Abstract!Look(p) PROVE WithLooks!Look(p)
  <2>1. WithLooks!Move(p, {"pending"}, "done") /\ Calling' = Calling /\ Target' = Target
    BY <1>1, <1>2, <1>10, LiftMove DEF Store!Abstract!Look
  <2> QED BY <1>3, <1>10, <2>1 DEF Store!Abstract!Look, WithLooks!Look, Calling, Target
<1>11. ASSUME NEW p \in Callers, \/ Store!Abstract!ListAll(p) \/ Store!Abstract!Checked(p)
                                 \/ Store!Abstract!Complain(p)
       PROVE  FALSE
  BY <1>3, <1>11 DEF Store!Abstract!ListAll, Store!Abstract!Checked, Store!Abstract!Complain
<1>12. ASSUME NEW p \in Callers, Store!Abstract!Miss(p) PROVE WithLooks!Miss(p)
  <2>1. WithLooks!Move(p, {"pending", "sighted"}, "missed") /\ Calling' = Calling /\ Target' = Target
    BY <1>1, <1>2, <1>12, LiftMove DEF Store!Abstract!Miss
  <2> QED BY <1>3, <1>12, <2>1 DEF Store!Abstract!Miss, WithLooks!Miss, Calling, Target,
     Store!Abstract!Calls, WithLooks!Calls
<1>13. ASSUME NEW p \in Callers, Store!Abstract!Fail(p) PROVE WithLooks!Fail(p)
  <2>1. Calling' = Calling /\ Target' = Target
    BY <1>1, <1>2, <1>13 DEF Store!Abstract!Fail
  <2>2. \/ SeenCall[p] \in {"put", "delete"} /\ WithLooks!Move(p, {"pending", "done"}, "failed")
        \/ SeenCall[p] \in {"get", "verify"} /\ WithLooks!Move(p, {"sighted"}, "failed")
    BY <1>13, LiftMove DEF Store!Abstract!Fail
  <2> QED BY <1>3, <1>13, <2>1, <2>2 DEF Store!Abstract!Fail, WithLooks!Fail, Calling,
     Target
<1>14. ASSUME NEW p \in Callers, Store!Abstract!TakeBack(p) PROVE WithLooks!TakeBack(p)
  <2>1. WithLooks!Move(p, {"done"}, "failed") /\ Calling' = Calling /\ Target' = Target
    BY <1>1, <1>2, <1>14, LiftMove DEF Store!Abstract!TakeBack
  <2> QED BY <1>3, <1>14, <2>1 DEF Store!Abstract!TakeBack, WithLooks!TakeBack, Calling,
     Target
<1>15. ASSUME NEW p \in Callers, Store!Abstract!Refuse(p) PROVE WithLooks!Refuse(p)
  <2>1. Calling' = Calling /\ Target' = Target
    BY <1>1, <1>2, <1>15 DEF Store!Abstract!Refuse
  <2>2. \/ WithLooks!Move(p, {"pending"}, "refused")
        \/ SeenCall[p] = "delete" /\ WithLooks!Move(p, {"done"}, "refused")
    BY <1>15, LiftMove DEF Store!Abstract!Refuse
  <2> QED BY <1>3, <1>15, <2>1, <2>2 DEF Store!Abstract!Refuse, WithLooks!Refuse, Calling,
     Target
<1>16. ASSUME NEW p \in Callers, Store!Abstract!Answered(p) PROVE WithLooks!Answered(p)
  <2>1. WithLooks!Move(p, {"done", "missed", "failed", "refused"}, "idle")
    BY <1>16, LiftMove DEF Store!Abstract!Answered
  <2>2. Calling' = [Calling EXCEPT ![p] = "none"] /\ Target' = [Target EXCEPT ![p] = NoObject]
    BY <1>16, LiftCall, LiftTarget DEF Store!Abstract!Answered
  <2> QED BY <1>3, <1>16, <2>1, <2>2 DEF Store!Abstract!Answered, WithLooks!Answered,
     Calling, Target
<1>17. ASSUME SeenCall' = SeenCall, Seen(obj)' = Seen(obj),
              [r \in Callers |-> Store!Phase(r)]' = [r \in Callers |-> Store!Phase(r)]
       PROVE  Calling' = Calling /\ Target' = Target /\ Stage' = Stage
  <2>1. [r \in Callers |-> Phase(r)]' = [r \in Callers |-> Phase(r)]
    BY <1>17, SamePhases, SamePhasesNext
  <2>2. \A r \in Callers : Phase(r)' = Phase(r)
    BY <2>1
  <2>3. Stage' = Stage
    BY <2>2, LookersAssumption DEF Stage, Still, Callers
  <2> QED BY <1>1, <1>2, <1>17, <2>3
<1>18. ASSUME Store!Abstract!Shut PROVE LookAbsStep
  <2>1. Calling' = Calling /\ Target' = Target /\ Stage' = Stage
    BY <1>17, <1>18 DEF Store!Abstract!Shut
  <2>2. \A p \in Callers : Stage[p] \notin {"sighted", "open"}
    BY <1>18, SamePhases DEF Store!Abstract!Shut, Stage, Callers
  <2>3. CASE closed' = closed
    <3>1. idx' = idx
      BY <1>18 DEF Store!Abstract!Shut
    <3> QED BY <2>1, <2>3, <3>1 DEF LookAbsStep, WithLooks!absVars, Calling, Target, Stage
  <2>4. CASE \A q \in Lookers : Stage[q] \notin {"sighted", "open"}
    <3>1. \A p \in Clients : Stage[p] \notin {"sighted", "open"}
      BY <2>2, <2>4 DEF Callers
    <3>2. WithLooks!Shut
      BY <1>18, <2>1, <3>1 DEF Store!Abstract!Shut, WithLooks!Shut, Calling, Target, Stage
    <3> QED BY <3>2 DEF LookAbsStep, WithLooks!AbsNext
  <2> QED BY <2>3, <2>4
<1>19. ASSUME UNCHANGED Store!Abstract!absVars PROVE LookAbsStep
  <2>1. Calling' = Calling /\ Target' = Target /\ Stage' = Stage /\ UNCHANGED <<idx, closed>>
    BY <1>17, <1>19 DEF Store!Abstract!absVars
  <2> QED BY <2>1 DEF LookAbsStep, WithLooks!absVars, Calling, Target, Stage
<1>20. Callers \subseteq Clients
  BY DEF Callers
<1> HIDE DEF SeenCall
<1> QED BY <1>4, <1>5, <1>6, <1>7, <1>8, <1>9, <1>10, <1>11, <1>12, <1>13, <1>14, <1>15,
   <1>16,
           <1>18, <1>19, <1>20
   DEF Store!AbsStep, Store!Abstract!AbsNext, LookAbsStep, WithLooks!AbsNext

\* The phase of a call that looks, step by step.
LookRow(p) ==
    /\ op[p] = "none" => LookPhase(p) = "idle"
    /\ op[p] # "none" /\ out[p] = "none" =>
         /\ pc[p] \in {"rlock", "rwait", "enter", "look", "list"} => LookPhase(p) = "pending"
         /\ pc[p] = "load" => LookPhase(p) = "sighted"
         /\ pc[p] \in {"check", "next"} => LookPhase(p) = "open"
    /\ op[p] # "none" =>
         /\ out[p] = "ok" => LookPhase(p) = "done"
         /\ out[p] = "closed" => LookPhase(p) = "refused"
         /\ out[p] \in {"notfound", "gone"} => LookPhase(p) = "missed"

\* Every call that looks has it ...
LEMMA LookRows == \A p \in Lookers : LookRow(p)
<1> TAKE p \in Lookers
<1>1. /\ AnswerPhase("ok") = "done" /\ AnswerPhase("closed") = "refused"
      /\ AnswerPhase("notfound") = "missed"
  BY DEF AnswerPhase
<1> QED BY <1>1 DEF LookRow, LookPhase

\* ... in the next state, too.
LEMMA LookRowsNext == (\A p \in Lookers : LookRow(p))'
  BY LookRows, PTL

\* What a call that looks leaves to the others, as callers see it.
LEMMA LookerStill ==
    ASSUME LookInv, NEW p \in Lookers, LookerStep(p)
    PROVE  /\ Still(Clients \ {p}) /\ UNCHANGED <<idx, closed, blobs, manifests>>
           /\ Domains /\ Domains' /\ \A q \in Clients \ {p} : listed'[q] = listed[q]
<1>1. /\ OwnCall(p) /\ \A q \in Clients \ {p} : listed'[q] = listed[q]
      /\ UNCHANGED <<idx, closed, blobs, manifests>>
  BY LookerFrames DEF storeVars, fileVars
<1>2. ASSUME NEW q \in Clients \ {p}
      PROVE  Stage'[q] = Stage[q] /\ Calling'[q] = Calling[q] /\ Target'[q] = Target[q]
  <2>1. pc'[q] = pc[q] /\ op'[q] = op[q] /\ obj'[q] = obj[q] /\ out'[q] = out[q]
    BY <1>1 DEF OwnCall
  <2>2. Phase(q)' = Phase(q) /\ LookPhase(q)' = LookPhase(q) /\ CallOf(q)' = CallOf(q)
    BY <2>1 DEF Phase, LookPhase, CallOf
  <2> QED BY <2>1, <2>2 DEF Stage, Calling, Target
<1> QED BY <1>1, <1>2 DEF Still, OwnCall, LookInv

\* It moves ...
LEMMA LookerMoved ==
    ASSUME NEW p \in Lookers, Still(Clients \ {p}), NEW S, NEW to, LookPhase(p) \in S,
           LookPhase(p)' = to
    PROVE  WithLooks!Move(p, S, to)
<1>1. Stage[p] \in S /\ Stage' = [Stage EXCEPT ![p] = to]
  BY LookersAssumption DEF Stage, Still
<1> QED BY <1>1 DEF WithLooks!Move, Stage

\* ... and keeps its call and its argument, which a VerifyAll has not.
LEMMA LookerSame ==
    ASSUME NEW p \in Lookers, Still(Clients \ {p}), op'[p] = op[p],
           obj'[p] = obj[p] \/ op[p] = "verifyall"
    PROVE  Calling' = Calling /\ Target' = Target
  BY LookersAssumption DEF Calling, Target, Still

\* Its steps are those of the object store, or go unnoticed.
LEMMA LookerAbs ==
    ASSUME LookInv, LookInv', NEW p \in Lookers, LookerStep(p)
    PROVE  LookAbsStep
<1>1. /\ Still(Clients \ {p}) /\ UNCHANGED <<idx, closed, blobs, manifests>> /\ Domains /\ Domains'
      /\ \A q \in Clients \ {p} : listed'[q] = listed[q]
  BY LookerStill
<1>2. p \in Clients /\ Shape(p) /\ Shape(p)' /\ Sights(p)
  BY LookersAssumption DEF LookInv
<1>3. LookRow(p) /\ LookRow(p)'
  BY LookRows, LookRowsNext
<1>4. op[p] = Calling[p] /\ (op[p] # "verifyall" => obj[p] = Target[p])
  BY <1>2 DEF Calling, Target
<1>5. \A o \in Objects : /\ idx[o] \in Nat
                         /\ idx[o] > 0 => o \in manifests
  BY DEF LookInv, NoLostAppend, NoFault, Store!StoreInv, Store!ChunkInv,
     Store!VisibleReadable, Store!NoFault, Store!Typing, Store!TypeOK, Store!StoreTypes
<1> DEFINE Noticed == \/ WithLooks!Start(p) \/ WithLooks!Sight(p) \/ WithLooks!OpenReader(p)
                      \/ WithLooks!Look(p) \/ WithLooks!ListAll(p) \/ WithLooks!Checked(p)
                      \/ WithLooks!Complain(p) \/ WithLooks!CloseHandle(p) \/ WithLooks!Miss(p)
                      \/ WithLooks!Refuse(p) \/ WithLooks!Answered(p)
<1>6. Noticed => LookAbsStep
  BY <1>2 DEF LookAbsStep, WithLooks!AbsNext
<1>7. ASSUME op'[p] = op[p], obj'[p] = obj[p] \/ op[p] = "verifyall", listed' = listed,
             LookPhase(p)' = LookPhase(p)
      PROVE  LookAbsStep
  <2>1. Calling' = Calling /\ Target' = Target
    BY <1>1, <1>7, LookerSame
  <2>2. Stage' = Stage
    BY <1>1, <1>2, <1>7 DEF Stage, Still
  <2> QED BY <1>1, <1>7, <2>1, <2>2 DEF LookAbsStep, WithLooks!absVars, Calling, Target,
     Stage
<1> HIDE DEF Noticed
<1>8. ASSUME CallLook(p) PROVE LookAbsStep
  <2>1. LookPhase(p) = "idle" /\ LookPhase(p)' = "pending" /\ obj[p] = NoObject
    BY <1>1, <1>2, <1>3, <1>8 DEF CallLook, LookRow, Shape, Goto, Domains
  <2>2. WithLooks!Move(p, {"idle"}, "pending")
    BY <1>1, <2>1, LookerMoved
  <2>3. CASE \E k \in {"stat", "verify"}, o \in Objects :
                /\ op' = [op EXCEPT ![p] = k]
                /\ obj' = [obj EXCEPT ![p] = o]
    <3>1. PICK k \in {"stat", "verify"}, o \in Objects :
                /\ op' = [op EXCEPT ![p] = k]
                /\ obj' = [obj EXCEPT ![p] = o]
      BY <2>3
    <3>2. op'[p] = k /\ obj'[p] = o
      BY <1>1, <1>2, <3>1 DEF Domains
    <3>3. Calling' = [Calling EXCEPT ![p] = k] /\ Target' = [Target EXCEPT ![p] = o]
      BY <1>1, <1>2, <3>2 DEF Calling, Target, Still
    <3>4. WithLooks!Start(p)
      BY <1>1, <1>8, <2>2, <3>3 DEF CallLook, WithLooks!Start, WithLooks!Calls, Calling,
         Target
    <3> QED BY <1>6, <3>4 DEF Noticed
  <2>4. CASE op' = [op EXCEPT ![p] = "verifyall"] /\ UNCHANGED obj
    <3>1. op'[p] = "verifyall"
      BY <1>1, <1>2, <2>4 DEF Domains
    <3>2. Calling' = [Calling EXCEPT ![p] = "verifyall"] /\ Target' = Target
      BY <1>1, <1>2, <2>1, <2>4, <3>1, ZenonT(60) DEF Calling, Target, Still
    <3>3. WithLooks!Start(p)
      BY <1>1, <1>8, <2>2, <3>2 DEF CallLook, WithLooks!Start, Calling, Target
    <3> QED BY <1>6, <3>3 DEF Noticed
  <2> QED BY <1>8, <2>3, <2>4 DEF CallLook
<1>9. ASSUME RLock(p) \/ EnterLook(p), UNCHANGED listed PROVE LookAbsStep
  <2>1. /\ op'[p] = op[p] /\ obj'[p] = obj[p] /\ listed' = listed
        /\ out'[p] = out[p] /\ out[p] = "none" /\ op[p] # "none"
        /\ pc[p] \in {"rlock", "enter"} /\ pc'[p] \in {"rwait", "enter", "look", "list"}
    BY <1>1, <1>2, <1>9 DEF RLock, EnterLook, Goto, Domains, callVars, Shape, LookOps
  <2> QED BY <1>3, <1>7, <2>1 DEF LookRow
<1>10. ASSUME EnterClosed(p), UNCHANGED listed PROVE LookAbsStep
  <2>1. /\ op'[p] = op[p] /\ obj'[p] = obj[p] /\ listed' = listed /\ closed
        /\ out[p] = "none" /\ op[p] # "none" /\ pc[p] = "enter" /\ out'[p] = "closed"
    BY <1>1, <1>2, <1>10 DEF EnterClosed, Goto, Answer, Domains, Shape, LookOps
  <2>2. WithLooks!Move(p, {"pending"}, "refused")
    BY <1>1, <1>3, <2>1, LookerMoved DEF LookRow
  <2>3. Calling' = Calling /\ Target' = Target
    BY <1>1, <2>1, LookerSame
  <2>4. WithLooks!Refuse(p)
    BY <1>1, <2>1, <2>2, <2>3 DEF WithLooks!Refuse, Calling, Target
  <2> QED BY <1>6, <2>4 DEF Noticed
<1>11. ASSUME Finish(p), UNCHANGED listed PROVE LookAbsStep
  <2>1. /\ op'[p] = "none" /\ obj'[p] = NoObject /\ op[p] # "none"
        /\ out[p] \in {"ok", "closed", "notfound", "gone"}
    BY <1>1, <1>2, <1>11 DEF Finish, Goto, Answer, Domains, Shape, LookOps
  <2>2. LookPhase(p) \in {"done", "missed", "failed", "refused"} /\ LookPhase(p)' = "idle"
    BY <1>3, <2>1 DEF LookRow
  <2>3. WithLooks!Move(p, {"done", "missed", "failed", "refused"}, "idle")
    BY <1>1, <2>2, LookerMoved
  <2>4. Calling' = [Calling EXCEPT ![p] = "none"] /\ Target' = [Target EXCEPT ![p] = NoObject]
    BY <1>1, <1>2, <2>1 DEF Calling, Target, Still
  <2>5. WithLooks!Answered(p)
    BY <1>1, <1>11, <2>3, <2>4 DEF WithLooks!Answered, Calling, Target
  <2> QED BY <1>6, <2>5 DEF Noticed
<1>12. ASSUME Look(p) PROVE LookAbsStep
  <2>1. /\ op[p] \in {"stat", "verify"} /\ obj[p] \in Objects /\ idx[obj[p]] \in Nat
        /\ op'[p] = op[p] /\ obj'[p] = obj[p] /\ listed' = listed /\ out[p] = "none"
        /\ pc[p] = "look" /\ LookPhase(p) = "pending"
    BY <1>2, <1>3, <1>5, <1>12 DEF Look, Shape, LookRow
  <2>2. Calling' = Calling /\ Target' = Target
    BY <1>1, <2>1, LookerSame
  <2>3. CASE Conclude(p, "notfound") /\ idx[obj[p]] = 0
    <3>1. out'[p] = "notfound"
      BY <1>1, <1>2, <2>3 DEF Conclude, Answer, Domains
    <3>2. WithLooks!Move(p, {"pending", "sighted"}, "missed")
      BY <1>1, <1>3, <2>1, <3>1, LookerMoved DEF LookRow
    <3>3. WithLooks!Miss(p)
      BY <1>1, <1>4, <2>1, <2>2, <2>3, <3>2 DEF WithLooks!Miss, WithLooks!Calls, Calling,
         Target
    <3> QED BY <1>6, <3>3 DEF Noticed
  <2>4. CASE Conclude(p, "ok") /\ op[p] = "stat" /\ idx[obj[p]] > 0
    <3>1. out'[p] = "ok"
      BY <1>1, <1>2, <2>4 DEF Conclude, Answer, Domains
    <3>2. WithLooks!Move(p, {"pending"}, "done")
      BY <1>1, <1>3, <2>1, <3>1, LookerMoved DEF LookRow
    <3>3. WithLooks!Look(p)
      BY <1>1, <1>4, <2>1, <2>2, <2>4, <3>2 DEF WithLooks!Look, Calling, Target
    <3> QED BY <1>6, <3>3 DEF Noticed
  <2>5. CASE out' = out /\ Goto(p, "load") /\ op[p] = "verify" /\ idx[obj[p]] > 0
    <3>1. out'[p] = "none" /\ pc'[p] = "load"
      BY <1>1, <1>2, <2>1, <2>5 DEF Goto, Domains
    <3>2. WithLooks!Move(p, {"pending"}, "sighted")
      BY <1>1, <1>3, <2>1, <3>1, LookerMoved DEF LookRow
    <3>3. WithLooks!Sight(p)
      BY <1>1, <1>4, <2>1, <2>2, <2>5, <3>2 DEF WithLooks!Sight, Calling, Target
    <3> QED BY <1>6, <3>3 DEF Noticed
  <2> HIDE DEF Conclude, Goto
  <2> QED BY <1>12, <2>1, <2>3, <2>4, <2>5, LookCases
<1>13. ASSUME Load(p) PROVE LookAbsStep
  <2>1. /\ op[p] = "verify" /\ obj[p] \in Objects /\ pc[p] = "load" /\ out[p] = "none"
        /\ op'[p] = op[p] /\ obj'[p] = obj[p] /\ listed' = listed /\ LookPhase(p) = "sighted"
    BY <1>2, <1>3, <1>13 DEF Load, Shape, LookRow
  <2>2. Calling' = Calling /\ Target' = Target
    BY <1>1, <2>1, LookerSame
  <2>3. CASE obj[p] \in manifests
    <3>1. out'[p] = "none" /\ pc'[p] = "check"
      BY <1>1, <1>2, <1>13, <2>1, <2>3 DEF Load, Goto, Domains
    <3>2. WithLooks!Move(p, {"sighted"}, "open")
      BY <1>1, <1>3, <2>1, <3>1, LookerMoved DEF LookRow
    <3>3. WithLooks!OpenReader(p)
      BY <1>1, <2>1, <2>2, <3>2 DEF WithLooks!OpenReader, Calling, Target
    <3> QED BY <1>6, <3>3 DEF Noticed
  <2>4. CASE obj[p] \notin manifests
    <3>1. out'[p] = "notfound"
      BY <1>1, <1>2, <1>13, <2>4 DEF Load, Conclude, Answer, Domains
    <3>2. WithLooks!Move(p, {"pending", "sighted"}, "missed")
      BY <1>1, <1>3, <2>1, <3>1, LookerMoved DEF LookRow
    <3>3. idx[obj[p]] = 0
      BY <1>5, <2>1, <2>4
    <3>4. WithLooks!Miss(p)
      BY <1>1, <1>4, <2>1, <2>2, <3>2, <3>3 DEF WithLooks!Miss, WithLooks!Calls, Calling,
         Target
    <3> QED BY <1>6, <3>4 DEF Noticed
  <2> QED BY <2>3, <2>4
<1>14. ASSUME CheckChunk(p) PROVE LookAbsStep
  <2>1. /\ op[p] \in {"verify", "verifyall"} /\ pc[p] = "check" /\ out[p] = "none"
        /\ op'[p] = op[p] /\ obj'[p] = obj[p] /\ listed' = listed /\ pc'[p] = "check"
    BY <1>2, <1>14 DEF CheckChunk, Shape
  <2>2. out'[p] = "none"
    BY <1>2, <2>1 DEF Shape
  <2> QED BY <1>3, <1>7, <2>1, <2>2 DEF LookRow
<1>15. ASSUME Report(p) PROVE LookAbsStep
  <2>1. /\ op[p] \in {"verify", "verifyall"} /\ pc[p] = "check" /\ out[p] = "none"
        /\ op'[p] = op[p] /\ obj'[p] = obj[p] /\ LookPhase(p) = "open"
        /\ listed' = [listed EXCEPT ![p] = @ \ {obj[p]}]
    BY <1>2, <1>3, <1>15 DEF Report, Shape, LookRow
  <2>2. Calling' = Calling /\ Target' = Target
    BY <1>1, <2>1, LookerSame
  <2>3. CASE op[p] = "verify"
    <3>1. Conclude(p, "ok")
      BY <1>15, <2>1, <2>3 DEF Report
    <3>2. out'[p] = "ok"
      BY <1>1, <1>2, <3>1 DEF Conclude, Answer, Domains
    <3>3. WithLooks!Move(p, {"open"}, "done")
      BY <1>1, <1>3, <2>1, <3>2, LookerMoved DEF LookRow
    <3>4. listed[p] = {} /\ listed' = listed
      BY <1>1, <1>2, <2>1, <2>3, SMTT(30) DEF Sights, Domains
    <3>5. WithLooks!CloseHandle(p)
      BY <1>1, <2>2, <3>3, <3>4 DEF WithLooks!CloseHandle, Calling, Target
    <3> QED BY <1>6, <3>5 DEF Noticed
  <2>4. CASE op[p] = "verifyall"
    <3>1. out' = out /\ Goto(p, "next")
      BY <1>15, <2>1, <2>4 DEF Report
    <3>2. out'[p] = "none" /\ pc'[p] = "next"
      BY <1>1, <1>2, <2>1, <3>1 DEF Goto, Domains
    <3>3. LookPhase(p)' = "open"
      BY <1>3, <2>1, <3>2 DEF LookRow
    <3>4. Stage' = Stage /\ Stage[p] = "open"
      BY <1>1, <1>2, <2>1, <3>3 DEF Stage, Still
    <3>5. obj[p] \in listed[p]
      BY <1>2, <2>1, <2>4 DEF Sights
    <3>6. WithLooks!Checked(p)
      BY <1>1, <2>1, <2>2, <3>4, <3>5 DEF WithLooks!Checked, Calling, Target, Stage
    <3> QED BY <1>6, <3>6 DEF Noticed
  <2> QED BY <2>1, <2>3, <2>4
<1>16. ASSUME List(p) PROVE LookAbsStep
  <2>1. /\ op[p] = "verifyall" /\ pc[p] = "list" /\ out[p] = "none" /\ out'[p] = "none"
        /\ op'[p] = op[p] /\ obj'[p] = obj[p] /\ pc'[p] = "next"
        /\ listed' = [listed EXCEPT ![p] = {o \in Objects : idx[o] > 0}]
    BY <1>1, <1>2, <1>16 DEF List, Shape, LookPCs, Goto, Domains, callVars
  <2>2. WithLooks!Move(p, {"pending"}, "open")
    BY <1>1, <1>3, <2>1, LookerMoved DEF LookRow
  <2>3. Calling' = Calling /\ Target' = Target
    BY <1>1, <2>1, LookerSame
  <2>4. WithLooks!ListAll(p)
    BY <1>1, <1>4, <2>1, <2>2, <2>3 DEF WithLooks!ListAll, Calling, Target
  <2> QED BY <1>6, <2>4 DEF Noticed
<1>17. ASSUME LoadNext(p) PROVE LookAbsStep
  <2>1. /\ op[p] = "verifyall" /\ pc[p] = "next" /\ out[p] = "none" /\ op'[p] = op[p]
        /\ LookPhase(p) = "open"
    BY <1>2, <1>3, <1>17 DEF LoadNext, Shape, LookPCs, LookRow
  <2>2. Calling' = Calling /\ Target' = Target
    BY <1>1, <2>1, LookerSame
  <2>3. PICK o \in listed[p] :
            IF o \in manifests
               THEN out' = out /\ Goto(p, "check") /\ UNCHANGED listed
               ELSE Conclude(p, "gone") /\ listed' = [listed EXCEPT ![p] = {}]
    BY <1>17 DEF LoadNext
  <2>4. CASE o \in manifests
    <3>1. out'[p] = "none" /\ pc'[p] = "check" /\ listed' = listed
      BY <1>1, <1>2, <2>1, <2>3, <2>4 DEF Goto, Domains
    <3> QED BY <1>3, <1>7, <2>1, <3>1 DEF LookRow
  <2>5. CASE o \notin manifests
    <3>1. out'[p] = "gone" /\ listed' = [listed EXCEPT ![p] = {}]
      BY <1>1, <1>2, <2>3, <2>5 DEF Conclude, Answer, Domains
    <3>2. WithLooks!Move(p, {"open"}, "missed")
      BY <1>1, <1>3, <2>1, <3>1, LookerMoved DEF LookRow
    <3>3. o \in Objects /\ idx[o] = 0
      BY <1>2, <1>5, <2>5 DEF Sights
    <3>4. WithLooks!Complain(p)
      BY <1>1, <2>2, <3>1, <3>2, <3>3 DEF WithLooks!Complain, Calling, Target
    <3> QED BY <1>6, <3>4 DEF Noticed
  <2> QED BY <2>4, <2>5
<1>18. ASSUME AllChecked(p) PROVE LookAbsStep
  <2>1. /\ op[p] = "verifyall" /\ pc[p] = "next" /\ out[p] = "none" /\ out'[p] = "ok"
        /\ op'[p] = op[p] /\ obj'[p] = obj[p] /\ listed[p] = {} /\ listed' = listed
    BY <1>1, <1>2, <1>18 DEF AllChecked, Shape, LookPCs, Conclude, Answer, Domains
  <2>2. WithLooks!Move(p, {"open"}, "done")
    BY <1>1, <1>3, <2>1, LookerMoved DEF LookRow
  <2>3. Calling' = Calling /\ Target' = Target
    BY <1>1, <2>1, LookerSame
  <2>4. WithLooks!CloseHandle(p)
    BY <1>1, <2>1, <2>2, <2>3 DEF WithLooks!CloseHandle, Calling, Target
  <2> QED BY <1>6, <2>4 DEF Noticed
<1>19. EnterLook(p) => UNCHANGED listed
  BY DEF EnterLook
<1> QED BY <1>8, <1>9, <1>10, <1>11, <1>12, <1>13, <1>14, <1>15, <1>16, <1>17, <1>18, <1>19
       DEF LookerStep, LookStep

\* A step of a call that does not look closes the store only when nobody is
\* inside.
LEMMA ClosesAlone ==
    ASSUME NEW p \in Callers, Call(p) \/ Step(p) \/ Failure(p)
    PROVE  closed' = closed \/ CloseBegin(p)
<1> USE DEF storeVars
<1>1. ASSUME Call(p) \/ PutStep(p) \/ DeleteStep(p) PROVE closed' = closed
  BY <1>1 DEF Call, CallShared, CallExclusive, PutStep, PutChunk, PutLock, PutBump, PutUndo,
     PutManifest, PutAddRef, PutIndex, DeleteStep, DeleteLock, DeleteDec, DeleteSubRef,
     DeleteUnderflow, DeleteIndex, DeleteManifest
<1>2. ASSUME PersistStep(p) \/ GetStep(p) PROVE closed' = closed
  BY <1>2 DEF PersistStep, PersistBegin, PersistMemory, PersistIndex, PersistRefs,
     PersistTruncate, GetStep, GetLookup, GetLoad, ReadChunk, CloseReader
<1>3. ASSUME ExclStep(p) PROVE closed' = closed \/ CloseBegin(p)
  BY <1>3 DEF ExclStep, WLockAnnounce, WLockClosed, GCBegin, GCSweep, GCEnd, WUnlock
<1>4. ASSUME RLock(p) \/ EnterClosed(p) \/ Enter(p) \/ Finish(p) PROVE closed' = closed
  BY <1>4 DEF RLock, EnterClosed, Enter, Finish
<1>5. ASSUME Failure(p) PROVE closed' = closed
  BY <1>5 DEF Failure, CallFail, PutAddRefFail, DeleteSubRefFail, DeleteManifestFail,
     PersistFail, GCFail, GCSkip
<1> QED BY <1>1, <1>2, <1>3, <1>4, <1>5 DEF Step

\* So are those of the calls that do not look.
LEMMA CallerAbs ==
    ASSUME LookInv, LookInv', NEW p \in Callers, Call(p) \/ Step(p) \/ Failure(p),
           UNCHANGED listed
    PROVE  LookAbsStep
<1>1. Store!Next
  BY CallerInvStep
<1>2. Store!CallerInv
  BY DEF LookInv, NoLostAppend, NoFault, Store!NoFault, Store!CallerInv, Store!StoreInv,
     Store!ChunkInv
<1>3. Store!CallerInv'
  BY DEF LookInv, NoLostAppend, NoFault, Store!NoFault, Store!CallerInv, Store!StoreInv,
     Store!ChunkInv
<1>4. Store!AbsStep
  BY <1>1, <1>2, <1>3, StoreConstants, Store!ObjectStep
<1>5. Lookers \subseteq Clients /\ p \notin Lookers /\ \A q \in Lookers : Shape(q)
  BY LookersAssumption DEF LookInv, Callers
<1>6. ASSUME NEW q \in Lookers
      PROVE  /\ op'[q] = op[q] /\ obj'[q] = obj[q] /\ out'[q] = out[q]
             /\ pc'[q] = pc[q] \/ (pc[q] = "rwait" /\ pc'[q] = "enter")
  <2>1. CASE WUnlock(p)
    BY <2>1, Unlocked
  <2>2. CASE ~WUnlock(p)
    BY <1>5, <2>2, CallerFrames DEF OwnCall
  <2> QED BY <2>1, <2>2
<1>7. Still(Lookers)
  <2> SUFFICES ASSUME NEW q \in Lookers
               PROVE  Stage'[q] = Stage[q] /\ Calling'[q] = Calling[q] /\ Target'[q] = Target[q]
    BY DEF Still
  <2>1. CASE pc'[q] = pc[q]
    <3>1. op'[q] = op[q] /\ out'[q] = out[q]
      BY <1>6
    <3>2. LookPhase(q)' = LookPhase(q)
      BY <2>1, <3>1 DEF LookPhase
    <3> QED BY <1>5, <1>6, <3>2 DEF Stage, Calling, Target
  <2>2. CASE pc[q] = "rwait" /\ pc'[q] = "enter"
    <3>1. op[q] # "none" /\ out[q] = "none"
      BY <1>5, <2>2 DEF Shape, LookPCs, LookOps
    <3>2. LookPhase(q) = "pending" /\ LookPhase(q)' = "pending"
      BY <1>6, <2>2, <3>1, LookRows, LookRowsNext DEF LookRow
    <3> QED BY <1>5, <1>6, <3>2 DEF Stage, Calling, Target
  <2> QED BY <1>6, <2>1, <2>2
<1>8. closed' = closed \/ \A q \in Lookers : Stage[q] \notin {"sighted", "open"}
  <2> SUFFICES ASSUME closed' # closed, NEW q \in Lookers
               PROVE  Stage[q] \notin {"sighted", "open"}
    OBVIOUS
  <2>1. shared = {}
    BY ClosesAlone DEF CloseBegin
  <2>2. /\ pc[q] \in {"idle", "rlock", "rwait"} /\ out[q] = "none"
        /\ op[q] = "none" \/ pc[q] \in {"rlock", "rwait"}
    BY <1>5, <2>1 DEF Shape, LookPCs
  <2>3. LookPhase(q) \in {"idle", "pending"}
    BY <2>2, LookRows DEF LookRow
  <2> QED BY <1>5, <2>3 DEF Stage
<1> QED BY <1>4, <1>7, <1>8, LiftStep

\* The calls that look are part of the contract: Verify never finds a fault,
\* VerifyAll none but an object deleted after it was listed, and every call,
\* theirs included, takes effect at one moment, in every behavior with any
\* number of clients (verify.go, ObjectStore).
THEOREM LooksImplement == LookSpec => LooksImplementObjectStore
<1>1. LookInit => LookInv /\ WithLooks!AbsInit
  <2> SUFFICES ASSUME LookInit PROVE WithLooks!AbsInit
    BY LookInvInit
  <2>1. \A p \in Clients : /\ op[p] = "none" /\ obj[p] = NoObject
                           /\ Phase(p) = "idle" /\ CallOf(p) = "none" /\ LookPhase(p) = "idle"
    BY DEF LookInit, Init, Phase, CallOf, LookPhase
  <2> QED BY <2>1 DEF LookInit, Init, WithLooks!AbsInit
<1>2. LookInv /\ [LookNext]_lookVars => LookInv'
  BY LookInvStep
<1>3. LookInv /\ LookInv' /\ [LookNext]_lookVars => LookAbsStep
  <2> SUFFICES ASSUME LookInv, LookInv', [LookNext]_lookVars PROVE LookAbsStep
    OBVIOUS
  <2>1. ASSUME NEW p \in Clients, p \notin Lookers, Call(p) \/ Step(p) \/ Failure(p),
               UNCHANGED listed
        PROVE  LookAbsStep
    BY <2>1, CallerAbs DEF Callers
  <2>2. ASSUME NEW p \in Lookers, LookerStep(p) PROVE LookAbsStep
    BY <2>2, LookerAbs
  <2>3. ASSUME NEW p \in Clients, CallLook(p) \/ LookStep(p) PROVE p \in Lookers
    BY <2>3, LooksOnly
  <2>4. CASE UNCHANGED lookVars
    BY <2>4 DEF LookAbsStep, WithLooks!absVars, lookVars, vars, storeVars, callVars, CallOf,
       Phase, LookPhase
  <2> QED BY <2>1, <2>2, <2>3, <2>4 DEF LookNext, LookerStep
<1> QED BY <1>1, <1>2, <1>3, PTL DEF LookSpec, LooksImplementObjectStore, WithLooks!AbsSpec,
           LookAbsStep
=============================================================================
