-------------------------- MODULE ShardStoreProofs --------------------------
(* Proofs about ShardStore for every value of its constants. *)
EXTENDS ShardStoreInv, TLAPS, FiniteSetTheorems, SequenceTheorems

\* What is proved first: types, and calls that fit the step they are at.
Typing == TypeOK /\ CallInv /\ CursorInv

\* An entry of an object's chunk list is a chunk.
LEMMA SlotType ==
    ASSUME NEW o \in Objects
    PROVE  /\ NEntries(o) \in Nat
           /\ \A i \in 1..NEntries(o) : Slot(o, i) \in Chunks
  BY ChunkIDsAssumption DEF NEntries, Slot

\* The records the journal is made of.
LEMMA RecType ==
    ASSUME NEW c \in Chunks
    PROVE  Rec("inc", c) \in Records /\ Rec("dec", c) \in Records /\ Torn \in Records
  BY DEF Rec, Records

\* Counting a failure keeps the list of failures well typed.
LEMMA FaultType ==
    ASSUME faults \in Seq(FaultKinds), NEW k, Fault(k)
    PROVE  faults' \in Seq(FaultKinds)
<1>1. k \in FaultKinds
  BY BoundsAssumption DEF Fault
<1> QED BY <1>1, AppendProperties DEF Fault

\* A failed append leaves the journal as it is, or with part or all of a record.
LEMMA AppendFailType ==
    ASSUME journal \in Seq(Records), NEW r \in Records,
           journal' \in {journal, Append(journal, Torn), Append(journal, r)}
    PROVE  journal' \in Seq(Records)
<1>1. Torn \in Records
  BY DEF Records
<1>2. Append(journal, Torn) \in Seq(Records) /\ Append(journal, r) \in Seq(Records)
  BY <1>1, AppendProperties
<1> QED BY <1>2

\* A store just opened is well typed, with every call idle.
LEMMA TypingInit == Init => Typing
<1> SUFFICES ASSUME Init PROVE Typing
  OBVIOUS
<1>1. closed \in BOOLEAN /\ journal \in Seq(Records) /\ faults \in Seq(FaultKinds)
  BY Zenon, EmptySeq DEF Init
<1>2. TypeOK
  BY <1>1 DEF Init, TypeOK, StoreTypes, LockTypes, CallTypes, PCs, Outs, AllOps
<1>3. CallInv /\ CursorInv
  BY DEF Init, CallInv, CursorInv, FencePCs, PutPCs, DeletePCs, GetPCs, ExclPCs, SavePCs
<1> QED BY <1>2, <1>3 DEF Typing

\* Every step keeps the types, the shape of each call and its cursor.
LEMMA TypingStep == Typing /\ [Next]_vars => Typing'
<1> SUFFICES ASSUME Typing, [Next]_vars
             PROVE  Typing'
  OBVIOUS
<1> USE DEF Typing, TypeOK
<1>1. ASSUME NEW p \in Clients, CallShared(p) PROVE Typing'
  <2>1. StoreTypes' /\ LockTypes'
    BY <1>1 DEF CallShared, StoreTypes, storeVars, fileVars, diskVars, LockTypes, lockVars
  <2>2. CallTypes'
    BY <1>1 DEF CallShared, CallTypes, Goto, PCs, FencePCs, PutPCs, DeletePCs, GetPCs,
       SavePCs, ExclPCs, AllOps
  <2>3. CallInv'
    BY <1>1 DEF CallShared, CallTypes, CallInv, Goto, FencePCs, PutPCs, DeletePCs, GetPCs,
       SavePCs, ExclPCs, ExclOps, SharedOps
  <2>4. CursorInv'
    BY <1>1, SlotType DEF CallShared, CallTypes, CursorInv, Goto, CallInv, PutPCs,
       DeletePCs, GetPCs, StoreTypes
  <2> QED BY <2>1, <2>2, <2>3, <2>4
<1>2. ASSUME NEW p \in Clients, CallExclusive(p) PROVE Typing'
  <2>1. StoreTypes' /\ LockTypes'
    BY <1>2 DEF CallExclusive, StoreTypes, storeVars, fileVars, diskVars, LockTypes, lockVars
  <2>2. CallTypes'
    BY <1>2 DEF CallExclusive, CallTypes, Goto, PCs, FencePCs, PutPCs, DeletePCs, GetPCs,
       SavePCs, ExclPCs, AllOps
  <2>3. CallInv'
    BY <1>2 DEF CallExclusive, CallTypes, CallInv, Goto, FencePCs, PutPCs, DeletePCs,
       GetPCs, SavePCs, ExclPCs, ExclOps, SharedOps
  <2>4. CursorInv'
    BY <1>2, SlotType DEF CallExclusive, CallTypes, CursorInv, Goto, CallInv, PutPCs,
       DeletePCs, GetPCs, StoreTypes
  <2> QED BY <2>1, <2>2, <2>3, <2>4
<1>3. ASSUME NEW p \in Clients, RLock(p) PROVE Typing'
  <2>1. StoreTypes'
    BY <1>3 DEF RLock, StoreTypes, storeVars, fileVars, diskVars
  <2>2. LockTypes'
    BY <1>3 DEF RLock, LockTypes, CallTypes
  <2>3. CallTypes'
    BY <1>3 DEF RLock, CallTypes, Goto, callVars, PCs, FencePCs, PutPCs, DeletePCs, GetPCs,
       SavePCs, ExclPCs
  <2>4. CallInv'
    BY <1>3 DEF RLock, CallTypes, CallInv, Goto, callVars, FencePCs, PutPCs, DeletePCs,
       GetPCs, SavePCs, ExclPCs, ExclOps, SharedOps
  <2>5. CursorInv'
    BY <1>3, SlotType DEF RLock, CallTypes, CursorInv, Goto, callVars, CallInv, PutPCs,
       DeletePCs, GetPCs, StoreTypes
  <2> QED BY <2>1, <2>2, <2>3, <2>4, <2>5
<1>4. ASSUME NEW p \in Clients, EnterClosed(p) PROVE Typing'
  <2>1. StoreTypes' /\ LockTypes'
    BY <1>4 DEF EnterClosed, StoreTypes, storeVars, fileVars, diskVars, LockTypes, lockVars
  <2>2. CallTypes'
    BY <1>4 DEF EnterClosed, CallTypes, Goto, Answer, PCs, FencePCs, PutPCs, DeletePCs,
       GetPCs, SavePCs, ExclPCs, Outs
  <2>3. CallInv'
    BY <1>4 DEF EnterClosed, CallTypes, CallInv, Goto, Answer, FencePCs, PutPCs, DeletePCs,
       GetPCs, SavePCs, ExclPCs, ExclOps, SharedOps
  <2>4. CursorInv'
    BY <1>4, SlotType DEF EnterClosed, CallTypes, CursorInv, Goto, Answer, CallInv, PutPCs,
       DeletePCs, GetPCs, StoreTypes
  <2> QED BY <2>1, <2>2, <2>3, <2>4
<1>5. ASSUME NEW p \in Clients, Enter(p) PROVE Typing'
  <2>1. StoreTypes' /\ LockTypes'
    BY <1>5 DEF Enter, StoreTypes, storeVars, fileVars, diskVars, LockTypes, lockVars
  <2>2. CallTypes'
    BY <1>5 DEF Enter, CallTypes, CallInv, Goto, PCs, FencePCs, PutPCs, DeletePCs, GetPCs
  <2>3. CallInv'
    BY <1>5 DEF Enter, CallTypes, CallInv, Goto, FencePCs, PutPCs, DeletePCs, GetPCs,
       SavePCs, ExclPCs, ExclOps, SharedOps
  <2>4. CursorInv'
    BY <1>5, SlotType DEF Enter, CallTypes, CallInv, CursorInv, Goto, FencePCs, GetPCs
  <2> QED BY <2>1, <2>2, <2>3, <2>4
<1>6. ASSUME NEW p \in Clients, Finish(p) PROVE Typing'
  <2>1. StoreTypes'
    BY <1>6 DEF Finish, StoreTypes, storeVars, fileVars, diskVars
  <2>2. LockTypes'
    BY <1>6 DEF Finish, LockTypes, CallTypes
  <2>3. CallTypes'
    BY <1>6 DEF Finish, CallTypes, Goto, Answer, PCs, FencePCs, PutPCs, DeletePCs, GetPCs,
       SavePCs, ExclPCs, Outs, AllOps, StoreTypes
  <2>4. CallInv'
    BY <1>6 DEF Finish, CallTypes, CallInv, Goto, Answer, FencePCs, PutPCs, DeletePCs,
       GetPCs, SavePCs, ExclPCs, ExclOps, SharedOps
  <2>5. CursorInv'
    BY <1>6, SlotType, SMTT(30) DEF Finish, CallTypes, CursorInv, Goto, Answer, CallInv, PutPCs,
       DeletePCs, GetPCs, StoreTypes
  <2> QED BY <2>1, <2>2, <2>3, <2>4, <2>5
<1>7. ASSUME NEW p \in Clients, PutChunk(p) PROVE Typing'
  <2>1. StoreTypes'
    BY <1>7, SlotType, RecType, SMTT(30) DEF PutChunk, StoreTypes, storeVars, diskVars, CallTypes,
       CallInv, CursorInv, PutPCs, DeletePCs, GetPCs
  <2>2. LockTypes'
    BY <1>7 DEF PutChunk, LockTypes, lockVars
  <2>3. CallTypes'
    BY <1>7 DEF PutChunk, CallTypes
  <2>4. CallInv'
    BY <1>7 DEF PutChunk, CallTypes, CallInv, FencePCs, PutPCs, DeletePCs, GetPCs, SavePCs,
       ExclPCs, ExclOps, SharedOps
  <2>5. CursorInv'
    BY <1>7, SlotType DEF PutChunk, CallTypes, CursorInv, CallInv, PutPCs, DeletePCs,
       GetPCs, StoreTypes
  <2> QED BY <2>1, <2>2, <2>3, <2>4, <2>5
<1>8. ASSUME NEW p \in Clients, PutLock(p) PROVE Typing'
  <2>1. StoreTypes'
    BY <1>8 DEF PutLock, StoreTypes, storeVars, fileVars, diskVars
  <2>2. LockTypes'
    BY <1>8 DEF PutLock, LockTypes, CallTypes
  <2>3. CallTypes'
    BY <1>8 DEF PutLock, CallTypes, StoreTypes, CallInv, Goto, PCs, PutPCs
  <2>4. CallInv'
    BY <1>8 DEF PutLock, CallTypes, CallInv, Goto, FencePCs, PutPCs, DeletePCs, GetPCs,
       SavePCs, ExclPCs, ExclOps, SharedOps
  <2>5. CursorInv'
    BY <1>8, SlotType DEF PutLock, CallTypes, CursorInv, Goto, CallInv, PutPCs, DeletePCs,
       GetPCs, StoreTypes
  <2> QED BY <2>1, <2>2, <2>3, <2>4, <2>5
<1>9. ASSUME NEW p \in Clients, PutBump(p) PROVE Typing'
  <2>1. StoreTypes'
    BY <1>9, SlotType, RecType DEF PutBump, StoreTypes, fileVars, diskVars, CallTypes,
       CallInv, CursorInv, PutPCs, DeletePCs, GetPCs
  <2>2. LockTypes'
    BY <1>9 DEF PutBump, LockTypes, lockVars
  <2>3. CallTypes'
    BY <1>9 DEF PutBump, CallTypes, Goto, callVars, PCs, FencePCs, PutPCs, DeletePCs,
       GetPCs, SavePCs, ExclPCs
  <2>4. CallInv'
    BY <1>9 DEF PutBump, CallTypes, CallInv, Goto, callVars, FencePCs, PutPCs, DeletePCs,
       GetPCs, SavePCs, ExclPCs, ExclOps, SharedOps
  <2>5. CursorInv'
    BY <1>9, SlotType DEF PutBump, CallTypes, CursorInv, Goto, callVars, CallInv, PutPCs,
       DeletePCs, GetPCs, StoreTypes
  <2> QED BY <2>1, <2>2, <2>3, <2>4, <2>5
<1>10. ASSUME NEW p \in Clients, PutUndo(p) PROVE Typing'
  <2>1. StoreTypes'
    BY <1>10, SlotType, RecType DEF PutUndo, StoreTypes, fileVars, diskVars, CallTypes,
       CallInv, CursorInv, PutPCs, DeletePCs, GetPCs
  <2>2. LockTypes'
    BY <1>10 DEF PutUndo, LockTypes, lockVars
  <2>3. CallTypes'
    BY <1>10 DEF PutUndo, CallTypes, Goto, callVars, PCs, FencePCs, PutPCs, DeletePCs,
       GetPCs, SavePCs, ExclPCs
  <2>4. CallInv'
    BY <1>10 DEF PutUndo, CallTypes, CallInv, Goto, callVars, FencePCs, PutPCs, DeletePCs,
       GetPCs, SavePCs, ExclPCs, ExclOps, SharedOps
  <2>5. CursorInv'
    BY <1>10, SlotType DEF PutUndo, CallTypes, CursorInv, Goto, callVars, CallInv, PutPCs,
       DeletePCs, GetPCs, StoreTypes
  <2> QED BY <2>1, <2>2, <2>3, <2>4, <2>5
<1>11. ASSUME NEW p \in Clients, PutManifest(p) PROVE Typing'
  <2>1. StoreTypes'
    BY <1>11, SlotType, RecType DEF PutManifest, StoreTypes, storeVars, diskVars, CallTypes,
       CallInv, CursorInv, PutPCs, DeletePCs, GetPCs
  <2>2. LockTypes'
    BY <1>11 DEF PutManifest, LockTypes, lockVars
  <2>3. CallTypes'
    BY <1>11 DEF PutManifest, CallTypes, Goto, PCs, FencePCs, PutPCs, DeletePCs, GetPCs,
       SavePCs, ExclPCs
  <2>4. CallInv'
    BY <1>11 DEF PutManifest, CallTypes, CallInv, Goto, FencePCs, PutPCs, DeletePCs, GetPCs,
       SavePCs, ExclPCs, ExclOps, SharedOps
  <2>5. CursorInv'
    BY <1>11, SlotType DEF PutManifest, CallTypes, CursorInv, Goto, CallInv, PutPCs,
       DeletePCs, GetPCs, StoreTypes
  <2> QED BY <2>1, <2>2, <2>3, <2>4, <2>5
<1>12. ASSUME NEW p \in Clients, PutAddRef(p) PROVE Typing'
  <2>1. StoreTypes'
    <3>1. obj[p] \in Objects /\ pos[p] \in 1..NEntries(obj[p])
      BY <1>12, SlotType DEF PutAddRef, CallTypes, CallInv, CursorInv, PutPCs
    <3>2. Slot(obj[p], pos[p]) \in Chunks
      BY <3>1, SlotType
    <3>3. Rec("inc", Slot(obj[p], pos[p])) \in Records
      BY <3>2, RecType
    <3>4. journal \in Seq(Records)
      BY DEF StoreTypes
    <3>5. journal' \in Seq(Records)
      BY <1>12, <3>3, <3>4, AppendProperties DEF PutAddRef, Log
    <3>6. refs' \in [Chunks -> Nat]
      BY <1>12, <3>2 DEF PutAddRef, StoreTypes
    <3> QED BY <1>12, <3>5, <3>6 DEF PutAddRef, StoreTypes, fileVars
  <2>2. LockTypes'
    BY <1>12 DEF PutAddRef, LockTypes, lockVars
  <2>3. CallTypes'
    BY <1>12 DEF PutAddRef, CallTypes
  <2>4. CallInv'
    BY <1>12 DEF PutAddRef, CallTypes, CallInv, FencePCs, PutPCs, DeletePCs, GetPCs,
       SavePCs, ExclPCs, ExclOps, SharedOps
  <2>5. CursorInv'
    BY <1>12, SlotType DEF PutAddRef, CallTypes, CursorInv, CallInv, PutPCs, DeletePCs,
       GetPCs, StoreTypes
  <2> QED BY <2>1, <2>2, <2>3, <2>4, <2>5
<1>13. ASSUME NEW p \in Clients, PutIndex(p) PROVE Typing'
  <2>1. StoreTypes'
    BY <1>13, SlotType, RecType DEF PutIndex, StoreTypes, fileVars, diskVars, CallTypes,
       CallInv, CursorInv, PutPCs, DeletePCs, GetPCs
  <2>2. LockTypes'
    BY <1>13 DEF PutIndex, LockTypes, lockVars
  <2>3. CallTypes'
    BY <1>13 DEF PutIndex, CallTypes, Goto, callVars, PCs, FencePCs, PutPCs, DeletePCs,
       GetPCs, SavePCs, ExclPCs
  <2>4. CallInv'
    BY <1>13 DEF PutIndex, CallTypes, CallInv, Goto, callVars, FencePCs, PutPCs, DeletePCs,
       GetPCs, SavePCs, ExclPCs, ExclOps, SharedOps
  <2>5. CursorInv'
    BY <1>13, SlotType DEF PutIndex, CallTypes, CursorInv, Goto, callVars, CallInv, PutPCs,
       DeletePCs, GetPCs, StoreTypes
  <2> QED BY <2>1, <2>2, <2>3, <2>4, <2>5
<1>14. ASSUME NEW p \in Clients, DeleteLock(p) PROVE Typing'
  <2>1. StoreTypes'
    BY <1>14 DEF DeleteLock, StoreTypes, storeVars, fileVars, diskVars
  <2>2. LockTypes'
    BY <1>14 DEF DeleteLock, LockTypes, CallTypes
  <2>3. CallTypes'
    BY <1>14 DEF DeleteLock, CallTypes, StoreTypes, CallInv, Goto, Answer, Outs, PCs, DeletePCs
  <2>4. CallInv'
    BY <1>14 DEF DeleteLock, CallTypes, CallInv, Goto, Answer, FencePCs, PutPCs, DeletePCs,
       GetPCs, SavePCs, ExclPCs, ExclOps, SharedOps
  <2>5. CursorInv'
    BY <1>14 DEF DeleteLock, CallTypes, StoreTypes, CallInv, CursorInv, Goto, DeletePCs, GetPCs
  <2> QED BY <2>1, <2>2, <2>3, <2>4, <2>5
<1>15. ASSUME NEW p \in Clients, DeleteDec(p) PROVE Typing'
  <2>1. StoreTypes'
    BY <1>15, SlotType, RecType DEF DeleteDec, StoreTypes, fileVars, diskVars, CallTypes,
       CallInv, CursorInv, PutPCs, DeletePCs, GetPCs
  <2>2. LockTypes'
    BY <1>15 DEF DeleteDec, LockTypes, lockVars
  <2>3. CallTypes'
    BY <1>15 DEF DeleteDec, CallTypes, Goto, callVars, PCs, FencePCs, PutPCs, DeletePCs,
       GetPCs, SavePCs, ExclPCs
  <2>4. CallInv'
    BY <1>15 DEF DeleteDec, CallTypes, CallInv, Goto, callVars, FencePCs, PutPCs, DeletePCs,
       GetPCs, SavePCs, ExclPCs, ExclOps, SharedOps
  <2>5. CursorInv'
    BY <1>15, SlotType DEF DeleteDec, CallTypes, CursorInv, Goto, callVars, CallInv, PutPCs,
       DeletePCs, GetPCs, StoreTypes
  <2> QED BY <2>1, <2>2, <2>3, <2>4, <2>5
<1>16. ASSUME NEW p \in Clients, DeleteSubRef(p) PROVE Typing'
  <2>1. StoreTypes'
    <3>1. obj[p] \in Objects /\ pos[p] \in 1..NEntries(obj[p])
      BY <1>16, SlotType DEF DeleteSubRef, CallTypes, CallInv, CursorInv, DeletePCs
    <3>2. Slot(obj[p], pos[p]) \in Chunks
      BY <3>1, SlotType
    <3>3. Rec("dec", Slot(obj[p], pos[p])) \in Records
      BY <3>2, RecType
    <3>4. journal \in Seq(Records)
      BY DEF StoreTypes
    <3>5. journal' \in Seq(Records)
      BY <1>16, <3>3, <3>4, AppendProperties DEF DeleteSubRef, Log
    <3>6. refs' \in [Chunks -> Nat]
      BY <1>16, <3>2 DEF DeleteSubRef, StoreTypes
    <3> QED BY <1>16, <3>5, <3>6 DEF DeleteSubRef, StoreTypes, fileVars
  <2>2. LockTypes'
    BY <1>16 DEF DeleteSubRef, LockTypes, lockVars
  <2>3. CallTypes'
    BY <1>16 DEF DeleteSubRef, CallTypes
  <2>4. CallInv'
    BY <1>16 DEF DeleteSubRef, CallTypes, CallInv, FencePCs, PutPCs, DeletePCs, GetPCs,
       SavePCs, ExclPCs, ExclOps, SharedOps
  <2>5. CursorInv'
    BY <1>16, SlotType, SMTT(30) DEF DeleteSubRef, CallTypes, CursorInv, CallInv, PutPCs, DeletePCs,
       GetPCs, StoreTypes
  <2> QED BY <2>1, <2>2, <2>3, <2>4, <2>5
<1>17. ASSUME NEW p \in Clients, DeleteUnderflow(p) PROVE Typing'
  <2>1. StoreTypes' /\ LockTypes'
    BY <1>17 DEF DeleteUnderflow, StoreTypes, storeVars, fileVars, diskVars, LockTypes, lockVars
  <2>2. CallTypes'
    BY <1>17 DEF DeleteUnderflow, CallTypes, Goto, Answer, PCs, FencePCs, PutPCs, DeletePCs,
       GetPCs, SavePCs, ExclPCs, Outs
  <2>3. CallInv'
    BY <1>17 DEF DeleteUnderflow, CallTypes, CallInv, Goto, Answer, FencePCs, PutPCs,
       DeletePCs, GetPCs, SavePCs, ExclPCs, ExclOps, SharedOps
  <2>4. CursorInv'
    BY <1>17, SlotType DEF DeleteUnderflow, CallTypes, CursorInv, Goto, Answer, CallInv,
       PutPCs, DeletePCs, GetPCs, StoreTypes
  <2> QED BY <2>1, <2>2, <2>3, <2>4
<1>18. ASSUME NEW p \in Clients, DeleteIndex(p) PROVE Typing'
  <2>1. StoreTypes'
    BY <1>18, SlotType, RecType DEF DeleteIndex, StoreTypes, fileVars, diskVars, CallTypes,
       CallInv, CursorInv, PutPCs, DeletePCs, GetPCs
  <2>2. LockTypes'
    BY <1>18 DEF DeleteIndex, LockTypes, lockVars
  <2>3. CallTypes'
    BY <1>18 DEF DeleteIndex, CallTypes, Goto, callVars, PCs, FencePCs, PutPCs, DeletePCs,
       GetPCs, SavePCs, ExclPCs
  <2>4. CallInv'
    BY <1>18 DEF DeleteIndex, CallTypes, CallInv, Goto, callVars, FencePCs, PutPCs,
       DeletePCs, GetPCs, SavePCs, ExclPCs, ExclOps, SharedOps
  <2>5. CursorInv'
    BY <1>18, SlotType DEF DeleteIndex, CallTypes, CursorInv, Goto, callVars, CallInv,
       PutPCs, DeletePCs, GetPCs, StoreTypes
  <2> QED BY <2>1, <2>2, <2>3, <2>4, <2>5
<1>19. ASSUME NEW p \in Clients, DeleteManifest(p) PROVE Typing'
  <2>1. StoreTypes'
    BY <1>19, SlotType, RecType DEF DeleteManifest, StoreTypes, storeVars, diskVars,
       CallTypes, CallInv, CursorInv, PutPCs, DeletePCs, GetPCs
  <2>2. LockTypes'
    BY <1>19 DEF DeleteManifest, LockTypes, lockVars
  <2>3. CallTypes'
    BY <1>19 DEF DeleteManifest, CallTypes, Goto, callVars, PCs, FencePCs, PutPCs,
       DeletePCs, GetPCs, SavePCs, ExclPCs
  <2>4. CallInv'
    BY <1>19 DEF DeleteManifest, CallTypes, CallInv, Goto, callVars, FencePCs, PutPCs,
       DeletePCs, GetPCs, SavePCs, ExclPCs, ExclOps, SharedOps
  <2>5. CursorInv'
    BY <1>19, SlotType DEF DeleteManifest, CallTypes, CursorInv, Goto, callVars, CallInv,
       PutPCs, DeletePCs, GetPCs, StoreTypes
  <2> QED BY <2>1, <2>2, <2>3, <2>4, <2>5
<1>20. ASSUME NEW p \in Clients, PersistMemory(p) PROVE Typing'
  <2>1. StoreTypes' /\ LockTypes'
    BY <1>20 DEF PersistMemory, StoreTypes, storeVars, fileVars, diskVars, LockTypes, lockVars
  <2>2. CallTypes'
    BY <1>20 DEF PersistMemory, CallTypes, Answer, AfterPersist, Goto, PCs, FencePCs,
       PutPCs, DeletePCs, GetPCs, SavePCs, ExclPCs, Outs
  <2>3. CallInv'
    BY <1>20 DEF PersistMemory, CallTypes, CallInv, Answer, AfterPersist, Goto, FencePCs,
       PutPCs, DeletePCs, GetPCs, SavePCs, ExclPCs, ExclOps, SharedOps
  <2>4. CursorInv'
    BY <1>20, SlotType DEF PersistMemory, CallTypes, CursorInv, Answer, AfterPersist, Goto,
       CallInv, PutPCs, DeletePCs, GetPCs, StoreTypes
  <2> QED BY <2>1, <2>2, <2>3, <2>4
<1>21. ASSUME NEW p \in Clients, PersistIndex(p) PROVE Typing'
  <2>1. StoreTypes'
    BY <1>21, FaultType DEF PersistIndex, StoreTypes, storeVars, fileVars
  <2>2. LockTypes'
    BY <1>21 DEF PersistIndex, LockTypes, CallTypes
  <2>3. CallTypes'
    BY <1>21 DEF PersistIndex, CallTypes, Goto, callVars, PCs, FencePCs, PutPCs, DeletePCs,
       GetPCs, SavePCs, ExclPCs
  <2>4. CallInv'
    BY <1>21 DEF PersistIndex, CallTypes, CallInv, Goto, callVars, FencePCs, PutPCs,
       DeletePCs, GetPCs, SavePCs, ExclPCs, ExclOps, SharedOps
  <2>5. CursorInv'
    BY <1>21, SlotType DEF PersistIndex, CallTypes, CursorInv, Goto, callVars, CallInv,
       PutPCs, DeletePCs, GetPCs, StoreTypes
  <2> QED BY <2>1, <2>2, <2>3, <2>4, <2>5
<1>22. ASSUME NEW p \in Clients, PersistRefs(p) PROVE Typing'
  <2>1. StoreTypes'
    BY <1>22, FaultType DEF PersistRefs, StoreTypes, storeVars, fileVars
  <2>2. LockTypes'
    BY <1>22 DEF PersistRefs, LockTypes, lockVars
  <2>3. CallTypes'
    BY <1>22 DEF PersistRefs, CallTypes, Goto, callVars, PCs, FencePCs, PutPCs, DeletePCs,
       GetPCs, SavePCs, ExclPCs
  <2>4. CallInv'
    BY <1>22 DEF PersistRefs, CallTypes, CallInv, Goto, callVars, FencePCs, PutPCs,
       DeletePCs, GetPCs, SavePCs, ExclPCs, ExclOps, SharedOps
  <2>5. CursorInv'
    BY <1>22, SlotType DEF PersistRefs, CallTypes, CursorInv, Goto, callVars, CallInv,
       PutPCs, DeletePCs, GetPCs, StoreTypes
  <2> QED BY <2>1, <2>2, <2>3, <2>4, <2>5
<1>23. ASSUME NEW p \in Clients, PersistTruncate(p) PROVE Typing'
  <2>1. StoreTypes'
    BY <1>23, SlotType, RecType DEF PersistTruncate, StoreTypes, storeVars, fileVars,
       CallTypes, CallInv, CursorInv, PutPCs, DeletePCs, GetPCs
  <2>2. LockTypes'
    BY <1>23 DEF PersistTruncate, LockTypes, CallTypes
  <2>3. CallTypes'
    BY <1>23 DEF PersistTruncate, CallTypes, Answer, AfterPersist, Goto, PCs, FencePCs,
       PutPCs, DeletePCs, GetPCs, SavePCs, ExclPCs, Outs
  <2>4. CallInv'
    BY <1>23 DEF PersistTruncate, CallTypes, CallInv, Answer, AfterPersist, Goto, FencePCs,
       PutPCs, DeletePCs, GetPCs, SavePCs, ExclPCs, ExclOps, SharedOps
  <2>5. CursorInv'
    BY <1>23, SlotType DEF PersistTruncate, CallTypes, CursorInv, Answer, AfterPersist,
       Goto, CallInv, PutPCs, DeletePCs, GetPCs, StoreTypes
  <2> QED BY <2>1, <2>2, <2>3, <2>4, <2>5
<1>24. ASSUME NEW p \in Clients, GetLookup(p) PROVE Typing'
  <2>1. StoreTypes' /\ LockTypes'
    BY <1>24 DEF GetLookup, StoreTypes, storeVars, fileVars, diskVars, LockTypes, lockVars
  <2>2. CallTypes'
    BY <1>24 DEF GetLookup, CallTypes, Goto, Answer, PCs, FencePCs, PutPCs, DeletePCs,
       GetPCs, SavePCs, ExclPCs, Outs
  <2>3. CallInv'
    BY <1>24 DEF GetLookup, CallTypes, CallInv, Goto, Answer, FencePCs, PutPCs, DeletePCs,
       GetPCs, SavePCs, ExclPCs, ExclOps, SharedOps
  <2>4. CursorInv'
    BY <1>24 DEF GetLookup, CallTypes, CursorInv, Goto, GetPCs
  <2> QED BY <2>1, <2>2, <2>3, <2>4
<1>25. ASSUME NEW p \in Clients, GetLoad(p) PROVE Typing'
  <2>1. StoreTypes' /\ LockTypes'
    BY <1>25 DEF GetLoad, StoreTypes, storeVars, fileVars, diskVars, LockTypes, lockVars
  <2>2. CallTypes'
    BY <1>25 DEF GetLoad, CallTypes, Goto, Answer, PCs, FencePCs, PutPCs, DeletePCs, GetPCs,
       SavePCs, ExclPCs, Outs
  <2>3. CallInv'
    BY <1>25 DEF GetLoad, CallTypes, CallInv, Goto, Answer, FencePCs, PutPCs, DeletePCs,
       GetPCs, SavePCs, ExclPCs, ExclOps, SharedOps
  <2>4. CursorInv'
    BY <1>25 DEF GetLoad, CallTypes, CursorInv, Goto, GetPCs
  <2> QED BY <2>1, <2>2, <2>3, <2>4
<1>26. ASSUME NEW p \in Clients, ReadChunk(p) PROVE Typing'
  <2>1. StoreTypes' /\ LockTypes'
    BY <1>26 DEF ReadChunk, StoreTypes, storeVars, fileVars, diskVars, LockTypes, lockVars
  <2>2. CallTypes'
    BY <1>26 DEF ReadChunk, CallTypes, Answer, Outs
  <2>3. CallInv'
    BY <1>26 DEF ReadChunk, CallTypes, CallInv, Answer, FencePCs, PutPCs, DeletePCs, GetPCs,
       SavePCs, ExclPCs, ExclOps, SharedOps
  <2>4. CursorInv'
    BY <1>26, SlotType DEF ReadChunk, CallTypes, CallInv, CursorInv, GetPCs
  <2> QED BY <2>1, <2>2, <2>3, <2>4
<1>27. ASSUME NEW p \in Clients, CloseReader(p) PROVE Typing'
  <2>1. StoreTypes' /\ LockTypes'
    BY <1>27 DEF CloseReader, StoreTypes, storeVars, fileVars, diskVars, LockTypes, lockVars
  <2>2. CallTypes'
    BY <1>27 DEF CloseReader, CallTypes, Goto, Answer, PCs, FencePCs, PutPCs, DeletePCs,
       GetPCs, SavePCs, ExclPCs, Outs
  <2>3. CallInv'
    BY <1>27 DEF CloseReader, CallTypes, CallInv, Goto, Answer, FencePCs, PutPCs, DeletePCs,
       GetPCs, SavePCs, ExclPCs, ExclOps, SharedOps
  <2>4. CursorInv'
    BY <1>27, SlotType DEF CloseReader, CallTypes, CursorInv, Goto, Answer, CallInv, PutPCs,
       DeletePCs, GetPCs, StoreTypes
  <2> QED BY <2>1, <2>2, <2>3, <2>4
<1>28. ASSUME NEW p \in Clients, WLockAnnounce(p) PROVE Typing'
  <2>1. StoreTypes'
    BY <1>28 DEF WLockAnnounce, StoreTypes, storeVars, fileVars, diskVars
  <2>2. LockTypes'
    BY <1>28 DEF WLockAnnounce, LockTypes, CallTypes
  <2>3. CallTypes'
    BY <1>28 DEF WLockAnnounce, CallTypes, Goto, callVars, PCs, FencePCs, PutPCs, DeletePCs,
       GetPCs, SavePCs, ExclPCs
  <2>4. CallInv'
    BY <1>28 DEF WLockAnnounce, CallTypes, CallInv, Goto, callVars, FencePCs, PutPCs,
       DeletePCs, GetPCs, SavePCs, ExclPCs, ExclOps, SharedOps
  <2>5. CursorInv'
    BY <1>28, SlotType DEF WLockAnnounce, CallTypes, CursorInv, Goto, callVars, CallInv,
       PutPCs, DeletePCs, GetPCs, StoreTypes
  <2> QED BY <2>1, <2>2, <2>3, <2>4, <2>5
<1>29. ASSUME NEW p \in Clients, WLockClosed(p) PROVE Typing'
  <2>1. StoreTypes' /\ LockTypes'
    BY <1>29 DEF WLockClosed, StoreTypes, storeVars, fileVars, diskVars, LockTypes, lockVars
  <2>2. CallTypes'
    BY <1>29 DEF WLockClosed, CallTypes, Goto, Answer, PCs, FencePCs, PutPCs, DeletePCs,
       GetPCs, SavePCs, ExclPCs, Outs
  <2>3. CallInv'
    BY <1>29 DEF WLockClosed, CallTypes, CallInv, Goto, Answer, FencePCs, PutPCs, DeletePCs,
       GetPCs, SavePCs, ExclPCs, ExclOps, SharedOps
  <2>4. CursorInv'
    BY <1>29, SlotType DEF WLockClosed, CallTypes, CursorInv, Goto, Answer, CallInv, PutPCs,
       DeletePCs, GetPCs, StoreTypes
  <2> QED BY <2>1, <2>2, <2>3, <2>4
<1>30. ASSUME NEW p \in Clients, GCBegin(p) PROVE Typing'
  <2>1. StoreTypes'
    BY <1>30, SlotType, RecType DEF GCBegin, StoreTypes, storeVars, fileVars, diskVars,
       CallTypes, CallInv, CursorInv, PutPCs, DeletePCs, GetPCs
  <2>2. LockTypes'
    BY <1>30 DEF GCBegin, LockTypes, lockVars
  <2>3. CallTypes'
    BY <1>30 DEF GCBegin, CallTypes, Goto, callVars, PCs, FencePCs, PutPCs, DeletePCs,
       GetPCs, SavePCs, ExclPCs
  <2>4. CallInv'
    BY <1>30 DEF GCBegin, CallTypes, CallInv, Goto, callVars, FencePCs, PutPCs, DeletePCs,
       GetPCs, SavePCs, ExclPCs, ExclOps, SharedOps
  <2>5. CursorInv'
    BY <1>30, SlotType DEF GCBegin, CallTypes, CursorInv, Goto, callVars, CallInv, PutPCs,
       DeletePCs, GetPCs, StoreTypes
  <2> QED BY <2>1, <2>2, <2>3, <2>4, <2>5
<1>31. ASSUME NEW p \in Clients, GCSweep(p) PROVE Typing'
  <2>1. StoreTypes'
    BY <1>31, SlotType, RecType DEF GCSweep, StoreTypes, storeVars, diskVars, CallTypes,
       CallInv, CursorInv, PutPCs, DeletePCs, GetPCs
  <2>2. LockTypes'
    BY <1>31 DEF GCSweep, LockTypes, lockVars
  <2>3. CallTypes'
    BY <1>31 DEF GCSweep, CallTypes, callVars
  <2>4. CallInv'
    BY <1>31 DEF GCSweep, CallTypes, CallInv, callVars, FencePCs, PutPCs, DeletePCs, GetPCs,
       SavePCs, ExclPCs, ExclOps, SharedOps
  <2>5. CursorInv'
    BY <1>31, SlotType DEF GCSweep, CallTypes, CursorInv, callVars, CallInv, PutPCs,
       DeletePCs, GetPCs, StoreTypes
  <2> QED BY <2>1, <2>2, <2>3, <2>4, <2>5
<1>32. ASSUME NEW p \in Clients, GCEnd(p) PROVE Typing'
  <2>1. StoreTypes' /\ LockTypes'
    BY <1>32 DEF GCEnd, StoreTypes, storeVars, fileVars, diskVars, LockTypes, lockVars
  <2>2. CallTypes'
    BY <1>32 DEF GCEnd, CallTypes, Goto, callVars, PCs, FencePCs, PutPCs, DeletePCs, GetPCs,
       SavePCs, ExclPCs
  <2>3. CallInv'
    BY <1>32 DEF GCEnd, CallTypes, CallInv, Goto, callVars, FencePCs, PutPCs, DeletePCs,
       GetPCs, SavePCs, ExclPCs, ExclOps, SharedOps
  <2>4. CursorInv'
    BY <1>32, SlotType DEF GCEnd, CallTypes, CursorInv, Goto, callVars, CallInv, PutPCs,
       DeletePCs, GetPCs, StoreTypes
  <2> QED BY <2>1, <2>2, <2>3, <2>4
<1>33. ASSUME NEW p \in Clients, CloseBegin(p) PROVE Typing'
  <2>1. StoreTypes'
    BY <1>33, SlotType, RecType DEF CloseBegin, StoreTypes, fileVars, diskVars, CallTypes,
       CallInv, CursorInv, PutPCs, DeletePCs, GetPCs
  <2>2. LockTypes'
    BY <1>33 DEF CloseBegin, LockTypes, lockVars
  <2>3. CallTypes'
    BY <1>33 DEF CloseBegin, CallTypes, Goto, callVars, PCs, FencePCs, PutPCs, DeletePCs,
       GetPCs, SavePCs, ExclPCs
  <2>4. CallInv'
    BY <1>33 DEF CloseBegin, CallTypes, CallInv, Goto, callVars, FencePCs, PutPCs,
       DeletePCs, GetPCs, SavePCs, ExclPCs, ExclOps, SharedOps
  <2>5. CursorInv'
    BY <1>33, SlotType DEF CloseBegin, CallTypes, CursorInv, Goto, callVars, CallInv,
       PutPCs, DeletePCs, GetPCs, StoreTypes
  <2> QED BY <2>1, <2>2, <2>3, <2>4, <2>5
<1>34. ASSUME NEW p \in Clients, WUnlock(p) PROVE Typing'
  <2>1. StoreTypes'
    BY <1>34 DEF WUnlock, StoreTypes, storeVars, fileVars, diskVars
  <2>2. LockTypes'
    BY <1>34 DEF WUnlock, LockTypes, CallTypes
  <2>3. CallTypes'
    BY <1>34 DEF WUnlock, CallTypes, Answer, PCs, FencePCs, PutPCs, DeletePCs, GetPCs,
       SavePCs, ExclPCs, Outs, AllOps
  <2>4. CallInv'
    BY <1>34 DEF WUnlock, CallTypes, CallInv, Answer, FencePCs, PutPCs, DeletePCs, GetPCs,
       SavePCs, ExclPCs, ExclOps, SharedOps
  <2>5. CursorInv'
    BY <1>34, SlotType DEF WUnlock, CallTypes, CursorInv, Answer, CallInv, PutPCs,
       DeletePCs, GetPCs, StoreTypes
  <2> QED BY <2>1, <2>2, <2>3, <2>4, <2>5
<1>35. ASSUME NEW p \in Clients, CallFail(p) PROVE Typing'
  <2>1. StoreTypes' /\ LockTypes'
    BY <1>35 DEF CallFail, StoreTypes, storeVars, fileVars, diskVars, LockTypes, lockVars
  <2>2. CallTypes'
    BY <1>35 DEF CallFail, CallTypes, Goto, Answer, PCs, FencePCs, PutPCs, DeletePCs,
       GetPCs, SavePCs, ExclPCs, Outs
  <2>3. CallInv'
    BY <1>35 DEF CallFail, CallTypes, CallInv, Goto, Answer, FencePCs, PutPCs, DeletePCs,
       GetPCs, SavePCs, ExclPCs, ExclOps, SharedOps
  <2>4. CursorInv'
    BY <1>35, SlotType DEF CallFail, CallTypes, CursorInv, Goto, Answer, CallInv, PutPCs,
       DeletePCs, GetPCs, StoreTypes
  <2> QED BY <2>1, <2>2, <2>3, <2>4
<1>36. ASSUME NEW p \in Clients, PutAddRefFail(p) PROVE Typing'
  <2>1. StoreTypes'
    <3>1. obj[p] \in Objects /\ pos[p] \in 1..NEntries(obj[p])
      BY <1>36, SlotType DEF PutAddRefFail, CallTypes, CallInv, CursorInv, PutPCs
    <3>2. Slot(obj[p], pos[p]) \in Chunks
      BY <3>1, SlotType
    <3>3. Rec("inc", Slot(obj[p], pos[p])) \in Records
      BY <3>2, RecType
    <3>4. journal \in Seq(Records)
      BY DEF StoreTypes
    <3>5. journal' \in Seq(Records)
      BY <1>36, <3>3, <3>4, AppendFailType DEF PutAddRefFail
    <3>6. faults' \in Seq(FaultKinds)
      BY <1>36, FaultType DEF PutAddRefFail, StoreTypes
    <3> QED BY <1>36, <3>5, <3>6 DEF PutAddRefFail, StoreTypes, storeVars, fileVars
  <2>2. LockTypes'
    BY <1>36 DEF PutAddRefFail, LockTypes, lockVars
  <2>3. CallTypes'
    BY <1>36 DEF PutAddRefFail, CallTypes, Goto, Answer, PCs, FencePCs, PutPCs, DeletePCs,
       GetPCs, SavePCs, ExclPCs, Outs
  <2>4. CallInv'
    BY <1>36 DEF PutAddRefFail, CallTypes, CallInv, Goto, Answer, FencePCs, PutPCs,
       DeletePCs, GetPCs, SavePCs, ExclPCs, ExclOps, SharedOps
  <2>5. CursorInv'
    BY <1>36, SlotType DEF PutAddRefFail, CallTypes, CursorInv, Goto, Answer, CallInv,
       PutPCs, DeletePCs, GetPCs, StoreTypes
  <2> QED BY <2>1, <2>2, <2>3, <2>4, <2>5
<1>37. ASSUME NEW p \in Clients, DeleteSubRefFail(p) PROVE Typing'
  <2>1. StoreTypes'
    <3>1. obj[p] \in Objects /\ pos[p] \in 1..NEntries(obj[p])
      BY <1>37, SlotType DEF DeleteSubRefFail, CallTypes, CallInv, CursorInv, DeletePCs
    <3>2. Slot(obj[p], pos[p]) \in Chunks
      BY <3>1, SlotType
    <3>3. Rec("dec", Slot(obj[p], pos[p])) \in Records
      BY <3>2, RecType
    <3>4. journal \in Seq(Records)
      BY DEF StoreTypes
    <3>5. journal' \in Seq(Records)
      BY <1>37, <3>3, <3>4, AppendFailType DEF DeleteSubRefFail
    <3>6. faults' \in Seq(FaultKinds)
      BY <1>37, FaultType DEF DeleteSubRefFail, StoreTypes
    <3> QED BY <1>37, <3>5, <3>6 DEF DeleteSubRefFail, StoreTypes, storeVars, fileVars
  <2>2. LockTypes'
    BY <1>37 DEF DeleteSubRefFail, LockTypes, lockVars
  <2>3. CallTypes'
    BY <1>37 DEF DeleteSubRefFail, CallTypes, Goto, Answer, PCs, FencePCs, PutPCs,
       DeletePCs, GetPCs, SavePCs, ExclPCs, Outs
  <2>4. CallInv'
    BY <1>37 DEF DeleteSubRefFail, CallTypes, CallInv, Goto, Answer, FencePCs, PutPCs,
       DeletePCs, GetPCs, SavePCs, ExclPCs, ExclOps, SharedOps
  <2>5. CursorInv'
    BY <1>37, SlotType DEF DeleteSubRefFail, CallTypes, CursorInv, Goto, Answer, CallInv,
       PutPCs, DeletePCs, GetPCs, StoreTypes
  <2> QED BY <2>1, <2>2, <2>3, <2>4, <2>5
<1>38. ASSUME NEW p \in Clients, DeleteManifestFail(p) PROVE Typing'
  <2>1. StoreTypes'
    BY <1>38 DEF DeleteManifestFail, StoreTypes, storeVars, fileVars, diskVars, Fault,
       FaultKinds
  <2>2. LockTypes'
    BY <1>38 DEF DeleteManifestFail, LockTypes, lockVars
  <2>3. CallTypes'
    BY <1>38 DEF DeleteManifestFail, CallTypes, Goto, Answer, PCs, FencePCs, PutPCs,
       DeletePCs, GetPCs, SavePCs, ExclPCs, Outs
  <2>4. CallInv'
    BY <1>38 DEF DeleteManifestFail, CallTypes, CallInv, Goto, Answer, FencePCs, PutPCs,
       DeletePCs, GetPCs, SavePCs, ExclPCs, ExclOps, SharedOps
  <2>5. CursorInv'
    BY <1>38, SlotType DEF DeleteManifestFail, CallTypes, CursorInv, Goto, Answer, CallInv,
       PutPCs, DeletePCs, GetPCs, StoreTypes
  <2> QED BY <2>1, <2>2, <2>3, <2>4, <2>5
<1>39. ASSUME NEW p \in Clients, PersistFail(p) PROVE Typing'
  <2>1. StoreTypes'
    <3>1. journal' \in Seq(Records)
      BY <1>39, EmptySeq DEF PersistFail, StoreTypes
    <3>2. faults' \in Seq(FaultKinds)
      BY <1>39, FaultType DEF PersistFail, StoreTypes
    <3> QED BY <1>39, <3>1, <3>2 DEF PersistFail, StoreTypes, storeVars, fileVars
  <2>2. LockTypes'
    BY <1>39 DEF PersistFail, LockTypes, CallTypes
  <2>3. CallTypes'
    BY <1>39 DEF PersistFail, CallTypes, Goto, Answer, AfterPersist, PCs, FencePCs, PutPCs,
       DeletePCs, GetPCs, SavePCs, ExclPCs, Outs
  <2>4. CallInv'
    BY <1>39 DEF PersistFail, CallTypes, CallInv, Goto, Answer, AfterPersist, FencePCs,
       PutPCs, DeletePCs, GetPCs, SavePCs, ExclPCs, ExclOps, SharedOps
  <2>5. CursorInv'
    BY <1>39, SlotType DEF PersistFail, CallTypes, CursorInv, Goto, Answer, AfterPersist,
       CallInv, PutPCs, DeletePCs, GetPCs, StoreTypes
  <2> QED BY <2>1, <2>2, <2>3, <2>4, <2>5
<1>40. ASSUME NEW p \in Clients, GCFail(p) PROVE Typing'
  <2>1. StoreTypes'
    BY <1>40, SlotType, RecType DEF GCFail, StoreTypes, storeVars, fileVars, diskVars,
       CallTypes, CallInv, CursorInv, PutPCs, DeletePCs, GetPCs
  <2>2. LockTypes'
    BY <1>40 DEF GCFail, LockTypes, lockVars
  <2>3. CallTypes'
    BY <1>40 DEF GCFail, CallTypes, Goto, Answer, PCs, FencePCs, PutPCs, DeletePCs, GetPCs,
       SavePCs, ExclPCs, Outs
  <2>4. CallInv'
    BY <1>40 DEF GCFail, CallTypes, CallInv, Goto, Answer, FencePCs, PutPCs, DeletePCs,
       GetPCs, SavePCs, ExclPCs, ExclOps, SharedOps
  <2>5. CursorInv'
    BY <1>40, SlotType DEF GCFail, CallTypes, CursorInv, Goto, Answer, CallInv, PutPCs,
       DeletePCs, GetPCs, StoreTypes
  <2> QED BY <2>1, <2>2, <2>3, <2>4, <2>5
<1>41. ASSUME NEW p \in Clients, GCSkip(p) PROVE Typing'
  <2>1. StoreTypes'
    BY <1>41, FaultType DEF GCSkip, StoreTypes, storeVars, fileVars, diskVars
  <2>2. LockTypes'
    BY <1>41 DEF GCSkip, LockTypes, lockVars
  <2>3. CallTypes'
    BY <1>41 DEF GCSkip, CallTypes, callVars
  <2>4. CallInv'
    BY <1>41 DEF GCSkip, CallInv, callVars
  <2>5. CursorInv'
    BY <1>41 DEF GCSkip, CursorInv, callVars
  <2> QED BY <2>1, <2>2, <2>3, <2>4, <2>5
<1>42. CASE UNCHANGED vars
  BY <1>42 DEF vars, StoreTypes, LockTypes, CallTypes, CallInv, CursorInv, storeVars,
     fileVars, diskVars, lockVars, callVars
<1> QED BY <1>1, <1>2, <1>3, <1>4, <1>5, <1>6, <1>7, <1>8, <1>9, <1>10, <1>11, <1>12, <1>13,
   <1>14, <1>15, <1>16, <1>17, <1>18, <1>19, <1>20, <1>21, <1>22, <1>23, <1>24, <1>25,
   <1>26, <1>27, <1>28, <1>29, <1>30, <1>31, <1>32, <1>33, <1>34, <1>35, <1>36, <1>37,
   <1>38, <1>39, <1>40, <1>41, <1>42 DEF Next, Call, Step, Failure, PutStep, DeleteStep,
   PersistStep, PersistBegin, GetStep, ExclStep

\* Type correctness of every state of the store, whatever the clients, objects
\* and chunk lists are (TypeOK), and the typing of calls it rests on.
THEOREM TypeCorrect == Spec => []TypeOK
<1>1. Typing /\ [Next]_vars => Typing'
  BY TypingStep
<1>2. Typing => TypeOK
  BY DEF Typing
<1> QED BY <1>1, <1>2, TypingInit, PTL DEF Spec

-----------------------------------------------------------------------------
(* The fence *)

\* Every step keeps the fence a readers-writer lock.
LEMMA FenceStep == Typing /\ FenceInv /\ [Next]_vars => FenceInv'
<1> SUFFICES ASSUME Typing, FenceInv, [Next]_vars
             PROVE  FenceInv'
  OBVIOUS
<1> USE DEF Typing, TypeOK
<1>1. ASSUME NEW p \in Clients, CallShared(p) PROVE FenceInv'
  BY <1>1 DEF CallShared, CallTypes, LockTypes, CallInv, FenceInv, InShared, Exclusive,
     FencePCs, PutPCs, DeletePCs, GetPCs, SavePCs, ExclPCs, ExclOps, SharedOps, Goto,
     lockVars
<1>2. ASSUME NEW p \in Clients, CallExclusive(p) PROVE FenceInv'
  BY <1>2 DEF CallExclusive, CallTypes, LockTypes, CallInv, FenceInv, InShared, Exclusive,
     FencePCs, PutPCs, DeletePCs, GetPCs, SavePCs, ExclPCs, ExclOps, SharedOps, Goto,
     lockVars
<1>3. ASSUME NEW p \in Clients, RLock(p) PROVE FenceInv'
  <2>1. CASE writer = NoClient
    BY <1>3, <2>1, NoneAssumption DEF RLock, CallTypes, LockTypes, CallInv, FenceInv,
       InShared, Exclusive, FencePCs, PutPCs, DeletePCs, GetPCs, SavePCs, ExclPCs, ExclOps,
       SharedOps, Goto, callVars
  <2>2. CASE writer # NoClient
    BY <1>3, <2>2 DEF RLock, CallTypes, LockTypes, CallInv, FenceInv, InShared, Exclusive,
       FencePCs, PutPCs, DeletePCs, GetPCs, SavePCs, ExclPCs, ExclOps, SharedOps, Goto,
       callVars
  <2> QED BY <2>1, <2>2
<1>4. ASSUME NEW p \in Clients, EnterClosed(p) PROVE FenceInv'
  BY <1>4 DEF EnterClosed, CallTypes, LockTypes, CallInv, FenceInv, InShared, Exclusive,
     FencePCs, PutPCs, DeletePCs, GetPCs, SavePCs, ExclPCs, ExclOps, SharedOps, Goto,
     Answer, lockVars
<1>5. ASSUME NEW p \in Clients, Enter(p) PROVE FenceInv'
  BY <1>5 DEF Enter, CallTypes, LockTypes, CallInv, FenceInv, InShared, Exclusive, FencePCs,
     PutPCs, DeletePCs, GetPCs, SavePCs, ExclPCs, ExclOps, SharedOps, Goto, lockVars
<1>6. ASSUME NEW p \in Clients, Finish(p) PROVE FenceInv'
  BY <1>6 DEF Finish, CallTypes, LockTypes, CallInv, FenceInv, InShared, Exclusive,
     FencePCs, PutPCs, DeletePCs, GetPCs, SavePCs, ExclPCs, ExclOps, SharedOps, Goto, Answer
<1>7. ASSUME NEW p \in Clients, PutChunk(p) PROVE FenceInv'
  BY <1>7 DEF PutChunk, CallTypes, LockTypes, CallInv, FenceInv, InShared, Exclusive,
     FencePCs, PutPCs, DeletePCs, GetPCs, SavePCs, ExclPCs, ExclOps, SharedOps, lockVars
<1>8. ASSUME NEW p \in Clients, PutLock(p) PROVE FenceInv'
  BY <1>8 DEF PutLock, CallTypes, LockTypes, CallInv, FenceInv, InShared, Exclusive,
     FencePCs, PutPCs, DeletePCs, GetPCs, SavePCs, ExclPCs, ExclOps, SharedOps, Goto
<1>9. ASSUME NEW p \in Clients, PutBump(p) PROVE FenceInv'
  BY <1>9 DEF PutBump, CallTypes, LockTypes, CallInv, FenceInv, InShared, Exclusive,
     FencePCs, PutPCs, DeletePCs, GetPCs, SavePCs, ExclPCs, ExclOps, SharedOps, Goto,
     lockVars, callVars
<1>10. ASSUME NEW p \in Clients, PutUndo(p) PROVE FenceInv'
  BY <1>10 DEF PutUndo, CallTypes, LockTypes, CallInv, FenceInv, InShared, Exclusive,
     FencePCs, PutPCs, DeletePCs, GetPCs, SavePCs, ExclPCs, ExclOps, SharedOps, Goto,
     lockVars, callVars
<1>11. ASSUME NEW p \in Clients, PutManifest(p) PROVE FenceInv'
  BY <1>11 DEF PutManifest, CallTypes, LockTypes, CallInv, FenceInv, InShared, Exclusive,
     FencePCs, PutPCs, DeletePCs, GetPCs, SavePCs, ExclPCs, ExclOps, SharedOps, Goto,
     lockVars
<1>12. ASSUME NEW p \in Clients, PutAddRef(p) PROVE FenceInv'
  BY <1>12 DEF PutAddRef, CallTypes, LockTypes, CallInv, FenceInv, InShared, Exclusive,
     FencePCs, PutPCs, DeletePCs, GetPCs, SavePCs, ExclPCs, ExclOps, SharedOps, Log,
     lockVars
<1>13. ASSUME NEW p \in Clients, PutIndex(p) PROVE FenceInv'
  BY <1>13 DEF PutIndex, CallTypes, LockTypes, CallInv, FenceInv, InShared, Exclusive,
     FencePCs, PutPCs, DeletePCs, GetPCs, SavePCs, ExclPCs, ExclOps, SharedOps, Goto,
     lockVars, callVars
<1>14. ASSUME NEW p \in Clients, DeleteLock(p) PROVE FenceInv'
  BY <1>14 DEF DeleteLock, CallTypes, LockTypes, CallInv, FenceInv, InShared, Exclusive,
     FencePCs, PutPCs, DeletePCs, GetPCs, SavePCs, ExclPCs, ExclOps, SharedOps, Goto, Answer
<1>15. ASSUME NEW p \in Clients, DeleteDec(p) PROVE FenceInv'
  BY <1>15 DEF DeleteDec, CallTypes, LockTypes, CallInv, FenceInv, InShared, Exclusive,
     FencePCs, PutPCs, DeletePCs, GetPCs, SavePCs, ExclPCs, ExclOps, SharedOps, Goto,
     lockVars, callVars
<1>16. ASSUME NEW p \in Clients, DeleteSubRef(p) PROVE FenceInv'
  BY <1>16 DEF DeleteSubRef, CallTypes, LockTypes, CallInv, FenceInv, InShared, Exclusive,
     FencePCs, PutPCs, DeletePCs, GetPCs, SavePCs, ExclPCs, ExclOps, SharedOps, Log,
     lockVars
<1>17. ASSUME NEW p \in Clients, DeleteUnderflow(p) PROVE FenceInv'
  BY <1>17 DEF DeleteUnderflow, CallTypes, LockTypes, CallInv, FenceInv, InShared,
     Exclusive, FencePCs, PutPCs, DeletePCs, GetPCs, SavePCs, ExclPCs, ExclOps, SharedOps,
     Goto, Answer, lockVars
<1>18. ASSUME NEW p \in Clients, DeleteIndex(p) PROVE FenceInv'
  BY <1>18 DEF DeleteIndex, CallTypes, LockTypes, CallInv, FenceInv, InShared, Exclusive,
     FencePCs, PutPCs, DeletePCs, GetPCs, SavePCs, ExclPCs, ExclOps, SharedOps, Goto,
     lockVars, callVars
<1>19. ASSUME NEW p \in Clients, DeleteManifest(p) PROVE FenceInv'
  BY <1>19 DEF DeleteManifest, CallTypes, LockTypes, CallInv, FenceInv, InShared, Exclusive,
     FencePCs, PutPCs, DeletePCs, GetPCs, SavePCs, ExclPCs, ExclOps, SharedOps, Goto,
     lockVars, callVars
<1>20. ASSUME NEW p \in Clients, PersistMemory(p) PROVE FenceInv'
  BY <1>20 DEF PersistMemory, CallTypes, LockTypes, CallInv, FenceInv, InShared, Exclusive,
     FencePCs, PutPCs, DeletePCs, GetPCs, SavePCs, ExclPCs, ExclOps, SharedOps, Answer,
     AfterPersist, Goto, lockVars
<1>21. ASSUME NEW p \in Clients, PersistIndex(p) PROVE FenceInv'
  BY <1>21 DEF PersistIndex, CallTypes, LockTypes, CallInv, FenceInv, InShared, Exclusive,
     FencePCs, PutPCs, DeletePCs, GetPCs, SavePCs, ExclPCs, ExclOps, SharedOps, Goto, Fault,
     callVars
<1>22. ASSUME NEW p \in Clients, PersistRefs(p) PROVE FenceInv'
  BY <1>22 DEF PersistRefs, CallTypes, LockTypes, CallInv, FenceInv, InShared, Exclusive,
     FencePCs, PutPCs, DeletePCs, GetPCs, SavePCs, ExclPCs, ExclOps, SharedOps, Goto, Fault,
     lockVars, callVars
<1>23. ASSUME NEW p \in Clients, PersistTruncate(p) PROVE FenceInv'
  BY <1>23 DEF PersistTruncate, CallTypes, LockTypes, CallInv, FenceInv, InShared,
     Exclusive, FencePCs, PutPCs, DeletePCs, GetPCs, SavePCs, ExclPCs, ExclOps, SharedOps,
     Answer, AfterPersist, Goto
<1>24. ASSUME NEW p \in Clients, GetLookup(p) PROVE FenceInv'
  BY <1>24 DEF GetLookup, CallTypes, LockTypes, CallInv, FenceInv, InShared, Exclusive,
     FencePCs, PutPCs, DeletePCs, GetPCs, SavePCs, ExclPCs, ExclOps, SharedOps, Goto,
     Answer, lockVars
<1>25. ASSUME NEW p \in Clients, GetLoad(p) PROVE FenceInv'
  BY <1>25 DEF GetLoad, CallTypes, LockTypes, CallInv, FenceInv, InShared, Exclusive,
     FencePCs, PutPCs, DeletePCs, GetPCs, SavePCs, ExclPCs, ExclOps, SharedOps, Goto,
     Answer, lockVars
<1>26. ASSUME NEW p \in Clients, ReadChunk(p) PROVE FenceInv'
  BY <1>26 DEF ReadChunk, CallTypes, LockTypes, CallInv, FenceInv, InShared, Exclusive,
     FencePCs, PutPCs, DeletePCs, GetPCs, SavePCs, ExclPCs, ExclOps, SharedOps, Answer,
     lockVars
<1>27. ASSUME NEW p \in Clients, CloseReader(p) PROVE FenceInv'
  BY <1>27 DEF CloseReader, CallTypes, LockTypes, CallInv, FenceInv, InShared, Exclusive,
     FencePCs, PutPCs, DeletePCs, GetPCs, SavePCs, ExclPCs, ExclOps, SharedOps, Goto,
     Answer, lockVars
<1>28. ASSUME NEW p \in Clients, WLockAnnounce(p) PROVE FenceInv'
  BY <1>28, NoneAssumption DEF WLockAnnounce, CallTypes, LockTypes, CallInv, FenceInv,
     InShared, Exclusive, FencePCs, PutPCs, DeletePCs, GetPCs, SavePCs, ExclPCs, ExclOps,
     SharedOps, Goto, callVars
<1>29. ASSUME NEW p \in Clients, WLockClosed(p) PROVE FenceInv'
  BY <1>29 DEF WLockClosed, CallTypes, LockTypes, CallInv, FenceInv, InShared, Exclusive,
     FencePCs, PutPCs, DeletePCs, GetPCs, SavePCs, ExclPCs, ExclOps, SharedOps, Goto,
     Answer, lockVars
<1>30. ASSUME NEW p \in Clients, GCBegin(p) PROVE FenceInv'
  BY <1>30 DEF GCBegin, CallTypes, LockTypes, CallInv, FenceInv, InShared, Exclusive,
     FencePCs, PutPCs, DeletePCs, GetPCs, SavePCs, ExclPCs, ExclOps, SharedOps, Goto,
     lockVars, callVars
<1>31. ASSUME NEW p \in Clients, GCSweep(p) PROVE FenceInv'
  BY <1>31 DEF GCSweep, CallTypes, LockTypes, CallInv, FenceInv, InShared, Exclusive,
     FencePCs, PutPCs, DeletePCs, GetPCs, SavePCs, ExclPCs, ExclOps, SharedOps, lockVars,
     callVars
<1>32. ASSUME NEW p \in Clients, GCEnd(p) PROVE FenceInv'
  BY <1>32 DEF GCEnd, CallTypes, LockTypes, CallInv, FenceInv, InShared, Exclusive,
     FencePCs, PutPCs, DeletePCs, GetPCs, SavePCs, ExclPCs, ExclOps, SharedOps, Goto,
     lockVars, callVars
<1>33. ASSUME NEW p \in Clients, CloseBegin(p) PROVE FenceInv'
  BY <1>33 DEF CloseBegin, CallTypes, LockTypes, CallInv, FenceInv, InShared, Exclusive,
     FencePCs, PutPCs, DeletePCs, GetPCs, SavePCs, ExclPCs, ExclOps, SharedOps, Goto,
     lockVars, callVars
<1>34. ASSUME NEW p \in Clients, WUnlock(p) PROVE FenceInv'
  <2>1. Exclusive(p) /\ writer = p /\ shared = {}
    BY <1>34 DEF WUnlock, CallTypes, LockTypes, CallInv, FenceInv, InShared, Exclusive,
       FencePCs, PutPCs, DeletePCs, GetPCs, SavePCs, ExclPCs, ExclOps, SharedOps
  <2>2. \A q \in Clients : q # p => ~Exclusive(q) /\ pc[q] # "wwait" /\ ~InShared(q)
    BY <2>1 DEF FenceInv
  <2>3. shared' = {q \in Clients : pc[q] = "rwait"} /\ writer' = NoClient
    BY <1>34 DEF WUnlock
  <2>4. pc'[p] = "idle"
    BY <1>34 DEF WUnlock, CallTypes
  <2>5. \A q \in Clients : q # p =>
           pc'[q] = (IF pc[q] = "rwait" THEN "enter" ELSE pc[q]) /\ op'[q] = op[q]
    BY <1>34 DEF WUnlock, CallTypes
  <2>6. \A q \in Clients : InShared(q)' <=> pc[q] = "rwait"
    BY <2>1, <2>2, <2>4, <2>5 DEF CallTypes, LockTypes, CallInv, FenceInv, InShared,
       Exclusive, FencePCs, PutPCs, DeletePCs, GetPCs, SavePCs, ExclPCs, ExclOps, SharedOps
  <2>7. \A q \in Clients : ~Exclusive(q)' /\ pc'[q] # "wwait"
    BY <2>1, <2>2, <2>4, <2>5 DEF CallTypes, LockTypes, CallInv, FenceInv, InShared,
       Exclusive, FencePCs, PutPCs, DeletePCs, GetPCs, SavePCs, ExclPCs, ExclOps, SharedOps
  <2> QED BY <2>3, <2>6, <2>7, NoneAssumption DEF FenceInv
<1>35. ASSUME NEW p \in Clients, CallFail(p) PROVE FenceInv'
  BY <1>35 DEF CallFail, CallTypes, LockTypes, CallInv, FenceInv, InShared, Exclusive,
     FencePCs, PutPCs, DeletePCs, GetPCs, SavePCs, ExclPCs, ExclOps, SharedOps, Goto,
     Answer, lockVars
<1>36. ASSUME NEW p \in Clients, PutAddRefFail(p) PROVE FenceInv'
  BY <1>36 DEF PutAddRefFail, CallTypes, LockTypes, CallInv, FenceInv, InShared, Exclusive,
     FencePCs, PutPCs, DeletePCs, GetPCs, SavePCs, ExclPCs, ExclOps, SharedOps, Goto,
     Answer, Fault, lockVars
<1>37. ASSUME NEW p \in Clients, DeleteSubRefFail(p) PROVE FenceInv'
  BY <1>37 DEF DeleteSubRefFail, CallTypes, LockTypes, CallInv, FenceInv, InShared,
     Exclusive, FencePCs, PutPCs, DeletePCs, GetPCs, SavePCs, ExclPCs, ExclOps, SharedOps,
     Goto, Answer, Fault, lockVars
<1>38. ASSUME NEW p \in Clients, DeleteManifestFail(p) PROVE FenceInv'
  BY <1>38 DEF DeleteManifestFail, CallTypes, LockTypes, CallInv, FenceInv, InShared,
     Exclusive, FencePCs, PutPCs, DeletePCs, GetPCs, SavePCs, ExclPCs, ExclOps, SharedOps,
     Goto, Answer, Fault, lockVars
<1>39. ASSUME NEW p \in Clients, PersistFail(p) PROVE FenceInv'
  BY <1>39 DEF PersistFail, CallTypes, LockTypes, CallInv, FenceInv, InShared, Exclusive,
     FencePCs, PutPCs, DeletePCs, GetPCs, SavePCs, ExclPCs, ExclOps, SharedOps, Goto,
     Answer, AfterPersist, Fault
<1>40. ASSUME NEW p \in Clients, GCFail(p) PROVE FenceInv'
  BY <1>40 DEF GCFail, CallTypes, LockTypes, CallInv, FenceInv, InShared, Exclusive,
     FencePCs, PutPCs, DeletePCs, GetPCs, SavePCs, ExclPCs, ExclOps, SharedOps, Goto,
     Answer, lockVars
<1>41. ASSUME NEW p \in Clients, GCSkip(p) PROVE FenceInv'
  BY <1>41 DEF GCSkip, CallTypes, LockTypes, CallInv, FenceInv, InShared, Exclusive,
     FencePCs, PutPCs, DeletePCs, GetPCs, SavePCs, ExclPCs, ExclOps, SharedOps, Fault,
     lockVars, callVars
<1>42. CASE UNCHANGED vars
  BY <1>42 DEF vars, storeVars, fileVars, diskVars, lockVars, callVars, CallTypes,
     LockTypes, CallInv, FenceInv, InShared, Exclusive, FencePCs, PutPCs, DeletePCs, GetPCs,
     SavePCs, ExclPCs, ExclOps, SharedOps
<1> QED BY <1>1, <1>2, <1>3, <1>4, <1>5, <1>6, <1>7, <1>8, <1>9, <1>10, <1>11, <1>12, <1>13,
   <1>14, <1>15, <1>16, <1>17, <1>18, <1>19, <1>20, <1>21, <1>22, <1>23, <1>24, <1>25,
   <1>26, <1>27, <1>28, <1>29, <1>30, <1>31, <1>32, <1>33, <1>34, <1>35, <1>36, <1>37,
   <1>38, <1>39, <1>40, <1>41, <1>42 DEF Next, Call, Step, Failure, PutStep, DeleteStep,
   PersistStep, PersistBegin, GetStep, ExclStep

-----------------------------------------------------------------------------
(* Object locks *)

\* Every step keeps the object locks exclusive.
LEMMA LockStep == Typing /\ LockInv /\ [Next]_vars => LockInv'
<1> SUFFICES ASSUME Typing, LockInv, [Next]_vars
             PROVE  LockInv'
  OBVIOUS
<1> USE DEF Typing, TypeOK
<1>1. ASSUME NEW p \in Clients, CallShared(p) PROVE LockInv'
  BY <1>1 DEF CallShared, CallTypes, LockTypes, CallInv, LockInv, InObject, FencePCs,
     PutPCs, DeletePCs, GetPCs, SavePCs, ExclPCs, ExclOps, SharedOps, Goto, lockVars
<1>2. ASSUME NEW p \in Clients, CallExclusive(p) PROVE LockInv'
  BY <1>2 DEF CallExclusive, CallTypes, LockTypes, CallInv, LockInv, InObject, FencePCs,
     PutPCs, DeletePCs, GetPCs, SavePCs, ExclPCs, ExclOps, SharedOps, Goto, lockVars
<1>3. ASSUME NEW p \in Clients, RLock(p) PROVE LockInv'
  BY <1>3 DEF RLock, CallTypes, LockTypes, CallInv, LockInv, InObject, FencePCs, PutPCs,
     DeletePCs, GetPCs, SavePCs, ExclPCs, ExclOps, SharedOps, Goto, callVars
<1>4. ASSUME NEW p \in Clients, EnterClosed(p) PROVE LockInv'
  BY <1>4 DEF EnterClosed, CallTypes, LockTypes, CallInv, LockInv, InObject, FencePCs,
     PutPCs, DeletePCs, GetPCs, SavePCs, ExclPCs, ExclOps, SharedOps, Goto, Answer, lockVars
<1>5. ASSUME NEW p \in Clients, Enter(p) PROVE LockInv'
  BY <1>5 DEF Enter, CallTypes, LockTypes, CallInv, LockInv, InObject, FencePCs, PutPCs,
     DeletePCs, GetPCs, SavePCs, ExclPCs, ExclOps, SharedOps, Goto, lockVars
<1>6. ASSUME NEW p \in Clients, Finish(p) PROVE LockInv'
  BY <1>6 DEF Finish, CallTypes, LockTypes, CallInv, LockInv, InObject, FencePCs, PutPCs,
     DeletePCs, GetPCs, SavePCs, ExclPCs, ExclOps, SharedOps, Goto, Answer
<1>7. ASSUME NEW p \in Clients, PutChunk(p) PROVE LockInv'
  BY <1>7 DEF PutChunk, CallTypes, LockTypes, CallInv, LockInv, InObject, FencePCs, PutPCs,
     DeletePCs, GetPCs, SavePCs, ExclPCs, ExclOps, SharedOps, lockVars
<1>8. ASSUME NEW p \in Clients, PutLock(p) PROVE LockInv'
  <2>1. obj[p] \in Objects /\ objLock[obj[p]] = NoClient /\ ~InObject(p) /\ pc[p] # "finish"
    BY <1>8 DEF PutLock, CallTypes, LockTypes, CallInv, LockInv, InObject, FencePCs, PutPCs,
       DeletePCs, GetPCs, SavePCs, ExclPCs, ExclOps, SharedOps
  <2>2. \A o \in Objects : objLock'[o] = IF o = obj[p] THEN p ELSE objLock[o]
    BY <1>8 DEF PutLock, LockTypes
  <2>3. (InObject(p)' \/ pc'[p] = "finish") /\ obj' = obj
    BY <1>8 DEF PutLock, CallTypes, LockTypes, CallInv, LockInv, InObject, FencePCs, PutPCs,
       DeletePCs, GetPCs, SavePCs, ExclPCs, ExclOps, SharedOps, Goto
  <2>4. \A q \in Clients : q # p => pc'[q] = pc[q] /\ (InObject(q)' <=> InObject(q))
    BY <1>8 DEF PutLock, CallTypes, LockTypes, CallInv, LockInv, InObject, FencePCs, PutPCs,
       DeletePCs, GetPCs, SavePCs, ExclPCs, ExclOps, SharedOps, Goto
  <2>5. \A o \in Objects : objLock[o] # p
    BY <2>1, NoneAssumption DEF LockInv
  <2>6. \A q \in Clients : InObject(q)' => objLock'[obj'[q]] = q
    <3> SUFFICES ASSUME NEW q \in Clients, InObject(q)' PROVE objLock'[obj'[q]] = q
      OBVIOUS
    <3>1. CASE q = p
      BY <2>1, <2>2, <2>3, <3>1
    <3>2. CASE q # p
      <4>1. InObject(q) /\ objLock[obj[q]] = q /\ obj[q] \in Objects
        BY <2>4, <3>2 DEF CallTypes, LockTypes, CallInv, LockInv, InObject, FencePCs,
           PutPCs, DeletePCs, GetPCs, SavePCs, ExclPCs, ExclOps, SharedOps
      <4>2. obj[q] # obj[p]
        BY <2>1, <4>1, NoneAssumption
      <4> QED BY <2>2, <2>3, <4>1, <4>2
    <3> QED BY <3>1, <3>2
  <2>7. \A o \in Objects : objLock'[o] # NoClient =>
           /\ obj'[objLock'[o]] = o
           /\ InObject(objLock[o])' \/ pc'[objLock'[o]] = "finish"
    <3> SUFFICES ASSUME NEW o \in Objects, objLock'[o] # NoClient
                 PROVE  /\ obj'[objLock'[o]] = o
                        /\ InObject(objLock[o])' \/ pc'[objLock'[o]] = "finish"
      OBVIOUS
    <3>1. CASE o = obj[p]
      BY <2>2, <2>3, <3>1 DEF InObject
    <3>2. CASE o # obj[p]
      BY <2>2, <2>3, <2>4, <2>5, <3>2 DEF LockInv, LockTypes, InObject
    <3> QED BY <3>1, <3>2
  <2> QED BY <2>6, <2>7 DEF LockInv
<1>9. ASSUME NEW p \in Clients, PutBump(p) PROVE LockInv'
  BY <1>9 DEF PutBump, CallTypes, LockTypes, CallInv, LockInv, InObject, FencePCs, PutPCs,
     DeletePCs, GetPCs, SavePCs, ExclPCs, ExclOps, SharedOps, Goto, lockVars, callVars
<1>10. ASSUME NEW p \in Clients, PutUndo(p) PROVE LockInv'
  BY <1>10 DEF PutUndo, CallTypes, LockTypes, CallInv, LockInv, InObject, FencePCs, PutPCs,
     DeletePCs, GetPCs, SavePCs, ExclPCs, ExclOps, SharedOps, Goto, lockVars, callVars
<1>11. ASSUME NEW p \in Clients, PutManifest(p) PROVE LockInv'
  BY <1>11 DEF PutManifest, CallTypes, LockTypes, CallInv, LockInv, InObject, FencePCs,
     PutPCs, DeletePCs, GetPCs, SavePCs, ExclPCs, ExclOps, SharedOps, Goto, lockVars
<1>12. ASSUME NEW p \in Clients, PutAddRef(p) PROVE LockInv'
  BY <1>12 DEF PutAddRef, CallTypes, LockTypes, CallInv, LockInv, InObject, FencePCs,
     PutPCs, DeletePCs, GetPCs, SavePCs, ExclPCs, ExclOps, SharedOps, Log, lockVars
<1>13. ASSUME NEW p \in Clients, PutIndex(p) PROVE LockInv'
  BY <1>13 DEF PutIndex, CallTypes, LockTypes, CallInv, LockInv, InObject, FencePCs, PutPCs,
     DeletePCs, GetPCs, SavePCs, ExclPCs, ExclOps, SharedOps, Goto, lockVars, callVars
<1>14. ASSUME NEW p \in Clients, DeleteLock(p) PROVE LockInv'
  <2>1. obj[p] \in Objects /\ objLock[obj[p]] = NoClient /\ ~InObject(p) /\ pc[p] # "finish"
    BY <1>14 DEF DeleteLock, CallTypes, LockTypes, CallInv, LockInv, InObject, FencePCs,
       PutPCs, DeletePCs, GetPCs, SavePCs, ExclPCs, ExclOps, SharedOps
  <2>2. \A o \in Objects : objLock'[o] = IF o = obj[p] THEN p ELSE objLock[o]
    BY <1>14 DEF DeleteLock, LockTypes
  <2>3. (InObject(p)' \/ pc'[p] = "finish") /\ obj' = obj
    BY <1>14 DEF DeleteLock, CallTypes, LockTypes, CallInv, LockInv, InObject, FencePCs,
       PutPCs, DeletePCs, GetPCs, SavePCs, ExclPCs, ExclOps, SharedOps, Goto, Answer
  <2>4. \A q \in Clients : q # p => pc'[q] = pc[q] /\ (InObject(q)' <=> InObject(q))
    BY <1>14 DEF DeleteLock, CallTypes, LockTypes, CallInv, LockInv, InObject, FencePCs,
       PutPCs, DeletePCs, GetPCs, SavePCs, ExclPCs, ExclOps, SharedOps, Goto, Answer
  <2>5. \A o \in Objects : objLock[o] # p
    BY <2>1, NoneAssumption DEF LockInv
  <2>6. \A q \in Clients : InObject(q)' => objLock'[obj'[q]] = q
    <3> SUFFICES ASSUME NEW q \in Clients, InObject(q)' PROVE objLock'[obj'[q]] = q
      OBVIOUS
    <3>1. CASE q = p
      BY <2>1, <2>2, <2>3, <3>1
    <3>2. CASE q # p
      <4>1. InObject(q) /\ objLock[obj[q]] = q /\ obj[q] \in Objects
        BY <2>4, <3>2 DEF CallTypes, LockTypes, CallInv, LockInv, InObject, FencePCs,
           PutPCs, DeletePCs, GetPCs, SavePCs, ExclPCs, ExclOps, SharedOps
      <4>2. obj[q] # obj[p]
        BY <2>1, <4>1, NoneAssumption
      <4> QED BY <2>2, <2>3, <4>1, <4>2
    <3> QED BY <3>1, <3>2
  <2>7. \A o \in Objects : objLock'[o] # NoClient =>
           /\ obj'[objLock'[o]] = o
           /\ InObject(objLock[o])' \/ pc'[objLock'[o]] = "finish"
    <3> SUFFICES ASSUME NEW o \in Objects, objLock'[o] # NoClient
                 PROVE  /\ obj'[objLock'[o]] = o
                        /\ InObject(objLock[o])' \/ pc'[objLock'[o]] = "finish"
      OBVIOUS
    <3>1. CASE o = obj[p]
      BY <2>2, <2>3, <3>1 DEF InObject
    <3>2. CASE o # obj[p]
      BY <2>2, <2>3, <2>4, <2>5, <3>2 DEF LockInv, LockTypes, InObject
    <3> QED BY <3>1, <3>2
  <2> QED BY <2>6, <2>7 DEF LockInv
<1>15. ASSUME NEW p \in Clients, DeleteDec(p) PROVE LockInv'
  BY <1>15 DEF DeleteDec, CallTypes, LockTypes, CallInv, LockInv, InObject, FencePCs,
     PutPCs, DeletePCs, GetPCs, SavePCs, ExclPCs, ExclOps, SharedOps, Goto, lockVars,
     callVars
<1>16. ASSUME NEW p \in Clients, DeleteSubRef(p) PROVE LockInv'
  BY <1>16 DEF DeleteSubRef, CallTypes, LockTypes, CallInv, LockInv, InObject, FencePCs,
     PutPCs, DeletePCs, GetPCs, SavePCs, ExclPCs, ExclOps, SharedOps, Log, lockVars
<1>17. ASSUME NEW p \in Clients, DeleteUnderflow(p) PROVE LockInv'
  BY <1>17 DEF DeleteUnderflow, CallTypes, LockTypes, CallInv, LockInv, InObject, FencePCs,
     PutPCs, DeletePCs, GetPCs, SavePCs, ExclPCs, ExclOps, SharedOps, Goto, Answer, lockVars
<1>18. ASSUME NEW p \in Clients, DeleteIndex(p) PROVE LockInv'
  BY <1>18 DEF DeleteIndex, CallTypes, LockTypes, CallInv, LockInv, InObject, FencePCs,
     PutPCs, DeletePCs, GetPCs, SavePCs, ExclPCs, ExclOps, SharedOps, Goto, lockVars,
     callVars
<1>19. ASSUME NEW p \in Clients, DeleteManifest(p) PROVE LockInv'
  BY <1>19 DEF DeleteManifest, CallTypes, LockTypes, CallInv, LockInv, InObject, FencePCs,
     PutPCs, DeletePCs, GetPCs, SavePCs, ExclPCs, ExclOps, SharedOps, Goto, lockVars,
     callVars
<1>20. ASSUME NEW p \in Clients, PersistMemory(p) PROVE LockInv'
  BY <1>20 DEF PersistMemory, CallTypes, LockTypes, CallInv, LockInv, InObject, FencePCs,
     PutPCs, DeletePCs, GetPCs, SavePCs, ExclPCs, ExclOps, SharedOps, Answer, AfterPersist,
     Goto, lockVars
<1>21. ASSUME NEW p \in Clients, PersistIndex(p) PROVE LockInv'
  BY <1>21 DEF PersistIndex, CallTypes, LockTypes, CallInv, LockInv, InObject, FencePCs,
     PutPCs, DeletePCs, GetPCs, SavePCs, ExclPCs, ExclOps, SharedOps, Goto, Fault, callVars
<1>22. ASSUME NEW p \in Clients, PersistRefs(p) PROVE LockInv'
  BY <1>22 DEF PersistRefs, CallTypes, LockTypes, CallInv, LockInv, InObject, FencePCs,
     PutPCs, DeletePCs, GetPCs, SavePCs, ExclPCs, ExclOps, SharedOps, Goto, Fault, lockVars,
     callVars
<1>23. ASSUME NEW p \in Clients, PersistTruncate(p) PROVE LockInv'
  BY <1>23 DEF PersistTruncate, CallTypes, LockTypes, CallInv, LockInv, InObject, FencePCs,
     PutPCs, DeletePCs, GetPCs, SavePCs, ExclPCs, ExclOps, SharedOps, Answer, AfterPersist,
     Goto
<1>24. ASSUME NEW p \in Clients, GetLookup(p) PROVE LockInv'
  BY <1>24 DEF GetLookup, CallTypes, LockTypes, CallInv, LockInv, InObject, FencePCs,
     PutPCs, DeletePCs, GetPCs, SavePCs, ExclPCs, ExclOps, SharedOps, Goto, Answer, lockVars
<1>25. ASSUME NEW p \in Clients, GetLoad(p) PROVE LockInv'
  BY <1>25 DEF GetLoad, CallTypes, LockTypes, CallInv, LockInv, InObject, FencePCs, PutPCs,
     DeletePCs, GetPCs, SavePCs, ExclPCs, ExclOps, SharedOps, Goto, Answer, lockVars
<1>26. ASSUME NEW p \in Clients, ReadChunk(p) PROVE LockInv'
  BY <1>26 DEF ReadChunk, CallTypes, LockTypes, CallInv, LockInv, InObject, FencePCs,
     PutPCs, DeletePCs, GetPCs, SavePCs, ExclPCs, ExclOps, SharedOps, Answer, lockVars
<1>27. ASSUME NEW p \in Clients, CloseReader(p) PROVE LockInv'
  BY <1>27 DEF CloseReader, CallTypes, LockTypes, CallInv, LockInv, InObject, FencePCs,
     PutPCs, DeletePCs, GetPCs, SavePCs, ExclPCs, ExclOps, SharedOps, Goto, Answer, lockVars
<1>28. ASSUME NEW p \in Clients, WLockAnnounce(p) PROVE LockInv'
  BY <1>28 DEF WLockAnnounce, CallTypes, LockTypes, CallInv, LockInv, InObject, FencePCs,
     PutPCs, DeletePCs, GetPCs, SavePCs, ExclPCs, ExclOps, SharedOps, Goto, callVars
<1>29. ASSUME NEW p \in Clients, WLockClosed(p) PROVE LockInv'
  BY <1>29 DEF WLockClosed, CallTypes, LockTypes, CallInv, LockInv, InObject, FencePCs,
     PutPCs, DeletePCs, GetPCs, SavePCs, ExclPCs, ExclOps, SharedOps, Goto, Answer, lockVars
<1>30. ASSUME NEW p \in Clients, GCBegin(p) PROVE LockInv'
  BY <1>30 DEF GCBegin, CallTypes, LockTypes, CallInv, LockInv, InObject, FencePCs, PutPCs,
     DeletePCs, GetPCs, SavePCs, ExclPCs, ExclOps, SharedOps, Goto, lockVars, callVars
<1>31. ASSUME NEW p \in Clients, GCSweep(p) PROVE LockInv'
  BY <1>31 DEF GCSweep, CallTypes, LockTypes, CallInv, LockInv, InObject, FencePCs, PutPCs,
     DeletePCs, GetPCs, SavePCs, ExclPCs, ExclOps, SharedOps, lockVars, callVars
<1>32. ASSUME NEW p \in Clients, GCEnd(p) PROVE LockInv'
  BY <1>32 DEF GCEnd, CallTypes, LockTypes, CallInv, LockInv, InObject, FencePCs, PutPCs,
     DeletePCs, GetPCs, SavePCs, ExclPCs, ExclOps, SharedOps, Goto, lockVars, callVars
<1>33. ASSUME NEW p \in Clients, CloseBegin(p) PROVE LockInv'
  BY <1>33 DEF CloseBegin, CallTypes, LockTypes, CallInv, LockInv, InObject, FencePCs,
     PutPCs, DeletePCs, GetPCs, SavePCs, ExclPCs, ExclOps, SharedOps, Goto, lockVars,
     callVars
<1>34. ASSUME NEW p \in Clients, WUnlock(p) PROVE LockInv'
  BY <1>34 DEF WUnlock, CallTypes, LockTypes, CallInv, LockInv, InObject, FencePCs, PutPCs,
     DeletePCs, GetPCs, SavePCs, ExclPCs, ExclOps, SharedOps, Answer
<1>35. ASSUME NEW p \in Clients, CallFail(p) PROVE LockInv'
  BY <1>35 DEF CallFail, CallTypes, LockTypes, CallInv, LockInv, InObject, FencePCs, PutPCs,
     DeletePCs, GetPCs, SavePCs, ExclPCs, ExclOps, SharedOps, Goto, Answer, lockVars
<1>36. ASSUME NEW p \in Clients, PutAddRefFail(p) PROVE LockInv'
  BY <1>36 DEF PutAddRefFail, CallTypes, LockTypes, CallInv, LockInv, InObject, FencePCs,
     PutPCs, DeletePCs, GetPCs, SavePCs, ExclPCs, ExclOps, SharedOps, Goto, Answer, Fault,
     lockVars
<1>37. ASSUME NEW p \in Clients, DeleteSubRefFail(p) PROVE LockInv'
  BY <1>37 DEF DeleteSubRefFail, CallTypes, LockTypes, CallInv, LockInv, InObject, FencePCs,
     PutPCs, DeletePCs, GetPCs, SavePCs, ExclPCs, ExclOps, SharedOps, Goto, Answer, Fault,
     lockVars
<1>38. ASSUME NEW p \in Clients, DeleteManifestFail(p) PROVE LockInv'
  BY <1>38 DEF DeleteManifestFail, CallTypes, LockTypes, CallInv, LockInv, InObject,
     FencePCs, PutPCs, DeletePCs, GetPCs, SavePCs, ExclPCs, ExclOps, SharedOps, Goto,
     Answer, Fault, lockVars
<1>39. ASSUME NEW p \in Clients, PersistFail(p) PROVE LockInv'
  BY <1>39 DEF PersistFail, CallTypes, LockTypes, CallInv, LockInv, InObject, FencePCs,
     PutPCs, DeletePCs, GetPCs, SavePCs, ExclPCs, ExclOps, SharedOps, Goto, Answer,
     AfterPersist, Fault
<1>40. ASSUME NEW p \in Clients, GCFail(p) PROVE LockInv'
  BY <1>40 DEF GCFail, CallTypes, LockTypes, CallInv, LockInv, InObject, FencePCs, PutPCs,
     DeletePCs, GetPCs, SavePCs, ExclPCs, ExclOps, SharedOps, Goto, Answer, lockVars
<1>41. ASSUME NEW p \in Clients, GCSkip(p) PROVE LockInv'
  BY <1>41 DEF GCSkip, CallTypes, LockTypes, CallInv, LockInv, InObject, FencePCs, PutPCs,
     DeletePCs, GetPCs, SavePCs, ExclPCs, ExclOps, SharedOps, Fault, lockVars, callVars
<1>42. CASE UNCHANGED vars
  BY <1>42 DEF vars, storeVars, fileVars, diskVars, lockVars, callVars, CallTypes,
     LockTypes, CallInv, LockInv, InObject, FencePCs, PutPCs, DeletePCs, GetPCs, SavePCs,
     ExclPCs, ExclOps, SharedOps
<1> QED BY <1>1, <1>2, <1>3, <1>4, <1>5, <1>6, <1>7, <1>8, <1>9, <1>10, <1>11, <1>12, <1>13,
   <1>14, <1>15, <1>16, <1>17, <1>18, <1>19, <1>20, <1>21, <1>22, <1>23, <1>24, <1>25,
   <1>26, <1>27, <1>28, <1>29, <1>30, <1>31, <1>32, <1>33, <1>34, <1>35, <1>36, <1>37,
   <1>38, <1>39, <1>40, <1>41, <1>42 DEF Next, Call, Step, Failure, PutStep, DeleteStep,
   PersistStep, PersistBegin, GetStep, ExclStep

-----------------------------------------------------------------------------
(* What a call knows of the object it has locked *)

\* A step of p that changes the index and manifests only of objects p has
\* locked leaves the other calls' knowledge alone.
LEMMA RecordFrame ==
    ASSUME Typing, LockInv, RecordInv, NEW p \in Clients,
           \A q \in Clients : q # p =>
               pc'[q] = pc[q] /\ op'[q] = op[q] /\ obj'[q] = obj[q] /\ seen'[q] = seen[q],
           \A o \in Objects : idx'[o] # idx[o] => objLock[o] = p,
           \A o \in manifests : o \notin manifests' => objLock[o] = p,
           InObject(p)' => idx'[obj'[p]] = Record(p)',
           pc'[p] = "put_refs" => obj'[p] \in manifests'
    PROVE  RecordInv'
<1> SUFFICES ASSUME NEW q \in Clients, q # p
             PROVE  /\ InObject(q)' => idx'[obj'[q]] = Record(q)'
                    /\ pc'[q] = "put_refs" => obj'[q] \in manifests'
  BY DEF RecordInv
<1>1. pc'[q] = pc[q] /\ op'[q] = op[q] /\ obj'[q] = obj[q] /\ seen'[q] = seen[q]
  OBVIOUS
<1>2. InObject(q)' <=> InObject(q)
  BY <1>1 DEF InObject
<1>3. InObject(q) => obj[q] \in Objects /\ objLock[obj[q]] = q
  BY DEF Typing, TypeOK, CallTypes, CallInv, LockInv, InObject, PutPCs, DeletePCs, SavePCs,
     SharedOps
<1>4. InObject(q) => idx'[obj[q]] = idx[obj[q]] /\ idx[obj[q]] = Record(q)
  BY <1>3 DEF RecordInv
<1>5. InObject(q) => Record(q)' = Record(q)
  BY <1>1, <1>4 DEF Record
<1>6. pc[q] = "put_refs" => obj[q] \in manifests'
  BY <1>3 DEF RecordInv, InObject
<1> QED BY <1>1, <1>2, <1>4, <1>5, <1>6

\* Every step keeps what calls have read of their objects true.
LEMMA RecordStep == Typing /\ LockInv /\ RecordInv /\ [Next]_vars => RecordInv'
<1> SUFFICES ASSUME Typing, LockInv, RecordInv, [Next]_vars
             PROVE  RecordInv'
  OBVIOUS
<1> USE DEF Typing, TypeOK
<1>1. ASSUME NEW p \in Clients, CallShared(p) PROVE RecordInv'
  <2>1. \A q \in Clients : q # p =>
           pc'[q] = pc[q] /\ op'[q] = op[q] /\ obj'[q] = obj[q] /\ seen'[q] = seen[q]
    BY <1>1 DEF CallShared, Goto, CallTypes
  <2>2. idx' = idx /\ manifests' = manifests
    BY <1>1 DEF CallShared, storeVars, fileVars
  <2>3. /\ InObject(p)' => idx'[obj'[p]] = Record(p)'
        /\ pc'[p] = "put_refs" => obj'[p] \in manifests'
    BY <1>1, <2>2 DEF CallShared, RecordInv, Record, InObject, SavePCs, CallTypes, CallInv, Goto
  <2> QED BY <2>1, <2>2, <2>3, RecordFrame DEF Typing, TypeOK
<1>2. ASSUME NEW p \in Clients, CallExclusive(p) PROVE RecordInv'
  <2>1. \A q \in Clients : q # p =>
           pc'[q] = pc[q] /\ op'[q] = op[q] /\ obj'[q] = obj[q] /\ seen'[q] = seen[q]
    BY <1>2 DEF CallExclusive, Goto, CallTypes
  <2>2. idx' = idx /\ manifests' = manifests
    BY <1>2 DEF CallExclusive, storeVars, fileVars
  <2>3. /\ InObject(p)' => idx'[obj'[p]] = Record(p)'
        /\ pc'[p] = "put_refs" => obj'[p] \in manifests'
    BY <1>2, <2>2 DEF CallExclusive, RecordInv, Record, InObject, SavePCs, CallTypes,
       CallInv, Goto
  <2> QED BY <2>1, <2>2, <2>3, RecordFrame DEF Typing, TypeOK
<1>3. ASSUME NEW p \in Clients, RLock(p) PROVE RecordInv'
  <2>1. \A q \in Clients : q # p =>
           pc'[q] = pc[q] /\ op'[q] = op[q] /\ obj'[q] = obj[q] /\ seen'[q] = seen[q]
    BY <1>3 DEF RLock, Goto, CallTypes, callVars
  <2>2. idx' = idx /\ manifests' = manifests
    BY <1>3 DEF RLock, storeVars, fileVars
  <2>3. /\ InObject(p)' => idx'[obj'[p]] = Record(p)'
        /\ pc'[p] = "put_refs" => obj'[p] \in manifests'
    BY <1>3, <2>2 DEF RLock, RecordInv, Record, InObject, SavePCs, CallTypes, CallInv, Goto,
       callVars
  <2> QED BY <2>1, <2>2, <2>3, RecordFrame DEF Typing, TypeOK
<1>4. ASSUME NEW p \in Clients, EnterClosed(p) PROVE RecordInv'
  <2>1. \A q \in Clients : q # p =>
           pc'[q] = pc[q] /\ op'[q] = op[q] /\ obj'[q] = obj[q] /\ seen'[q] = seen[q]
    BY <1>4 DEF EnterClosed, Goto, CallTypes
  <2>2. idx' = idx /\ manifests' = manifests
    BY <1>4 DEF EnterClosed, storeVars, fileVars
  <2>3. /\ InObject(p)' => idx'[obj'[p]] = Record(p)'
        /\ pc'[p] = "put_refs" => obj'[p] \in manifests'
    BY <1>4, <2>2 DEF EnterClosed, RecordInv, Record, InObject, SavePCs, CallTypes, CallInv,
       Goto
  <2> QED BY <2>1, <2>2, <2>3, RecordFrame DEF Typing, TypeOK
<1>5. ASSUME NEW p \in Clients, Enter(p) PROVE RecordInv'
  <2>1. \A q \in Clients : q # p =>
           pc'[q] = pc[q] /\ op'[q] = op[q] /\ obj'[q] = obj[q] /\ seen'[q] = seen[q]
    BY <1>5 DEF Enter, Goto, CallTypes
  <2>2. idx' = idx /\ manifests' = manifests
    BY <1>5 DEF Enter, storeVars, fileVars
  <2>3. /\ InObject(p)' => idx'[obj'[p]] = Record(p)'
        /\ pc'[p] = "put_refs" => obj'[p] \in manifests'
    BY <1>5, <2>2 DEF Enter, RecordInv, Record, InObject, SavePCs, CallTypes, CallInv, Goto,
       FencePCs
  <2> QED BY <2>1, <2>2, <2>3, RecordFrame DEF Typing, TypeOK
<1>6. ASSUME NEW p \in Clients, Finish(p) PROVE RecordInv'
  <2>1. \A q \in Clients : q # p =>
           pc'[q] = pc[q] /\ op'[q] = op[q] /\ obj'[q] = obj[q] /\ seen'[q] = seen[q]
    BY <1>6 DEF Finish, Goto, CallTypes
  <2>2. idx' = idx /\ manifests' = manifests
    BY <1>6 DEF Finish, storeVars, fileVars
  <2>3. ~InObject(p)' /\ pc'[p] # "put_refs"
    BY <1>6 DEF Finish, Goto, CallTypes, InObject, SavePCs
  <2> QED BY <2>1, <2>2, <2>3, RecordFrame DEF Typing, TypeOK
<1>7. ASSUME NEW p \in Clients, PutChunk(p) PROVE RecordInv'
  <2>1. \A q \in Clients : q # p =>
           pc'[q] = pc[q] /\ op'[q] = op[q] /\ obj'[q] = obj[q] /\ seen'[q] = seen[q]
    BY <1>7 DEF PutChunk, CallTypes
  <2>2. idx' = idx /\ manifests' = manifests
    BY <1>7 DEF PutChunk, storeVars
  <2>3. /\ InObject(p)' => idx'[obj'[p]] = Record(p)'
        /\ pc'[p] = "put_refs" => obj'[p] \in manifests'
    BY <1>7, <2>2 DEF PutChunk, RecordInv, Record, InObject, SavePCs, CallTypes, CallInv
  <2> QED BY <2>1, <2>2, <2>3, RecordFrame DEF Typing, TypeOK
<1>8. ASSUME NEW p \in Clients, PutLock(p) PROVE RecordInv'
  <2>1. \A q \in Clients : q # p =>
           pc'[q] = pc[q] /\ op'[q] = op[q] /\ obj'[q] = obj[q] /\ seen'[q] = seen[q]
    BY <1>8 DEF PutLock, Goto, CallTypes
  <2>2. idx' = idx /\ manifests' = manifests
    BY <1>8 DEF PutLock, storeVars, fileVars
  <2>3. /\ InObject(p)' => idx'[obj'[p]] = Record(p)'
        /\ pc'[p] = "put_refs" => obj'[p] \in manifests'
    BY <1>8, <2>2 DEF PutLock, RecordInv, Record, InObject, SavePCs, CallTypes, CallInv,
       Goto, StoreTypes, PutPCs
  <2> QED BY <2>1, <2>2, <2>3, RecordFrame DEF Typing, TypeOK
<1>9. ASSUME NEW p \in Clients, PutBump(p) PROVE RecordInv'
  <2>1. InObject(p) /\ obj[p] \in Objects /\ objLock[obj[p]] = p
    BY <1>9 DEF PutBump, CallTypes, CallInv, LockInv, InObject, PutPCs
  <2>2. \A q \in Clients : q # p =>
           pc'[q] = pc[q] /\ op'[q] = op[q] /\ obj'[q] = obj[q] /\ seen'[q] = seen[q]
    BY <1>9 DEF PutBump, Goto, CallTypes, callVars
  <2>3. manifests' = manifests /\ \A o \in Objects : idx'[o] # idx[o] => o = obj[p]
    BY <1>9 DEF PutBump, StoreTypes, fileVars
  <2>4. pc'[p] = "save_idx" /\ op'[p] = "put" /\ obj'[p] = obj[p] /\ seen'[p] = seen[p]
    BY <1>9 DEF PutBump, Goto, CallTypes, CallInv, PutPCs, callVars
  <2>5. idx'[obj[p]] = seen[p] + 1
    BY <1>9, <2>1 DEF PutBump, StoreTypes
  <2>6. idx'[obj'[p]] = Record(p)'
    BY <2>4, <2>5 DEF Record, SavePCs
  <2> QED BY <2>1, <2>2, <2>3, <2>4, <2>6, RecordFrame DEF Typing, TypeOK
<1>10. ASSUME NEW p \in Clients, PutUndo(p) PROVE RecordInv'
  <2>1. \A q \in Clients : q # p =>
           pc'[q] = pc[q] /\ op'[q] = op[q] /\ obj'[q] = obj[q] /\ seen'[q] = seen[q]
    BY <1>10 DEF PutUndo, Goto, CallTypes, callVars
  <2>2. InObject(p) /\ obj[p] \in Objects /\ objLock[obj[p]] = p
    BY <1>10 DEF PutUndo, CallTypes, CallInv, LockInv, InObject, PutPCs, DeletePCs
  <2>3. manifests' = manifests /\ \A o \in Objects : idx'[o] # idx[o] => o = obj[p]
    BY <1>10 DEF PutUndo, StoreTypes, fileVars
  <2>4. pc'[p] = "finish" /\ op'[p] = op[p] /\ obj'[p] = obj[p] /\ seen'[p] = seen[p]
    BY <1>10 DEF PutUndo, Goto, CallTypes, callVars
  <2>5. idx'[obj[p]] = seen[p]
    BY <1>10, <2>2 DEF PutUndo, StoreTypes
  <2>6. InObject(p)' => idx'[obj'[p]] = Record(p)'
    BY <1>10, <2>4, <2>5 DEF PutUndo, Record, SavePCs, InObject, CallInv, CursorInv, PutPCs,
       DeletePCs
  <2> QED BY <2>1, <2>2, <2>3, <2>4, <2>6, RecordFrame DEF Typing, TypeOK
<1>11. ASSUME NEW p \in Clients, PutManifest(p) PROVE RecordInv'
  <2>1. \A q \in Clients : q # p =>
           pc'[q] = pc[q] /\ op'[q] = op[q] /\ obj'[q] = obj[q] /\ seen'[q] = seen[q]
    BY <1>11 DEF PutManifest, Goto, CallTypes
  <2>2. idx' = idx /\ \A o \in manifests : o \notin manifests' => objLock[o] = p
    BY <1>11 DEF PutManifest, storeVars, LockInv, InObject
  <2>3. /\ InObject(p)' => idx'[obj'[p]] = Record(p)'
        /\ pc'[p] = "put_refs" => obj'[p] \in manifests'
    BY <1>11, <2>2 DEF PutManifest, RecordInv, Record, InObject, SavePCs, CallTypes,
       CallInv, Goto, PutPCs
  <2> QED BY <2>1, <2>2, <2>3, RecordFrame DEF Typing, TypeOK
<1>12. ASSUME NEW p \in Clients, PutAddRef(p) PROVE RecordInv'
  <2>1. \A q \in Clients : q # p =>
           pc'[q] = pc[q] /\ op'[q] = op[q] /\ obj'[q] = obj[q] /\ seen'[q] = seen[q]
    BY <1>12 DEF PutAddRef, CallTypes
  <2>2. idx' = idx /\ manifests' = manifests
    BY <1>12 DEF PutAddRef, fileVars
  <2>3. /\ InObject(p)' => idx'[obj'[p]] = Record(p)'
        /\ pc'[p] = "put_refs" => obj'[p] \in manifests'
    BY <1>12, <2>2 DEF PutAddRef, RecordInv, Record, InObject, SavePCs, CallTypes, CallInv
  <2> QED BY <2>1, <2>2, <2>3, RecordFrame DEF Typing, TypeOK
<1>13. ASSUME NEW p \in Clients, PutIndex(p) PROVE RecordInv'
  <2>1. \A q \in Clients : q # p =>
           pc'[q] = pc[q] /\ op'[q] = op[q] /\ obj'[q] = obj[q] /\ seen'[q] = seen[q]
    BY <1>13 DEF PutIndex, Goto, CallTypes, callVars
  <2>2. InObject(p) /\ obj[p] \in Objects /\ objLock[obj[p]] = p
    BY <1>13 DEF PutIndex, CallTypes, CallInv, LockInv, InObject, PutPCs, DeletePCs
  <2>3. manifests' = manifests /\ \A o \in Objects : idx'[o] # idx[o] => o = obj[p]
    BY <1>13 DEF PutIndex, StoreTypes, fileVars
  <2>4. pc'[p] = "save_idx" /\ op'[p] = op[p] /\ obj'[p] = obj[p] /\ seen'[p] = seen[p]
    BY <1>13 DEF PutIndex, Goto, CallTypes, callVars
  <2>5. idx'[obj[p]] = 1
    BY <1>13, <2>2 DEF PutIndex, StoreTypes
  <2>6. InObject(p)' => idx'[obj'[p]] = Record(p)'
    BY <1>13, <2>4, <2>5 DEF PutIndex, Record, SavePCs, InObject, CallInv, CursorInv,
       PutPCs, DeletePCs
  <2> QED BY <2>1, <2>2, <2>3, <2>4, <2>6, RecordFrame DEF Typing, TypeOK
<1>14. ASSUME NEW p \in Clients, DeleteLock(p) PROVE RecordInv'
  <2>1. \A q \in Clients : q # p =>
           pc'[q] = pc[q] /\ op'[q] = op[q] /\ obj'[q] = obj[q] /\ seen'[q] = seen[q]
    BY <1>14 DEF DeleteLock, Goto, CallTypes
  <2>2. idx' = idx /\ manifests' = manifests
    BY <1>14 DEF DeleteLock, storeVars, fileVars
  <2>3. /\ InObject(p)' => idx'[obj'[p]] = Record(p)'
        /\ pc'[p] = "put_refs" => obj'[p] \in manifests'
    BY <1>14, <2>2 DEF DeleteLock, RecordInv, Record, InObject, SavePCs, CallTypes, CallInv,
       Goto, StoreTypes
  <2> QED BY <2>1, <2>2, <2>3, RecordFrame DEF Typing, TypeOK
<1>15. ASSUME NEW p \in Clients, DeleteDec(p) PROVE RecordInv'
  <2>1. \A q \in Clients : q # p =>
           pc'[q] = pc[q] /\ op'[q] = op[q] /\ obj'[q] = obj[q] /\ seen'[q] = seen[q]
    BY <1>15 DEF DeleteDec, Goto, CallTypes, callVars
  <2>2. InObject(p) /\ obj[p] \in Objects /\ objLock[obj[p]] = p
    BY <1>15 DEF DeleteDec, CallTypes, CallInv, LockInv, InObject, PutPCs, DeletePCs
  <2>3. manifests' = manifests /\ \A o \in Objects : idx'[o] # idx[o] => o = obj[p]
    BY <1>15 DEF DeleteDec, StoreTypes, fileVars
  <2>4. pc'[p] = "save_idx" /\ op'[p] = op[p] /\ obj'[p] = obj[p] /\ seen'[p] = seen[p]
    BY <1>15 DEF DeleteDec, Goto, CallTypes, callVars
  <2>5. idx'[obj[p]] = seen[p] - 1
    BY <1>15, <2>2 DEF DeleteDec, StoreTypes
  <2>6. InObject(p)' => idx'[obj'[p]] = Record(p)'
    BY <1>15, <2>4, <2>5 DEF DeleteDec, Record, SavePCs, InObject, CallInv, CursorInv,
       PutPCs, DeletePCs
  <2> QED BY <2>1, <2>2, <2>3, <2>4, <2>6, RecordFrame DEF Typing, TypeOK
<1>16. ASSUME NEW p \in Clients, DeleteSubRef(p) PROVE RecordInv'
  <2>1. \A q \in Clients : q # p =>
           pc'[q] = pc[q] /\ op'[q] = op[q] /\ obj'[q] = obj[q] /\ seen'[q] = seen[q]
    BY <1>16 DEF DeleteSubRef, CallTypes
  <2>2. idx' = idx /\ manifests' = manifests
    BY <1>16 DEF DeleteSubRef, fileVars
  <2>3. /\ InObject(p)' => idx'[obj'[p]] = Record(p)'
        /\ pc'[p] = "put_refs" => obj'[p] \in manifests'
    BY <1>16, <2>2 DEF DeleteSubRef, RecordInv, Record, InObject, SavePCs, CallTypes, CallInv
  <2> QED BY <2>1, <2>2, <2>3, RecordFrame DEF Typing, TypeOK
<1>17. ASSUME NEW p \in Clients, DeleteUnderflow(p) PROVE RecordInv'
  <2>1. \A q \in Clients : q # p =>
           pc'[q] = pc[q] /\ op'[q] = op[q] /\ obj'[q] = obj[q] /\ seen'[q] = seen[q]
    BY <1>17 DEF DeleteUnderflow, Goto, CallTypes
  <2>2. idx' = idx /\ manifests' = manifests
    BY <1>17 DEF DeleteUnderflow, storeVars, fileVars
  <2>3. /\ InObject(p)' => idx'[obj'[p]] = Record(p)'
        /\ pc'[p] = "put_refs" => obj'[p] \in manifests'
    BY <1>17, <2>2 DEF DeleteUnderflow, RecordInv, Record, InObject, SavePCs, CallTypes,
       CallInv, Goto
  <2> QED BY <2>1, <2>2, <2>3, RecordFrame DEF Typing, TypeOK
<1>18. ASSUME NEW p \in Clients, DeleteIndex(p) PROVE RecordInv'
  <2>1. \A q \in Clients : q # p =>
           pc'[q] = pc[q] /\ op'[q] = op[q] /\ obj'[q] = obj[q] /\ seen'[q] = seen[q]
    BY <1>18 DEF DeleteIndex, Goto, CallTypes, callVars
  <2>2. InObject(p) /\ obj[p] \in Objects /\ objLock[obj[p]] = p
    BY <1>18 DEF DeleteIndex, CallTypes, CallInv, LockInv, InObject, PutPCs, DeletePCs
  <2>3. manifests' = manifests /\ \A o \in Objects : idx'[o] # idx[o] => o = obj[p]
    BY <1>18 DEF DeleteIndex, StoreTypes, fileVars
  <2>4. pc'[p] = "del_man" /\ op'[p] = op[p] /\ obj'[p] = obj[p] /\ seen'[p] = seen[p]
    BY <1>18 DEF DeleteIndex, Goto, CallTypes, callVars
  <2>5. idx'[obj[p]] = 0
    BY <1>18, <2>2 DEF DeleteIndex, StoreTypes
  <2>6. InObject(p)' => idx'[obj'[p]] = Record(p)'
    BY <1>18, <2>4, <2>5 DEF DeleteIndex, Record, SavePCs, InObject, CallInv, CursorInv,
       PutPCs, DeletePCs
  <2> QED BY <2>1, <2>2, <2>3, <2>4, <2>6, RecordFrame DEF Typing, TypeOK
<1>19. ASSUME NEW p \in Clients, DeleteManifest(p) PROVE RecordInv'
  <2>1. \A q \in Clients : q # p =>
           pc'[q] = pc[q] /\ op'[q] = op[q] /\ obj'[q] = obj[q] /\ seen'[q] = seen[q]
    BY <1>19 DEF DeleteManifest, Goto, CallTypes, callVars
  <2>2. idx' = idx /\ \A o \in manifests : o \notin manifests' => objLock[o] = p
    BY <1>19 DEF DeleteManifest, storeVars, LockInv, InObject
  <2>3. /\ InObject(p)' => idx'[obj'[p]] = Record(p)'
        /\ pc'[p] = "put_refs" => obj'[p] \in manifests'
    BY <1>19, <2>2 DEF DeleteManifest, RecordInv, Record, InObject, SavePCs, CallTypes,
       CallInv, Goto, callVars, DeletePCs
  <2> QED BY <2>1, <2>2, <2>3, RecordFrame DEF Typing, TypeOK
<1>20. ASSUME NEW p \in Clients, PersistMemory(p) PROVE RecordInv'
  <2>1. \A q \in Clients : q # p =>
           pc'[q] = pc[q] /\ op'[q] = op[q] /\ obj'[q] = obj[q] /\ seen'[q] = seen[q]
    BY <1>20 DEF PersistMemory, AfterPersist, Goto, CallTypes
  <2>2. idx' = idx /\ manifests' = manifests
    BY <1>20 DEF PersistMemory, storeVars, fileVars
  <2>3. /\ InObject(p)' => idx'[obj'[p]] = Record(p)'
        /\ pc'[p] = "put_refs" => obj'[p] \in manifests'
    BY <1>20, <2>2 DEF PersistMemory, RecordInv, Record, InObject, SavePCs, CallTypes,
       CallInv, AfterPersist, Goto, SharedOps, ExclOps
  <2> QED BY <2>1, <2>2, <2>3, RecordFrame DEF Typing, TypeOK
<1>21. ASSUME NEW p \in Clients, PersistIndex(p) PROVE RecordInv'
  <2>1. \A q \in Clients : q # p =>
           pc'[q] = pc[q] /\ op'[q] = op[q] /\ obj'[q] = obj[q] /\ seen'[q] = seen[q]
    BY <1>21 DEF PersistIndex, Goto, CallTypes, callVars
  <2>2. idx' = idx /\ manifests' = manifests
    BY <1>21 DEF PersistIndex, storeVars, fileVars
  <2>3. /\ InObject(p)' => idx'[obj'[p]] = Record(p)'
        /\ pc'[p] = "put_refs" => obj'[p] \in manifests'
    BY <1>21, <2>2 DEF PersistIndex, RecordInv, Record, InObject, SavePCs, CallTypes,
       CallInv, Goto, callVars, SharedOps, ExclOps
  <2> QED BY <2>1, <2>2, <2>3, RecordFrame DEF Typing, TypeOK
<1>22. ASSUME NEW p \in Clients, PersistRefs(p) PROVE RecordInv'
  <2>1. \A q \in Clients : q # p =>
           pc'[q] = pc[q] /\ op'[q] = op[q] /\ obj'[q] = obj[q] /\ seen'[q] = seen[q]
    BY <1>22 DEF PersistRefs, Goto, CallTypes, callVars
  <2>2. idx' = idx /\ manifests' = manifests
    BY <1>22 DEF PersistRefs, storeVars, fileVars
  <2>3. /\ InObject(p)' => idx'[obj'[p]] = Record(p)'
        /\ pc'[p] = "put_refs" => obj'[p] \in manifests'
    BY <1>22, <2>2 DEF PersistRefs, RecordInv, Record, InObject, SavePCs, CallTypes,
       CallInv, Goto, callVars, SharedOps, ExclOps
  <2> QED BY <2>1, <2>2, <2>3, RecordFrame DEF Typing, TypeOK
<1>23. ASSUME NEW p \in Clients, PersistTruncate(p) PROVE RecordInv'
  <2>1. \A q \in Clients : q # p =>
           pc'[q] = pc[q] /\ op'[q] = op[q] /\ obj'[q] = obj[q] /\ seen'[q] = seen[q]
    BY <1>23 DEF PersistTruncate, AfterPersist, Goto, CallTypes
  <2>2. idx' = idx /\ manifests' = manifests
    BY <1>23 DEF PersistTruncate, storeVars, fileVars
  <2>3. /\ InObject(p)' => idx'[obj'[p]] = Record(p)'
        /\ pc'[p] = "put_refs" => obj'[p] \in manifests'
    BY <1>23, <2>2 DEF PersistTruncate, RecordInv, Record, InObject, SavePCs, CallTypes,
       CallInv, AfterPersist, Goto, SharedOps, ExclOps
  <2> QED BY <2>1, <2>2, <2>3, RecordFrame DEF Typing, TypeOK
<1>24. ASSUME NEW p \in Clients, GetLookup(p) PROVE RecordInv'
  <2>1. \A q \in Clients : q # p =>
           pc'[q] = pc[q] /\ op'[q] = op[q] /\ obj'[q] = obj[q] /\ seen'[q] = seen[q]
    BY <1>24 DEF GetLookup, Goto, CallTypes
  <2>2. idx' = idx /\ manifests' = manifests
    BY <1>24 DEF GetLookup, storeVars, fileVars
  <2>3. /\ InObject(p)' => idx'[obj'[p]] = Record(p)'
        /\ pc'[p] = "put_refs" => obj'[p] \in manifests'
    BY <1>24, <2>2 DEF GetLookup, RecordInv, Record, InObject, SavePCs, CallTypes, CallInv, Goto
  <2> QED BY <2>1, <2>2, <2>3, RecordFrame DEF Typing, TypeOK
<1>25. ASSUME NEW p \in Clients, GetLoad(p) PROVE RecordInv'
  <2>1. \A q \in Clients : q # p =>
           pc'[q] = pc[q] /\ op'[q] = op[q] /\ obj'[q] = obj[q] /\ seen'[q] = seen[q]
    BY <1>25 DEF GetLoad, Goto, CallTypes
  <2>2. idx' = idx /\ manifests' = manifests
    BY <1>25 DEF GetLoad, storeVars, fileVars
  <2>3. /\ InObject(p)' => idx'[obj'[p]] = Record(p)'
        /\ pc'[p] = "put_refs" => obj'[p] \in manifests'
    BY <1>25, <2>2 DEF GetLoad, RecordInv, Record, InObject, SavePCs, CallTypes, CallInv, Goto
  <2> QED BY <2>1, <2>2, <2>3, RecordFrame DEF Typing, TypeOK
<1>26. ASSUME NEW p \in Clients, ReadChunk(p) PROVE RecordInv'
  <2>1. \A q \in Clients : q # p =>
           pc'[q] = pc[q] /\ op'[q] = op[q] /\ obj'[q] = obj[q] /\ seen'[q] = seen[q]
    BY <1>26 DEF ReadChunk, CallTypes
  <2>2. idx' = idx /\ manifests' = manifests
    BY <1>26 DEF ReadChunk, storeVars, fileVars
  <2>3. /\ InObject(p)' => idx'[obj'[p]] = Record(p)'
        /\ pc'[p] = "put_refs" => obj'[p] \in manifests'
    BY <1>26, <2>2 DEF ReadChunk, RecordInv, Record, InObject, SavePCs, CallTypes, CallInv
  <2> QED BY <2>1, <2>2, <2>3, RecordFrame DEF Typing, TypeOK
<1>27. ASSUME NEW p \in Clients, CloseReader(p) PROVE RecordInv'
  <2>1. \A q \in Clients : q # p =>
           pc'[q] = pc[q] /\ op'[q] = op[q] /\ obj'[q] = obj[q] /\ seen'[q] = seen[q]
    BY <1>27 DEF CloseReader, Goto, CallTypes
  <2>2. idx' = idx /\ manifests' = manifests
    BY <1>27 DEF CloseReader, storeVars, fileVars
  <2>3. /\ InObject(p)' => idx'[obj'[p]] = Record(p)'
        /\ pc'[p] = "put_refs" => obj'[p] \in manifests'
    BY <1>27, <2>2 DEF CloseReader, RecordInv, Record, InObject, SavePCs, CallTypes,
       CallInv, Goto
  <2> QED BY <2>1, <2>2, <2>3, RecordFrame DEF Typing, TypeOK
<1>28. ASSUME NEW p \in Clients, WLockAnnounce(p) PROVE RecordInv'
  <2>1. \A q \in Clients : q # p =>
           pc'[q] = pc[q] /\ op'[q] = op[q] /\ obj'[q] = obj[q] /\ seen'[q] = seen[q]
    BY <1>28 DEF WLockAnnounce, Goto, CallTypes, callVars
  <2>2. idx' = idx /\ manifests' = manifests
    BY <1>28 DEF WLockAnnounce, storeVars, fileVars
  <2>3. /\ InObject(p)' => idx'[obj'[p]] = Record(p)'
        /\ pc'[p] = "put_refs" => obj'[p] \in manifests'
    BY <1>28, <2>2 DEF WLockAnnounce, RecordInv, Record, InObject, SavePCs, CallTypes,
       CallInv, Goto, callVars
  <2> QED BY <2>1, <2>2, <2>3, RecordFrame DEF Typing, TypeOK
<1>29. ASSUME NEW p \in Clients, WLockClosed(p) PROVE RecordInv'
  <2>1. \A q \in Clients : q # p =>
           pc'[q] = pc[q] /\ op'[q] = op[q] /\ obj'[q] = obj[q] /\ seen'[q] = seen[q]
    BY <1>29 DEF WLockClosed, Goto, CallTypes
  <2>2. idx' = idx /\ manifests' = manifests
    BY <1>29 DEF WLockClosed, storeVars, fileVars
  <2>3. /\ InObject(p)' => idx'[obj'[p]] = Record(p)'
        /\ pc'[p] = "put_refs" => obj'[p] \in manifests'
    BY <1>29, <2>2 DEF WLockClosed, RecordInv, Record, InObject, SavePCs, CallTypes,
       CallInv, Goto, ExclPCs, SharedOps, ExclOps
  <2> QED BY <2>1, <2>2, <2>3, RecordFrame DEF Typing, TypeOK
<1>30. ASSUME NEW p \in Clients, GCBegin(p) PROVE RecordInv'
  <2>1. \A q \in Clients : q # p =>
           pc'[q] = pc[q] /\ op'[q] = op[q] /\ obj'[q] = obj[q] /\ seen'[q] = seen[q]
    BY <1>30 DEF GCBegin, Goto, CallTypes, callVars
  <2>2. idx' = idx /\ manifests' = manifests
    BY <1>30 DEF GCBegin, storeVars, fileVars
  <2>3. /\ InObject(p)' => idx'[obj'[p]] = Record(p)'
        /\ pc'[p] = "put_refs" => obj'[p] \in manifests'
    BY <1>30, <2>2 DEF GCBegin, RecordInv, Record, InObject, SavePCs, CallTypes, CallInv,
       Goto, callVars, ExclPCs, SharedOps, ExclOps
  <2> QED BY <2>1, <2>2, <2>3, RecordFrame DEF Typing, TypeOK
<1>31. ASSUME NEW p \in Clients, GCSweep(p) PROVE RecordInv'
  <2>1. \A q \in Clients : q # p =>
           pc'[q] = pc[q] /\ op'[q] = op[q] /\ obj'[q] = obj[q] /\ seen'[q] = seen[q]
    BY <1>31 DEF GCSweep, CallTypes, callVars
  <2>2. idx' = idx /\ manifests' = manifests
    BY <1>31 DEF GCSweep, storeVars
  <2>3. /\ InObject(p)' => idx'[obj'[p]] = Record(p)'
        /\ pc'[p] = "put_refs" => obj'[p] \in manifests'
    BY <1>31, <2>2 DEF GCSweep, RecordInv, Record, InObject, SavePCs, CallTypes, CallInv,
       callVars, ExclPCs, SharedOps, ExclOps
  <2> QED BY <2>1, <2>2, <2>3, RecordFrame DEF Typing, TypeOK
<1>32. ASSUME NEW p \in Clients, GCEnd(p) PROVE RecordInv'
  <2>1. \A q \in Clients : q # p =>
           pc'[q] = pc[q] /\ op'[q] = op[q] /\ obj'[q] = obj[q] /\ seen'[q] = seen[q]
    BY <1>32 DEF GCEnd, Goto, CallTypes, callVars
  <2>2. idx' = idx /\ manifests' = manifests
    BY <1>32 DEF GCEnd, storeVars, fileVars
  <2>3. pc'[p] = "save_idx" /\ op'[p] \in ExclOps
    BY <1>32 DEF GCEnd, Goto, CallTypes, CallInv, ExclPCs, callVars
  <2>4. ~InObject(p)' /\ pc'[p] # "put_refs"
    BY <2>3 DEF InObject, ExclOps, SharedOps
  <2> QED BY <2>1, <2>2, <2>4, RecordFrame DEF Typing, TypeOK
<1>33. ASSUME NEW p \in Clients, CloseBegin(p) PROVE RecordInv'
  <2>1. \A q \in Clients : q # p =>
           pc'[q] = pc[q] /\ op'[q] = op[q] /\ obj'[q] = obj[q] /\ seen'[q] = seen[q]
    BY <1>33 DEF CloseBegin, Goto, CallTypes, callVars
  <2>2. idx' = idx /\ manifests' = manifests
    BY <1>33 DEF CloseBegin, fileVars
  <2>3. /\ InObject(p)' => idx'[obj'[p]] = Record(p)'
        /\ pc'[p] = "put_refs" => obj'[p] \in manifests'
    BY <1>33, <2>2 DEF CloseBegin, RecordInv, Record, InObject, SavePCs, CallTypes, CallInv,
       Goto, callVars, ExclPCs, SharedOps, ExclOps
  <2> QED BY <2>1, <2>2, <2>3, RecordFrame DEF Typing, TypeOK
<1>34. ASSUME NEW p \in Clients, WUnlock(p) PROVE RecordInv'
  BY <1>34 DEF WUnlock, CallTypes, LockTypes, StoreTypes, CallInv, CursorInv, LockInv,
     RecordInv, Record, InObject, FencePCs, PutPCs, DeletePCs, GetPCs, SavePCs, ExclPCs,
     ExclOps, SharedOps, Answer, storeVars, fileVars
<1>35. ASSUME NEW p \in Clients, CallFail(p) PROVE RecordInv'
  <2>1. \A q \in Clients : q # p =>
           pc'[q] = pc[q] /\ op'[q] = op[q] /\ obj'[q] = obj[q] /\ seen'[q] = seen[q]
    BY <1>35 DEF CallFail, Goto, CallTypes
  <2>2. idx' = idx /\ manifests' = manifests
    BY <1>35 DEF CallFail, storeVars, fileVars
  <2>3. /\ InObject(p)' => idx'[obj'[p]] = Record(p)'
        /\ pc'[p] = "put_refs" => obj'[p] \in manifests'
    BY <1>35, <2>2 DEF CallFail, RecordInv, Record, InObject, SavePCs, CallTypes, CallInv, Goto
  <2> QED BY <2>1, <2>2, <2>3, RecordFrame DEF Typing, TypeOK
<1>36. ASSUME NEW p \in Clients, PutAddRefFail(p) PROVE RecordInv'
  <2>1. \A q \in Clients : q # p =>
           pc'[q] = pc[q] /\ op'[q] = op[q] /\ obj'[q] = obj[q] /\ seen'[q] = seen[q]
    BY <1>36 DEF PutAddRefFail, Goto, CallTypes
  <2>2. idx' = idx /\ manifests' = manifests
    BY <1>36 DEF PutAddRefFail, storeVars, fileVars
  <2>3. /\ InObject(p)' => idx'[obj'[p]] = Record(p)'
        /\ pc'[p] = "put_refs" => obj'[p] \in manifests'
    BY <1>36, <2>2 DEF PutAddRefFail, RecordInv, Record, InObject, SavePCs, CallTypes,
       CallInv, Goto
  <2> QED BY <2>1, <2>2, <2>3, RecordFrame DEF Typing, TypeOK
<1>37. ASSUME NEW p \in Clients, DeleteSubRefFail(p) PROVE RecordInv'
  <2>1. \A q \in Clients : q # p =>
           pc'[q] = pc[q] /\ op'[q] = op[q] /\ obj'[q] = obj[q] /\ seen'[q] = seen[q]
    BY <1>37 DEF DeleteSubRefFail, Goto, CallTypes
  <2>2. idx' = idx /\ manifests' = manifests
    BY <1>37 DEF DeleteSubRefFail, storeVars, fileVars
  <2>3. /\ InObject(p)' => idx'[obj'[p]] = Record(p)'
        /\ pc'[p] = "put_refs" => obj'[p] \in manifests'
    BY <1>37, <2>2 DEF DeleteSubRefFail, RecordInv, Record, InObject, SavePCs, CallTypes,
       CallInv, Goto
  <2> QED BY <2>1, <2>2, <2>3, RecordFrame DEF Typing, TypeOK
<1>38. ASSUME NEW p \in Clients, DeleteManifestFail(p) PROVE RecordInv'
  <2>1. \A q \in Clients : q # p =>
           pc'[q] = pc[q] /\ op'[q] = op[q] /\ obj'[q] = obj[q] /\ seen'[q] = seen[q]
    BY <1>38 DEF DeleteManifestFail, Goto, CallTypes
  <2>2. idx' = idx /\ manifests' = manifests
    BY <1>38 DEF DeleteManifestFail, storeVars, fileVars
  <2>3. /\ InObject(p)' => idx'[obj'[p]] = Record(p)'
        /\ pc'[p] = "put_refs" => obj'[p] \in manifests'
    BY <1>38, <2>2 DEF DeleteManifestFail, RecordInv, Record, InObject, SavePCs, CallTypes,
       CallInv, Goto
  <2> QED BY <2>1, <2>2, <2>3, RecordFrame DEF Typing, TypeOK
<1>39. ASSUME NEW p \in Clients, PersistFail(p) PROVE RecordInv'
  <2>1. \A q \in Clients : q # p =>
           pc'[q] = pc[q] /\ op'[q] = op[q] /\ obj'[q] = obj[q] /\ seen'[q] = seen[q]
    BY <1>39 DEF PersistFail, Goto, AfterPersist, CallTypes
  <2>2. idx' = idx /\ manifests' = manifests
    BY <1>39 DEF PersistFail, storeVars, fileVars
  <2>3. /\ InObject(p)' => idx'[obj'[p]] = Record(p)'
        /\ pc'[p] = "put_refs" => obj'[p] \in manifests'
    BY <1>39, <2>2 DEF PersistFail, RecordInv, Record, InObject, SavePCs, CallTypes,
       CallInv, Goto, AfterPersist, SharedOps, ExclOps
  <2> QED BY <2>1, <2>2, <2>3, RecordFrame DEF Typing, TypeOK
<1>40. ASSUME NEW p \in Clients, GCFail(p) PROVE RecordInv'
  <2>1. \A q \in Clients : q # p =>
           pc'[q] = pc[q] /\ op'[q] = op[q] /\ obj'[q] = obj[q] /\ seen'[q] = seen[q]
    BY <1>40 DEF GCFail, Goto, CallTypes
  <2>2. idx' = idx /\ manifests' = manifests
    BY <1>40 DEF GCFail, storeVars, fileVars
  <2>3. /\ InObject(p)' => idx'[obj'[p]] = Record(p)'
        /\ pc'[p] = "put_refs" => obj'[p] \in manifests'
    BY <1>40, <2>2 DEF GCFail, RecordInv, Record, InObject, SavePCs, CallTypes, CallInv,
       Goto, ExclPCs, SharedOps, ExclOps
  <2> QED BY <2>1, <2>2, <2>3, RecordFrame DEF Typing, TypeOK
<1>41. ASSUME NEW p \in Clients, GCSkip(p) PROVE RecordInv'
  <2>1. \A q \in Clients : q # p =>
           pc'[q] = pc[q] /\ op'[q] = op[q] /\ obj'[q] = obj[q] /\ seen'[q] = seen[q]
    BY <1>41 DEF GCSkip, CallTypes, callVars
  <2>2. idx' = idx /\ manifests' = manifests
    BY <1>41 DEF GCSkip, storeVars, fileVars
  <2>3. /\ InObject(p)' => idx'[obj'[p]] = Record(p)'
        /\ pc'[p] = "put_refs" => obj'[p] \in manifests'
    BY <1>41, <2>2 DEF GCSkip, RecordInv, Record, InObject, SavePCs, CallTypes, CallInv,
       callVars
  <2> QED BY <2>1, <2>2, <2>3, RecordFrame DEF Typing, TypeOK
<1>42. CASE UNCHANGED vars
  BY <1>42 DEF vars, storeVars, fileVars, diskVars, lockVars, callVars, CallTypes,
     LockTypes, StoreTypes, CallInv, CursorInv, LockInv, RecordInv, Record, InObject,
     FencePCs, PutPCs, DeletePCs, GetPCs, SavePCs, ExclPCs, ExclOps, SharedOps
<1> QED BY <1>1, <1>2, <1>3, <1>4, <1>5, <1>6, <1>7, <1>8, <1>9, <1>10, <1>11, <1>12, <1>13,
   <1>14, <1>15, <1>16, <1>17, <1>18, <1>19, <1>20, <1>21, <1>22, <1>23, <1>24, <1>25,
   <1>26, <1>27, <1>28, <1>29, <1>30, <1>31, <1>32, <1>33, <1>34, <1>35, <1>36, <1>37,
   <1>38, <1>39, <1>40, <1>41, <1>42 DEF Next, Call, Step, Failure, PutStep, DeleteStep,
   PersistStep, PersistBegin, GetStep, ExclStep

-----------------------------------------------------------------------------

\* The initial state has no lock held and no call under way.
LEMMA DisciplineInit == Init => FenceInv /\ LockInv /\ RecordInv
BY NoneAssumption DEF Init, FenceInv, LockInv, RecordInv, InShared, InObject, Exclusive,
     FencePCs, PutPCs, DeletePCs, GetPCs, ExclPCs, SavePCs

\* Every step keeps the lock discipline, given the types.
LEMMA DisciplineStep == Typing /\ Discipline /\ [Next]_vars => Discipline'
BY TypingStep, FenceStep, LockStep, RecordStep DEF Discipline, Typing

\* Calls hold the locks their step needs: the fence admits one writer or
\* readers, two calls are never in the critical section of one object, and an
\* index record does not change between a call's reading it under the object's
\* lock and its use (Fence, LockObject, Put, Delete).
THEOREM LocksRespected == Spec => []Discipline
<1>1. Init => Typing /\ Discipline
  BY TypingInit, DisciplineInit DEF Discipline, Typing
<1>2. Typing /\ Discipline /\ [Next]_vars => (Typing /\ Discipline)'
  BY TypingStep, DisciplineStep
<1> QED BY <1>1, <1>2, PTL DEF Spec
=============================================================================
