----------------------- MODULE StoreRefinementProofs -----------------------
(* Proofs that ShardStore implements its abstract specifications, for every *)
(* value of its constants.                                                  *)
EXTENDS StoreRefinement, ShardStoreGCProofs

-----------------------------------------------------------------------------
(* The locks *)

\* A step that leaves the locks and does not begin or end a wait for the fence.
LEMMA LocksFrame ==
    ASSUME NEW p \in Clients, UNCHANGED <<shared, writer, objLock>>,
           \A q \in Clients \ {p} : pc'[q] = pc[q],
           pc[p] \notin {"rwait", "wwait"}, pc'[p] \notin {"rwait", "wwait"}
    PROVE  UNCHANGED AsStoreLocks!lockVars
<1>1. {q \in Clients : pc'[q] = "rwait"} = {q \in Clients : pc[q] = "rwait"}
  OBVIOUS
<1>2. (\E q \in Clients : writer' = q /\ pc'[q] # "wwait")
      <=> (\E q \in Clients : writer = q /\ pc[q] # "wwait")
  OBVIOUS
<1> QED BY <1>1, <1>2 DEF AsStoreLocks!lockVars

\* Taking an object's lock inside the fence.
LEMMA LocksTake ==
    ASSUME Typing, FenceInv, NEW p \in Clients, PutLock(p) \/ DeleteLock(p)
    PROVE  AsStoreLocks!LockObject(p, obj[p]) /\ obj[p] \in Objects
<1> USE DEF Typing, TypeOK, CallTypes
<1>1. /\ pc[p] \in {"put_chunks", "del_lock"} /\ objLock[obj[p]] = NoClient
      /\ objLock' = [objLock EXCEPT ![obj[p]] = p] /\ UNCHANGED <<shared, writer>>
      /\ \A q \in Clients \ {p} : pc'[q] = pc[q]
      /\ pc'[p] \notin {"rwait", "wwait"}
  <2>1. CASE PutLock(p)
    BY <2>1 DEF PutLock, Goto
  <2>2. CASE DeleteLock(p)
    BY <2>2 DEF DeleteLock, Goto
  <2> QED BY <2>1, <2>2
<1>2. p \in shared /\ obj[p] \in Objects
  BY <1>1 DEF FenceInv, InShared, PutPCs, DeletePCs, CallInv
<1>3. {q \in Clients : pc'[q] = "rwait"} = {q \in Clients : pc[q] = "rwait"}
  BY <1>1
<1>4. (\E q \in Clients : writer' = q /\ pc'[q] # "wwait")
      <=> (\E q \in Clients : writer = q /\ pc[q] # "wwait")
  BY <1>1
<1> QED BY <1>1, <1>2, <1>3, <1>4 DEF AsStoreLocks!LockObject

\* Every step of a store is a step of its locks, or none.
LEMMA LocksStep ==
    Typing /\ FenceInv /\ [Next]_vars
      => AsStoreLocks!LocksNext \/ UNCHANGED AsStoreLocks!lockVars
<1> SUFFICES ASSUME Typing, FenceInv, [Next]_vars
             PROVE  AsStoreLocks!LocksNext \/ UNCHANGED AsStoreLocks!lockVars
  OBVIOUS
<1> USE NoneAssumption DEF Typing, TypeOK, CallTypes, LockTypes
<1>1. ASSUME NEW p \in Clients, Call(p) PROVE UNCHANGED AsStoreLocks!lockVars
  BY <1>1, LocksFrame DEF Call, CallShared, CallExclusive, lockVars, Goto
<1>2. ASSUME NEW p \in Clients, RLock(p) PROVE AsStoreLocks!LocksNext
  <2>1. CASE writer = NoClient
    <3>1. {q \in Clients : pc'[q] = "rwait"} = {q \in Clients : pc[q] = "rwait"}
      BY <1>2, <2>1 DEF RLock, Goto
    <3>2. AsStoreLocks!Admit(p)
      BY <1>2, <2>1, <3>1 DEF RLock, AsStoreLocks!Admit
    <3> QED BY <3>2 DEF AsStoreLocks!LocksNext
  <2>2. CASE writer # NoClient
    <3>1. {q \in Clients : pc'[q] = "rwait"} = {q \in Clients : pc[q] = "rwait"} \cup {p}
      BY <1>2, <2>2 DEF RLock, Goto
    <3>2. (\E q \in Clients : writer' = q /\ pc'[q] # "wwait")
          <=> (\E q \in Clients : writer = q /\ pc[q] # "wwait")
      BY <1>2, <2>2 DEF RLock, Goto
    <3>3. AsStoreLocks!HoldUp(p)
      BY <1>2, <2>2, <3>1, <3>2 DEF RLock, AsStoreLocks!HoldUp
    <3> QED BY <3>3 DEF AsStoreLocks!LocksNext
  <2> QED BY <2>1, <2>2
<1>3. ASSUME NEW p \in Clients, EnterClosed(p) \/ Enter(p)
      PROVE  UNCHANGED AsStoreLocks!lockVars
  BY <1>3, LocksFrame DEF EnterClosed, Enter, CallInv, FencePCs, lockVars, Goto
<1>4. ASSUME NEW p \in Clients, Finish(p) PROVE AsStoreLocks!LocksNext
  <2>1. p \in shared /\ shared' = shared \ {p} /\ writer' = writer
    BY <1>4 DEF Finish, FenceInv, InShared
  <2>2. objLock' = AsStoreLocks!Without(p)
    BY <1>4 DEF Finish, AsStoreLocks!Without
  <2>3. pc[p] = "finish" /\ \E l \in {"wlock", "idle"} : pc' = [pc EXCEPT ![p] = l]
    BY <1>4 DEF Finish, Goto
  <2>4. {q \in Clients : pc'[q] = "rwait"} = {q \in Clients : pc[q] = "rwait"}
    BY <2>3
  <2>5. (\E q \in Clients : writer' = q /\ pc'[q] # "wwait")
        <=> (\E q \in Clients : writer = q /\ pc[q] # "wwait")
    BY <2>1, <2>3
  <2>6. AsStoreLocks!Leave(p)
    BY <2>1, <2>2, <2>4, <2>5 DEF AsStoreLocks!Leave
  <2> QED BY <2>6 DEF AsStoreLocks!LocksNext
<1>5. ASSUME NEW p \in Clients, PutStep(p)
      PROVE  AsStoreLocks!LocksNext \/ UNCHANGED AsStoreLocks!lockVars
  <2>1. CASE PutLock(p)
    BY <2>1, LocksTake DEF AsStoreLocks!LocksNext
  <2>2. CASE PutChunk(p) \/ PutBump(p) \/ PutUndo(p) \/ PutManifest(p)
    BY <2>2, LocksFrame DEF PutChunk, PutBump, PutUndo, PutManifest, lockVars, Goto
  <2>3. CASE PutAddRef(p) \/ PutIndex(p)
    BY <2>3, LocksFrame DEF PutAddRef, PutIndex, lockVars, Goto
  <2> QED BY <1>5, <2>1, <2>2, <2>3 DEF PutStep
<1>6. ASSUME NEW p \in Clients, DeleteStep(p)
      PROVE  AsStoreLocks!LocksNext \/ UNCHANGED AsStoreLocks!lockVars
  <2>1. CASE DeleteLock(p)
    BY <2>1, LocksTake DEF AsStoreLocks!LocksNext
  <2>2. CASE DeleteDec(p) \/ DeleteSubRef(p) \/ DeleteUnderflow(p)
    BY <2>2, LocksFrame DEF DeleteDec, DeleteSubRef, DeleteUnderflow, lockVars, Goto
  <2>3. CASE DeleteIndex(p) \/ DeleteManifest(p)
    BY <2>3, LocksFrame DEF DeleteIndex, DeleteManifest, lockVars, Goto
  <2> QED BY <1>6, <2>1, <2>2, <2>3 DEF DeleteStep
<1>7. ASSUME NEW p \in Clients, PersistStep(p) PROVE UNCHANGED AsStoreLocks!lockVars
  BY <1>7, LocksFrame DEF PersistStep, PersistBegin, PersistMemory, PersistIndex,
     PersistRefs,
     PersistTruncate, AfterPersist, lockVars, Goto
<1>8. ASSUME NEW p \in Clients, GetStep(p) PROVE UNCHANGED AsStoreLocks!lockVars
  BY <1>8, LocksFrame DEF GetStep, GetLookup, GetLoad, ReadChunk, CloseReader, lockVars,
     Goto
<1>9. ASSUME NEW p \in Clients, WLockAnnounce(p) PROVE AsStoreLocks!LocksNext
  <2>1. {q \in Clients : pc'[q] = "rwait"} = {q \in Clients : pc[q] = "rwait"}
    BY <1>9 DEF WLockAnnounce, Goto
  <2>2. (\E q \in Clients : writer' = q /\ pc'[q] # "wwait")
        <=> (\E q \in Clients : writer = q /\ pc[q] # "wwait")
    BY <1>9 DEF WLockAnnounce, Goto
  <2>3. AsStoreLocks!Announce(p)
    BY <1>9, <2>1, <2>2 DEF WLockAnnounce, AsStoreLocks!Announce
  <2> QED BY <2>3 DEF AsStoreLocks!LocksNext
<1>10. ASSUME NEW p \in Clients, WLockClosed(p) \/ GCBegin(p) \/ CloseBegin(p)
       PROVE  AsStoreLocks!LocksNext
  <2>1. /\ pc[p] = "wwait" /\ shared = {} /\ UNCHANGED <<shared, writer, objLock>>
        /\ \E l \in {"wunlock", "sweep", "save_idx"} : pc' = [pc EXCEPT ![p] = l]
    BY <1>10 DEF WLockClosed, GCBegin, CloseBegin, lockVars, Goto
  <2>2. writer = p
    BY <2>1 DEF FenceInv
  <2>3. {q \in Clients : pc'[q] = "rwait"} = {q \in Clients : pc[q] = "rwait"}
    BY <2>1
  <2>4. \E q \in Clients : writer' = q /\ pc'[q] # "wwait"
    BY <2>1, <2>2
  <2>5. AsStoreLocks!Exclude
    BY <2>1, <2>2, <2>3, <2>4 DEF AsStoreLocks!Exclude
  <2> QED BY <2>5 DEF AsStoreLocks!LocksNext
<1>11. ASSUME NEW p \in Clients, GCSweep(p) \/ GCEnd(p)
       PROVE  UNCHANGED AsStoreLocks!lockVars
  BY <1>11, LocksFrame DEF GCSweep, GCEnd, lockVars, Goto
<1>12. ASSUME NEW p \in Clients, WUnlock(p) PROVE AsStoreLocks!LocksNext
  <2>1. writer = p /\ pc[p] = "wunlock"
    BY <1>12 DEF WUnlock, FenceInv, Exclusive, CallInv, ExclPCs
  <2>2. {q \in Clients : pc'[q] = "rwait"} = {}
    BY <1>12 DEF WUnlock
  <2>3. ~ \E q \in Clients : writer' = q /\ pc'[q] # "wwait"
    BY <1>12 DEF WUnlock
  <2>4. AsStoreLocks!Readmit
    BY <1>12, <2>1, <2>2, <2>3 DEF WUnlock, AsStoreLocks!Readmit
  <2> QED BY <2>4 DEF AsStoreLocks!LocksNext
<1>13. ASSUME NEW p \in Clients, Failure(p) PROVE UNCHANGED AsStoreLocks!lockVars
  <2>1. CASE CallFail(p) \/ PutAddRefFail(p) \/ DeleteSubRefFail(p) \/ DeleteManifestFail(p)
    BY <2>1, LocksFrame DEF CallFail, PutAddRefFail, DeleteSubRefFail, DeleteManifestFail,
       lockVars, Goto
  <2>2. CASE PersistFail(p) \/ GCFail(p) \/ GCSkip(p)
    BY <2>2, LocksFrame DEF PersistFail, AfterPersist, GCFail, GCSkip, lockVars, Goto
  <2> QED BY <1>13, <2>1, <2>2 DEF Failure
<1>14. CASE UNCHANGED vars
  BY <1>14 DEF vars, lockVars, AsStoreLocks!lockVars
<1> QED BY <1>1, <1>2, <1>3, <1>4, <1>5, <1>6, <1>7, <1>8, <1>9, <1>10, <1>11, <1>12, <1>13,
   <1>14 DEF Next, Step, ExclStep

\* The calls of a store use the fence and the objects' locks only as StoreLocks
\* allows, in every interleaving of any number of them (beginIO, LockObject,
\* BeginExclusive and their releases).
THEOREM StoreUsesLocks == Spec => UsesStoreLocks
<1>1. Init => AsStoreLocks!LocksInit
  BY NoneAssumption DEF Init, AsStoreLocks!LocksInit
<1>2. Init => Typing /\ FenceInv
  BY TypingInit, DisciplineInit
<1>3. Typing /\ FenceInv /\ [Next]_vars => (Typing /\ FenceInv)'
  BY TypingStep, FenceStep
<1> QED BY <1>1, <1>2, <1>3, LocksStep, PTL DEF Spec, UsesStoreLocks, AsStoreLocks!LocksSpec

-----------------------------------------------------------------------------
(* What callers see *)

\* The argument and the answer of a call, as far as its phase depends on them.
AnswerInv ==
    \A p \in Clients :
        /\ op[p] \in {"none", "gc", "close"} => obj[p] = NoObject
        /\ pc[p] = "put_undo" => out[p] = "error"

\* Every step keeps them.
LEMMA AnswerStep == Typing /\ AnswerInv /\ [Next]_vars => AnswerInv'
<1> SUFFICES ASSUME Typing, AnswerInv, [Next]_vars
             PROVE  AnswerInv'
  OBVIOUS
<1> USE DEF Typing, TypeOK, CallTypes, CallInv, AnswerInv, FencePCs, PutPCs, DeletePCs,
   GetPCs,
        SavePCs, ExclPCs, ExclOps, SharedOps
<1>1. ASSUME NEW p \in Clients, CallShared(p) PROVE AnswerInv'
  BY <1>1, NoneAssumption DEF CallShared, Goto, diskVars, fileVars, lockVars, storeVars
<1>2. ASSUME NEW p \in Clients, CallExclusive(p) PROVE AnswerInv'
  BY <1>2 DEF CallExclusive, Goto, diskVars, fileVars, lockVars, storeVars
<1>3. ASSUME NEW p \in Clients, RLock(p) PROVE AnswerInv'
  BY <1>3 DEF RLock, Goto, callVars, diskVars, fileVars, storeVars
<1>4. ASSUME NEW p \in Clients, EnterClosed(p) PROVE AnswerInv'
  BY <1>4 DEF EnterClosed, Goto, Answer, diskVars, fileVars, lockVars, storeVars
<1>5. ASSUME NEW p \in Clients, Enter(p) PROVE AnswerInv'
  BY <1>5 DEF Enter, Goto, diskVars, fileVars, lockVars, storeVars
<1>6. ASSUME NEW p \in Clients, Finish(p) PROVE AnswerInv'
  BY <1>6 DEF Finish, Goto, Answer, diskVars, fileVars, storeVars
<1>7. ASSUME NEW p \in Clients, PutChunk(p) PROVE AnswerInv'
  BY <1>7 DEF PutChunk, diskVars, lockVars, storeVars
<1>8. ASSUME NEW p \in Clients, PutLock(p) PROVE AnswerInv'
  BY <1>8 DEF PutLock, Goto, diskVars, fileVars, storeVars
<1>9. ASSUME NEW p \in Clients, PutBump(p) PROVE AnswerInv'
  BY <1>9 DEF PutBump, Goto, callVars, diskVars, fileVars, lockVars
<1>10. ASSUME NEW p \in Clients, PutUndo(p) PROVE AnswerInv'
  BY <1>10 DEF PutUndo, Goto, callVars, diskVars, fileVars, lockVars
<1>11. ASSUME NEW p \in Clients, PutManifest(p) PROVE AnswerInv'
  BY <1>11 DEF PutManifest, Goto, diskVars, lockVars, storeVars
<1>12. ASSUME NEW p \in Clients, PutAddRef(p) PROVE AnswerInv'
  BY <1>12 DEF PutAddRef, fileVars, lockVars
<1>13. ASSUME NEW p \in Clients, PutIndex(p) PROVE AnswerInv'
  BY <1>13 DEF PutIndex, Goto, callVars, diskVars, fileVars, lockVars
<1>14. ASSUME NEW p \in Clients, DeleteLock(p) PROVE AnswerInv'
  BY <1>14 DEF DeleteLock, Goto, Answer, diskVars, fileVars, storeVars
<1>15. ASSUME NEW p \in Clients, DeleteDec(p) PROVE AnswerInv'
  BY <1>15 DEF DeleteDec, Goto, callVars, diskVars, fileVars, lockVars
<1>16. ASSUME NEW p \in Clients, DeleteSubRef(p) PROVE AnswerInv'
  BY <1>16 DEF DeleteSubRef, fileVars, lockVars
<1>17. ASSUME NEW p \in Clients, DeleteUnderflow(p) PROVE AnswerInv'
  BY <1>17 DEF DeleteUnderflow, Goto, Answer, diskVars, fileVars, lockVars, storeVars
<1>18. ASSUME NEW p \in Clients, DeleteIndex(p) PROVE AnswerInv'
  BY <1>18 DEF DeleteIndex, Goto, callVars, diskVars, fileVars, lockVars
<1>19. ASSUME NEW p \in Clients, DeleteManifest(p) PROVE AnswerInv'
  BY <1>19 DEF DeleteManifest, Goto, callVars, diskVars, lockVars, storeVars
<1>20. ASSUME NEW p \in Clients, PersistMemory(p) PROVE AnswerInv'
  BY <1>20 DEF PersistMemory, Answer, AfterPersist, Goto, diskVars, fileVars, lockVars,
     storeVars
<1>21. ASSUME NEW p \in Clients, PersistIndex(p) PROVE AnswerInv'
  BY <1>21 DEF PersistIndex, Goto, callVars, fileVars, storeVars
<1>22. ASSUME NEW p \in Clients, PersistRefs(p) PROVE AnswerInv'
  BY <1>22 DEF PersistRefs, Goto, callVars, fileVars, lockVars, storeVars
<1>23. ASSUME NEW p \in Clients, PersistTruncate(p) PROVE AnswerInv'
  BY <1>23 DEF PersistTruncate, Answer, AfterPersist, Goto, fileVars, storeVars
<1>24. ASSUME NEW p \in Clients, GetLookup(p) PROVE AnswerInv'
  BY <1>24 DEF GetLookup, Goto, Answer, diskVars, fileVars, lockVars, storeVars
<1>25. ASSUME NEW p \in Clients, GetLoad(p) PROVE AnswerInv'
  BY <1>25 DEF GetLoad, Goto, Answer, diskVars, fileVars, lockVars, storeVars
<1>26. ASSUME NEW p \in Clients, ReadChunk(p) PROVE AnswerInv'
  BY <1>26 DEF ReadChunk, Answer, diskVars, fileVars, lockVars, storeVars
<1>27. ASSUME NEW p \in Clients, CloseReader(p) PROVE AnswerInv'
  BY <1>27 DEF CloseReader, Goto, Answer, diskVars, fileVars, lockVars, storeVars
<1>28. ASSUME NEW p \in Clients, WLockAnnounce(p) PROVE AnswerInv'
  BY <1>28 DEF WLockAnnounce, Goto, callVars, diskVars, fileVars, storeVars
<1>29. ASSUME NEW p \in Clients, WLockClosed(p) PROVE AnswerInv'
  BY <1>29 DEF WLockClosed, Goto, Answer, diskVars, fileVars, lockVars, storeVars
<1>30. ASSUME NEW p \in Clients, GCBegin(p) PROVE AnswerInv'
  BY <1>30 DEF GCBegin, Goto, callVars, diskVars, fileVars, lockVars, storeVars
<1>31. ASSUME NEW p \in Clients, GCSweep(p) PROVE AnswerInv'
  BY <1>31 DEF GCSweep, callVars, diskVars, lockVars, storeVars
<1>32. ASSUME NEW p \in Clients, GCEnd(p) PROVE AnswerInv'
  BY <1>32 DEF GCEnd, Goto, callVars, diskVars, fileVars, lockVars, storeVars
<1>33. ASSUME NEW p \in Clients, CloseBegin(p) PROVE AnswerInv'
  BY <1>33 DEF CloseBegin, Goto, callVars, diskVars, fileVars, lockVars
<1>34. ASSUME NEW p \in Clients, WUnlock(p) PROVE AnswerInv'
  BY <1>34 DEF WUnlock, Answer, diskVars, fileVars, storeVars
<1>35. ASSUME NEW p \in Clients, CallFail(p) PROVE AnswerInv'
  BY <1>35 DEF CallFail, Goto, Answer, diskVars, fileVars, lockVars, storeVars
<1>36. ASSUME NEW p \in Clients, PutAddRefFail(p) PROVE AnswerInv'
  BY <1>36 DEF PutAddRefFail, Goto, Answer, fileVars, lockVars, storeVars
<1>37. ASSUME NEW p \in Clients, DeleteSubRefFail(p) PROVE AnswerInv'
  BY <1>37 DEF DeleteSubRefFail, Goto, Answer, fileVars, lockVars, storeVars
<1>38. ASSUME NEW p \in Clients, DeleteManifestFail(p) PROVE AnswerInv'
  BY <1>38 DEF DeleteManifestFail, Goto, Answer, diskVars, fileVars, lockVars, storeVars
<1>39. ASSUME NEW p \in Clients, PersistFail(p) PROVE AnswerInv'
  BY <1>39 DEF PersistFail, Goto, Answer, AfterPersist, fileVars, storeVars
<1>40. ASSUME NEW p \in Clients, GCFail(p) PROVE AnswerInv'
  BY <1>40 DEF GCFail, Goto, Answer, diskVars, fileVars, lockVars, storeVars
<1>41. ASSUME NEW p \in Clients, GCSkip(p) PROVE AnswerInv'
  BY <1>41 DEF GCSkip, callVars, diskVars, fileVars, lockVars, storeVars
<1>42. CASE UNCHANGED vars
  BY <1>42 DEF vars, callVars
<1> QED BY <1>1, <1>2, <1>3, <1>4, <1>5, <1>6, <1>7, <1>8, <1>9, <1>10, <1>11, <1>12,
   <1>13, <1>14, <1>15, <1>16, <1>17, <1>18, <1>19, <1>20, <1>21, <1>22, <1>23, <1>24,
   <1>25, <1>26, <1>27, <1>28, <1>29, <1>30, <1>31, <1>32, <1>33, <1>34, <1>35, <1>36,
   <1>37, <1>38, <1>39, <1>40, <1>41, <1>42
   DEF Next, Call, Step, Failure, PutStep, DeleteStep, PersistStep, PersistBegin, GetStep,
      ExclStep

\* The steps of a call that has had no effect yet, and those of one that has.
PendingPCs ==
    FencePCs \cup (PutPCs \ {"put_undo"}) \cup (DeletePCs \ {"del_man"}) \cup {"get_look"}
DonePCs == SavePCs \cup {"del_man", "put_undo"}

\* What the phase of a call comes to at each step, and the call it stands for.
PhaseTable ==
    \A p \in Clients :
        /\ op[p] \in {"none", "gc", "close"} => Phase(p) = "idle" /\ CallOf(p) = "none"
        /\ op[p] = "autogc" => Phase(p) = AnswerPhase(out[p]) /\ CallOf(p) = "delete"
        /\ op[p] \in {"put", "delete", "get"} =>
             /\ CallOf(p) = op[p]
             /\ pc[p] = "finish" => Phase(p) = AnswerPhase(out[p])
             /\ pc[p] \in DonePCs => Phase(p) = "done"
             /\ pc[p] = "get_load" => Phase(p) = "sighted"
             /\ pc[p] = "reading" /\ out[p] # "error" => Phase(p) = "open"
             /\ pc[p] \in PendingPCs => Phase(p) = "pending"

\* The table is what Phase and CallOf say.
LEMMA PhasesAre == PhaseTable
  BY DEF PhaseTable, Phase, CallOf, PendingPCs, DonePCs, SavePCs, FencePCs, PutPCs,
     DeletePCs

\* The same in the next state.
LEMMA PhasesAreNext == PhaseTable'
  BY PhasesAre, PTL

\* The phase that each answer stands for, until its call returns.
LEMMA AnswersAre ==
    /\ AnswerPhase("none") = "done" /\ AnswerPhase("ok") = "done"
    /\ AnswerPhase("error") = "failed" /\ AnswerPhase("closed") = "refused"
    /\ AnswerPhase("notfound") = "missed" /\ AnswerPhase("incomplete") = "missed"
    /\ \A r \in Outs : AnswerPhase(r) \in {"done", "failed", "refused", "missed"}
  BY DEF AnswerPhase, Outs

\* The call does not change, and with it and its answer the phase of a call that
\* goes on, or of a GC or Close.
LEMMA SamePhase ==
    ASSUME NEW p \in Clients, op'[p] = op[p], out'[p] = out[p],
           \/ pc'[p] = pc[p]
           \/ op[p] \in {"none", "gc", "close", "autogc"}
           \/ op[p] \in {"put", "delete", "get"} /\ pc[p] \in PendingPCs /\ pc'[p] \in PendingPCs
           \/ op[p] \in {"put", "delete", "get"} /\ pc[p] \in DonePCs /\ pc'[p] \in DonePCs
    PROVE  Phase(p)' = Phase(p) /\ CallOf(p)' = CallOf(p)
<1>1. CallOf(p)' = CallOf(p)
  BY DEF CallOf
<1>2. CASE pc'[p] = pc[p]
  BY <1>1, <1>2 DEF Phase
<1>3. CASE op[p] \in {"none", "gc", "close", "autogc"}
  BY <1>1, <1>3, PhasesAre, PhasesAreNext DEF PhaseTable
<1>4. CASE op[p] \in {"put", "delete", "get"} /\ pc[p] \in PendingPCs /\ pc'[p] \in PendingPCs
  BY <1>1, <1>4, PhasesAre, PhasesAreNext DEF PhaseTable
<1>5. CASE op[p] \in {"put", "delete", "get"} /\ pc[p] \in DonePCs /\ pc'[p] \in DonePCs
  BY <1>1, <1>5, PhasesAre, PhasesAreNext DEF PhaseTable
<1> QED BY <1>2, <1>3, <1>4, <1>5

\* Nor does a persist that succeeds change the phase of the call it ends.
LEMMA SavedPhase ==
    ASSUME NEW p \in Clients, op'[p] = op[p], out[p] = "none", out'[p] = "ok",
           pc[p] \in SavePCs,
           \/ op[p] \in {"put", "delete"} /\ pc'[p] = "finish"
           \/ op[p] \in ExclOps
    PROVE  Phase(p)' = Phase(p) /\ CallOf(p)' = CallOf(p)
<1>1. CASE op[p] \in {"put", "delete"} /\ pc'[p] = "finish"
  BY <1>1, PhasesAre, PhasesAreNext, AnswersAre DEF PhaseTable, DonePCs
<1>2. CASE op[p] \in ExclOps
  BY <1>2, PhasesAre, PhasesAreNext, AnswersAre DEF PhaseTable, ExclOps
<1> QED BY <1>1, <1>2

\* A step of p after which every other call is where it was for its caller.
Alone(p) == \A q \in Clients \ {p} : Phase(q)' = Phase(q) /\ CallOf(q)' = CallOf(q)

\* The step of one client moves no other.
LEMMA AloneFrame ==
    ASSUME NEW p \in Clients,
           \A q \in Clients \ {p} : pc'[q] = pc[q] /\ op'[q] = op[q] /\ out'[q] = out[q]
    PROVE  Alone(p)
  BY DEF Alone, Phase, CallOf

\* A step that moves the phase of p.
LEMMA Moved ==
    ASSUME NEW p \in Clients, NEW S, NEW to, Alone(p), Phase(p) \in S, Phase(p)' = to
    PROVE  Abstract!Move(p, S, to)
  BY DEF Alone, Abstract!Move

\* The calls after a step of p that changes its own.
LEMMA CallsMoved ==
    ASSUME NEW p \in Clients, Alone(p)
    PROVE  [q \in Clients |-> CallOf(q)]'
              = [[q \in Clients |-> CallOf(q)] EXCEPT ![p] = CallOf(p)']
  BY DEF Alone

\* The calls after a step of p that keeps its own.
LEMMA CallsSame ==
    ASSUME NEW p \in Clients, Alone(p), CallOf(p)' = CallOf(p)
    PROVE  [q \in Clients |-> CallOf(q)]' = [q \in Clients |-> CallOf(q)]
  BY DEF Alone

\* A step that no caller notices.
LEMMA Unseen ==
    ASSUME NEW p \in Clients, Alone(p), Phase(p)' = Phase(p), CallOf(p)' = CallOf(p),
           UNCHANGED <<idx, closed, obj>>
    PROVE  UNCHANGED Abstract!absVars
<1>1. [q \in Clients |-> Phase(q)]' = [q \in Clients |-> Phase(q)]
  BY DEF Alone
<1> QED BY <1>1, CallsSame DEF Abstract!absVars

-----------------------------------------------------------------------------
(* A store implements ObjectStore *)

AbsStep == [Abstract!AbsNext]_(Abstract!absVars)

\* What the steps of calls rely on.
CallerInv ==
    Typing /\ Discipline /\ AnswerInv /\ VisibleReadable /\ ReadInv /\ NoFault({"sub"})

\* What a call has read is still the use count of its object.
LEMMA RecordsAre ==
    ASSUME RecordInv, NEW p \in Clients
    PROVE  /\ pc[p] \in {"put_bump", "del_dec", "del_refs"} => idx[obj[p]] = seen[p]
           /\ pc[p] = "put_refs" => idx[obj[p]] = 0
           /\ pc[p] = "put_undo" => idx[obj[p]] = seen[p] + 1
<1>1. CASE pc[p] \in {"put_bump", "del_dec", "del_refs"}
  BY <1>1 DEF RecordInv, Record, InObject, SavePCs
<1>2. CASE pc[p] = "put_refs"
  BY <1>2 DEF RecordInv, Record, InObject, SavePCs
<1>3. CASE pc[p] = "put_undo"
  BY <1>3 DEF RecordInv, Record, InObject, SavePCs
<1> QED BY <1>1, <1>2, <1>3

\* A call that has not answered has no answer yet.
LEMMA NotAnswered ==
    ASSUME CallInv, NEW p \in Clients,
           pc[p] \notin {"finish", "wunlock", "put_undo", "reading"}
    PROVE  out[p] = "none"
  BY DEF CallInv

\* Every step is one of the object store, or goes unnoticed.
LEMMA ObjectStep == CallerInv /\ CallerInv' /\ [Next]_vars => AbsStep
<1> SUFFICES ASSUME CallerInv, CallerInv', [Next]_vars
             PROVE  AbsStep
  OBVIOUS
<1> USE DEF CallerInv, Typing, TypeOK, CallTypes, StoreTypes, Discipline, CallInv,
   AnswerInv, ReadInv,
        FencePCs, PutPCs, DeletePCs, GetPCs, SavePCs, ExclPCs, ExclOps, SharedOps
<1>1. ASSUME NEW p \in Clients, CallShared(p) PROVE AbsStep
  <2>1. Alone(p)
    BY <1>1, AloneFrame DEF CallShared, Goto, diskVars, fileVars, lockVars, storeVars
  <2>2. PICK k \in {"put", "delete", "get"}, o \in Objects :
          op' = [op EXCEPT ![p] = k] /\ obj' = [obj EXCEPT ![p] = o]
    BY <1>1, ZenonT(60) DEF CallShared
  <2>3. Phase(p) \in {"idle"} /\ Phase(p)' = "pending" /\ CallOf(p)' = k
    BY <1>1, <2>2, PhasesAre, PhasesAreNext, AnswersAre DEF CallShared, Goto, diskVars,
       fileVars, lockVars, storeVars, PhaseTable, PendingPCs, DonePCs
  <2>4. Abstract!Move(p, {"idle"}, "pending")
    BY <2>1, <2>3, Moved
  <2>5. [q \in Clients |-> CallOf(q)]' = [[q \in Clients |-> CallOf(q)] EXCEPT ![p] = k]
    BY <2>1, <2>3, CallsMoved
  <2>6. UNCHANGED <<idx, closed>>
    BY <1>1 DEF CallShared, storeVars
  <2>7. Abstract!Start(p)
    <3>1. k \in Abstract!Calls
      BY DEF Abstract!Calls
    <3> QED BY <2>2, <2>4, <2>5, <2>6, <3>1, ZenonT(60) DEF Abstract!Start
  <2> QED BY <2>7 DEF AbsStep, Abstract!AbsNext
<1>2. ASSUME NEW p \in Clients, CallExclusive(p) PROVE AbsStep
  <2>1. Alone(p)
    BY <1>2, AloneFrame DEF CallExclusive, Goto, diskVars, fileVars, lockVars, storeVars
  <2>2. Phase(p)' = Phase(p) /\ CallOf(p)' = CallOf(p)
    BY <1>2, PhasesAre, PhasesAreNext, AnswersAre DEF CallExclusive, Goto, diskVars,
       fileVars, lockVars, storeVars, PhaseTable, PendingPCs, DonePCs
  <2> QED BY <1>2, <2>1, <2>2, Unseen DEF CallExclusive, Goto, diskVars, fileVars,
     lockVars, storeVars, AbsStep
<1>3. ASSUME NEW p \in Clients, RLock(p) PROVE AbsStep
  <2>1. Alone(p)
    BY <1>3, AloneFrame DEF RLock, Goto, callVars, diskVars, fileVars, storeVars
  <2>2. /\ out'[p] = out[p] /\ op'[p] = op[p]
        /\ pc[p] \in PendingPCs /\ pc'[p] \in PendingPCs
        /\ op[p] \in {"put", "delete", "get"}
    BY <1>3 DEF RLock, Goto, callVars, diskVars, fileVars, storeVars, PendingPCs, DonePCs
  <2>3. Phase(p)' = Phase(p) /\ CallOf(p)' = CallOf(p)
    BY <2>2, SamePhase
  <2> QED BY <1>3, <2>1, <2>3, Unseen DEF RLock, Goto, callVars, diskVars, fileVars,
     storeVars, AbsStep
<1>4. ASSUME NEW p \in Clients, EnterClosed(p) PROVE AbsStep
  <2>1. Alone(p)
    BY <1>4, AloneFrame DEF EnterClosed, Goto, Answer, diskVars, fileVars, lockVars,
       storeVars
  <2>2. Phase(p) \in {"pending"} /\ Phase(p)' = "refused" /\ CallOf(p)' = CallOf(p)
    BY <1>4, PhasesAre, PhasesAreNext, AnswersAre DEF EnterClosed, Goto, Answer, diskVars,
       fileVars, lockVars, storeVars, PhaseTable, PendingPCs, DonePCs
  <2>3. Abstract!Move(p, {"pending"}, "refused")
    BY <2>1, <2>2, Moved
  <2>4. Abstract!Refuse(p)
    BY <1>4, <2>1, <2>2, <2>3, CallsSame DEF EnterClosed, Goto, Answer, diskVars, fileVars,
       lockVars, storeVars, Abstract!Refuse
  <2> QED BY <2>4 DEF AbsStep, Abstract!AbsNext
<1>5. ASSUME NEW p \in Clients, Enter(p) PROVE AbsStep
  <2>1. Alone(p)
    BY <1>5, AloneFrame DEF Enter, Goto, diskVars, fileVars, lockVars, storeVars
  <2>2. /\ out'[p] = out[p] /\ op'[p] = op[p]
        /\ pc[p] \in PendingPCs /\ pc'[p] \in PendingPCs
        /\ op[p] \in {"put", "delete", "get"}
    BY <1>5 DEF Enter, Goto, diskVars, fileVars, lockVars, storeVars, PendingPCs, DonePCs
  <2>3. Phase(p)' = Phase(p) /\ CallOf(p)' = CallOf(p)
    BY <2>2, SamePhase
  <2> QED BY <1>5, <2>1, <2>3, Unseen DEF Enter, Goto, diskVars, fileVars, lockVars,
     storeVars, AbsStep
<1>6. ASSUME NEW p \in Clients, Finish(p) PROVE AbsStep
  <2>1. Alone(p)
    BY <1>6, AloneFrame DEF Finish, Goto, Answer, diskVars, fileVars, storeVars
  <2>2. CASE op[p] = "delete" /\ out[p] = "ok" /\ AutoGC
    <3>1. Phase(p)' = Phase(p) /\ CallOf(p)' = CallOf(p)
      BY <1>6, <2>2, PhasesAre, PhasesAreNext, AnswersAre DEF Finish, Goto, Answer,
         diskVars, fileVars, storeVars, PhaseTable, PendingPCs, DonePCs
    <3>2. obj' = obj
      BY <1>6, <2>2 DEF Finish, Goto, Answer, diskVars, fileVars, storeVars
    <3> QED BY <1>6, <2>1, <3>1, <3>2, Unseen DEF Finish, Goto, Answer, diskVars, fileVars,
       storeVars, AbsStep
  <2>3. CASE ~(op[p] = "delete" /\ out[p] = "ok" /\ AutoGC)
    <3>1. /\ pc[p] = "finish" /\ op[p] \in {"put", "delete", "get"}
          /\ out[p] \in Outs /\ op'[p] = "none"
      BY <1>6, <2>3 DEF Finish, Goto, Answer, diskVars, fileVars, storeVars, PendingPCs,
         DonePCs
    <3>2. /\ Phase(p) \in {"done", "missed", "failed", "refused"} /\ Phase(p)' = "idle"
          /\ CallOf(p)' = "none"
      BY <3>1, PhasesAre, PhasesAreNext, AnswersAre DEF PhaseTable, PendingPCs, DonePCs
    <3>3. Abstract!Move(p, {"done", "missed", "failed", "refused"}, "idle")
      BY <2>1, <3>2, Moved
    <3>4. Abstract!Answered(p)
      BY <1>6, <2>1, <2>3, <3>2, <3>3, CallsMoved DEF Finish, Goto, Answer, diskVars,
         fileVars, storeVars, Abstract!Answered
    <3> QED BY <3>4 DEF AbsStep, Abstract!AbsNext
  <2> QED BY <1>6, <2>2, <2>3 DEF Finish
<1>7. ASSUME NEW p \in Clients, PutChunk(p) PROVE AbsStep
  <2>1. Alone(p)
    BY <1>7, AloneFrame DEF PutChunk, diskVars, lockVars, storeVars
  <2>2. /\ out'[p] = out[p] /\ op'[p] = op[p]
        /\ pc'[p] = pc[p]
    BY <1>7 DEF PutChunk, diskVars, lockVars, storeVars, PendingPCs, DonePCs
  <2>3. Phase(p)' = Phase(p) /\ CallOf(p)' = CallOf(p)
    BY <2>2, SamePhase
  <2> QED BY <1>7, <2>1, <2>3, Unseen DEF PutChunk, diskVars, lockVars, storeVars, AbsStep
<1>8. ASSUME NEW p \in Clients, PutLock(p) PROVE AbsStep
  <2>1. Alone(p)
    BY <1>8, AloneFrame DEF PutLock, Goto, diskVars, fileVars, storeVars
  <2>2. /\ out'[p] = out[p] /\ op'[p] = op[p]
        /\ pc[p] \in PendingPCs /\ pc'[p] \in PendingPCs
        /\ op[p] \in {"put", "delete", "get"}
    BY <1>8 DEF PutLock, Goto, diskVars, fileVars, storeVars, PendingPCs, DonePCs
  <2>3. Phase(p)' = Phase(p) /\ CallOf(p)' = CallOf(p)
    BY <2>2, SamePhase
  <2> QED BY <1>8, <2>1, <2>3, Unseen DEF PutLock, Goto, diskVars, fileVars, storeVars,
     AbsStep
<1>9. ASSUME NEW p \in Clients, PutBump(p) PROVE AbsStep
  <2>1. Alone(p)
    BY <1>9, AloneFrame DEF PutBump, Goto, callVars, diskVars, fileVars, lockVars
  <2>2. /\ Phase(p) \in {"pending"} /\ Phase(p)' = "done"
        /\ CallOf(p)' = CallOf(p) /\ CallOf(p) = "put"
    BY <1>9, PhasesAre, PhasesAreNext, AnswersAre DEF PutBump, Goto, callVars, diskVars,
       fileVars, lockVars, PhaseTable, PendingPCs, DonePCs
  <2>3. Abstract!Move(p, {"pending"}, "done")
    BY <2>1, <2>2, Moved
  <2>4. obj[p] \in Objects /\ idx' = [idx EXCEPT ![obj[p]] = idx[obj[p]] + 1]
    <3>1. idx[obj[p]] = seen[p]
      BY <1>9, RecordsAre DEF PutBump
    <3>2. idx' = [idx EXCEPT ![obj[p]] = seen[p] + 1] /\ obj[p] \in Objects
      BY <1>9 DEF PutBump
    <3> QED BY <3>1, <3>2
  <2>5. Abstract!PutEffect(p)
    BY <1>9, <2>1, <2>2, <2>3, <2>4, CallsSame DEF PutBump, Goto, callVars, diskVars,
       fileVars, lockVars, Abstract!PutEffect
  <2> QED BY <2>5 DEF AbsStep, Abstract!AbsNext
<1>10. ASSUME NEW p \in Clients, PutUndo(p) PROVE AbsStep
  <2>1. Alone(p)
    BY <1>10, AloneFrame DEF PutUndo, Goto, callVars, diskVars, fileVars, lockVars
  <2>2. /\ Phase(p) \in {"done"} /\ Phase(p)' = "failed"
        /\ CallOf(p)' = CallOf(p) /\ CallOf(p) = "put"
    BY <1>10, PhasesAre, PhasesAreNext, AnswersAre DEF PutUndo, Goto, callVars, diskVars,
       fileVars, lockVars, PhaseTable, PendingPCs, DonePCs
  <2>3. Abstract!Move(p, {"done"}, "failed")
    BY <2>1, <2>2, Moved
  <2>4. idx[obj[p]] > 1 /\ idx' = [idx EXCEPT ![obj[p]] = idx[obj[p]] - 1]
    <3>1. idx[obj[p]] = seen[p] + 1 /\ seen[p] > 0 /\ seen[p] \in Nat
      BY <1>10, RecordsAre DEF PutUndo, CursorInv
    <3>2. idx' = [idx EXCEPT ![obj[p]] = seen[p]] /\ obj[p] \in Objects
      BY <1>10 DEF PutUndo
    <3>3. idx[obj[p]] > 1 /\ seen[p] = idx[obj[p]] - 1
      BY <3>1, SMTT(30)
    <3>4. idx' = [idx EXCEPT ![obj[p]] = idx[obj[p]] - 1]
      BY ONLY <3>2, <3>3, Zenon
    <3> QED BY <3>3, <3>4
  <2>5. Abstract!TakeBack(p)
    BY <1>10, <2>1, <2>2, <2>3, <2>4, CallsSame DEF PutUndo, Goto, callVars, diskVars,
       fileVars, lockVars, Abstract!TakeBack
  <2> QED BY <2>5 DEF AbsStep, Abstract!AbsNext
<1>11. ASSUME NEW p \in Clients, PutManifest(p) PROVE AbsStep
  <2>1. Alone(p)
    BY <1>11, AloneFrame DEF PutManifest, Goto, diskVars, lockVars, storeVars
  <2>2. /\ out'[p] = out[p] /\ op'[p] = op[p]
        /\ pc[p] \in PendingPCs /\ pc'[p] \in PendingPCs
        /\ op[p] \in {"put", "delete", "get"}
    BY <1>11 DEF PutManifest, Goto, diskVars, lockVars, storeVars, PendingPCs, DonePCs
  <2>3. Phase(p)' = Phase(p) /\ CallOf(p)' = CallOf(p)
    BY <2>2, SamePhase
  <2> QED BY <1>11, <2>1, <2>3, Unseen DEF PutManifest, Goto, diskVars, lockVars,
     storeVars, AbsStep
<1>12. ASSUME NEW p \in Clients, PutAddRef(p) PROVE AbsStep
  <2>1. Alone(p)
    BY <1>12, AloneFrame DEF PutAddRef, fileVars, lockVars
  <2>2. /\ out'[p] = out[p] /\ op'[p] = op[p]
        /\ pc'[p] = pc[p]
    BY <1>12 DEF PutAddRef, fileVars, lockVars, PendingPCs, DonePCs
  <2>3. Phase(p)' = Phase(p) /\ CallOf(p)' = CallOf(p)
    BY <2>2, SamePhase
  <2> QED BY <1>12, <2>1, <2>3, Unseen DEF PutAddRef, fileVars, lockVars, AbsStep
<1>13. ASSUME NEW p \in Clients, PutIndex(p) PROVE AbsStep
  <2>1. Alone(p)
    BY <1>13, AloneFrame DEF PutIndex, Goto, callVars, diskVars, fileVars, lockVars
  <2>2. /\ Phase(p) \in {"pending"} /\ Phase(p)' = "done"
        /\ CallOf(p)' = CallOf(p) /\ CallOf(p) = "put"
    BY <1>13, PhasesAre, PhasesAreNext, AnswersAre DEF PutIndex, Goto, callVars, diskVars,
       fileVars, lockVars, PhaseTable, PendingPCs, DonePCs
  <2>3. Abstract!Move(p, {"pending"}, "done")
    BY <2>1, <2>2, Moved
  <2>4. obj[p] \in Objects /\ idx' = [idx EXCEPT ![obj[p]] = idx[obj[p]] + 1]
    <3>1. idx[obj[p]] = 0
      BY <1>13, RecordsAre DEF PutIndex
    <3>2. idx' = [idx EXCEPT ![obj[p]] = 1] /\ obj[p] \in Objects
      BY <1>13 DEF PutIndex
    <3> QED BY <3>1, <3>2
  <2>5. Abstract!PutEffect(p)
    BY <1>13, <2>1, <2>2, <2>3, <2>4, CallsSame DEF PutIndex, Goto, callVars, diskVars,
       fileVars, lockVars, Abstract!PutEffect
  <2> QED BY <2>5 DEF AbsStep, Abstract!AbsNext
<1>14. ASSUME NEW p \in Clients, DeleteLock(p) PROVE AbsStep
  <2>1. Alone(p)
    BY <1>14, AloneFrame DEF DeleteLock, Goto, Answer, diskVars, fileVars, storeVars
  <2>2. CASE idx[obj[p]] = 0 \/ obj[p] \notin manifests
    <3>1. /\ Phase(p) \in {"pending", "sighted"} /\ Phase(p)' = "missed"
          /\ CallOf(p)' = CallOf(p) /\ CallOf(p) \in {"delete"}
      BY <1>14, <2>2, PhasesAre, PhasesAreNext, AnswersAre DEF DeleteLock, Goto, Answer,
         diskVars, fileVars, storeVars, PhaseTable, PendingPCs, DonePCs
    <3>2. Abstract!Move(p, {"pending", "sighted"}, "missed")
      BY <2>1, <3>1, Moved
    <3>3. idx[obj[p]] = 0
      BY <1>14, <2>2 DEF DeleteLock, VisibleReadable
    <3>4. Abstract!Miss(p)
      BY <1>14, <2>1, <2>2, <3>1, <3>2, <3>3, CallsSame DEF DeleteLock, Goto, Answer,
         diskVars, fileVars, storeVars, Abstract!Miss, Abstract!Calls
    <3> QED BY <3>4 DEF AbsStep, Abstract!AbsNext
  <2>3. CASE ~(idx[obj[p]] = 0 \/ obj[p] \notin manifests)
    <3>1. /\ out'[p] = out[p] /\ op'[p] = op[p] /\ op[p] \in {"put", "delete", "get"}
          /\ pc[p] \in PendingPCs /\ pc'[p] \in PendingPCs
      BY <1>14, <2>3 DEF DeleteLock, Goto, Answer, diskVars, fileVars, storeVars,
         PendingPCs, DonePCs
    <3>2. Phase(p)' = Phase(p) /\ CallOf(p)' = CallOf(p)
      BY <3>1, SamePhase
    <3>3. obj' = obj
      BY <1>14, <2>3 DEF DeleteLock, Goto, Answer, diskVars, fileVars, storeVars
    <3> QED BY <1>14, <2>1, <3>2, <3>3, Unseen DEF DeleteLock, Goto, Answer, diskVars,
       fileVars, storeVars, AbsStep
  <2> QED BY <1>14, <2>2, <2>3 DEF DeleteLock
<1>15. ASSUME NEW p \in Clients, DeleteDec(p) PROVE AbsStep
  <2>1. Alone(p)
    BY <1>15, AloneFrame DEF DeleteDec, Goto, callVars, diskVars, fileVars, lockVars
  <2>2. /\ Phase(p) \in {"pending"} /\ Phase(p)' = "done"
        /\ CallOf(p)' = CallOf(p) /\ CallOf(p) = "delete"
    BY <1>15, PhasesAre, PhasesAreNext, AnswersAre DEF DeleteDec, Goto, callVars, diskVars,
       fileVars, lockVars, PhaseTable, PendingPCs, DonePCs
  <2>3. Abstract!Move(p, {"pending"}, "done")
    BY <2>1, <2>2, Moved
  <2>4. idx[obj[p]] > 0 /\ idx' = [idx EXCEPT ![obj[p]] = idx[obj[p]] - 1]
    <3>1. idx[obj[p]] = seen[p] /\ seen[p] > 1 /\ seen[p] \in Nat
      BY <1>15, RecordsAre DEF DeleteDec, CursorInv
    <3>2. idx' = [idx EXCEPT ![obj[p]] = seen[p] - 1] /\ obj[p] \in Objects
      BY <1>15 DEF DeleteDec
    <3> QED BY <3>1, <3>2
  <2>5. Abstract!DeleteEffect(p)
    BY <1>15, <2>1, <2>2, <2>3, <2>4, CallsSame DEF DeleteDec, Goto, callVars, diskVars,
       fileVars, lockVars, Abstract!DeleteEffect
  <2> QED BY <2>5 DEF AbsStep, Abstract!AbsNext
<1>16. ASSUME NEW p \in Clients, DeleteSubRef(p) PROVE AbsStep
  <2>1. Alone(p)
    BY <1>16, AloneFrame DEF DeleteSubRef, fileVars, lockVars
  <2>2. /\ out'[p] = out[p] /\ op'[p] = op[p]
        /\ pc'[p] = pc[p]
    BY <1>16 DEF DeleteSubRef, fileVars, lockVars, PendingPCs, DonePCs
  <2>3. Phase(p)' = Phase(p) /\ CallOf(p)' = CallOf(p)
    BY <2>2, SamePhase
  <2> QED BY <1>16, <2>1, <2>3, Unseen DEF DeleteSubRef, fileVars, lockVars, AbsStep
<1>17. ASSUME NEW p \in Clients, DeleteUnderflow(p) PROVE AbsStep
  <2>1. Alone(p)
    BY <1>17, AloneFrame DEF DeleteUnderflow, Goto, Answer, diskVars, fileVars, lockVars,
       storeVars
  <2>2. /\ Phase(p) \in {"pending", "done"} /\ Phase(p)' = "failed"
        /\ CallOf(p)' = CallOf(p) /\ CallOf(p) = "delete"
    BY <1>17, PhasesAre, PhasesAreNext, AnswersAre DEF DeleteUnderflow, Goto, Answer,
       diskVars, fileVars, lockVars, storeVars, PhaseTable, PendingPCs, DonePCs
  <2>3. Abstract!Move(p, {"pending", "done"}, "failed")
    BY <2>1, <2>2, Moved
  <2>4. Abstract!Fail(p)
    BY <1>17, <2>1, <2>2, <2>3, CallsSame DEF DeleteUnderflow, Goto, Answer, diskVars,
       fileVars, lockVars, storeVars, Abstract!Fail
  <2> QED BY <2>4 DEF AbsStep, Abstract!AbsNext
<1>18. ASSUME NEW p \in Clients, DeleteIndex(p) PROVE AbsStep
  <2>1. Alone(p)
    BY <1>18, AloneFrame DEF DeleteIndex, Goto, callVars, diskVars, fileVars, lockVars
  <2>2. /\ Phase(p) \in {"pending"} /\ Phase(p)' = "done"
        /\ CallOf(p)' = CallOf(p) /\ CallOf(p) = "delete"
    BY <1>18, PhasesAre, PhasesAreNext, AnswersAre DEF DeleteIndex, Goto, callVars,
       diskVars, fileVars, lockVars, PhaseTable, PendingPCs, DonePCs
  <2>3. Abstract!Move(p, {"pending"}, "done")
    BY <2>1, <2>2, Moved
  <2>4. idx[obj[p]] > 0 /\ idx' = [idx EXCEPT ![obj[p]] = idx[obj[p]] - 1]
    <3>1. idx[obj[p]] = seen[p] /\ seen[p] = 1
      BY <1>18, RecordsAre DEF DeleteIndex, CursorInv
    <3>2. idx' = [idx EXCEPT ![obj[p]] = 0] /\ obj[p] \in Objects
      BY <1>18 DEF DeleteIndex
    <3> QED BY <3>1, <3>2
  <2>5. Abstract!DeleteEffect(p)
    BY <1>18, <2>1, <2>2, <2>3, <2>4, CallsSame DEF DeleteIndex, Goto, callVars, diskVars,
       fileVars, lockVars, Abstract!DeleteEffect
  <2> QED BY <2>5 DEF AbsStep, Abstract!AbsNext
<1>19. ASSUME NEW p \in Clients, DeleteManifest(p) PROVE AbsStep
  <2>1. Alone(p)
    BY <1>19, AloneFrame DEF DeleteManifest, Goto, callVars, diskVars, lockVars, storeVars
  <2>2. /\ out'[p] = out[p] /\ op'[p] = op[p]
        /\ pc[p] \in DonePCs /\ pc'[p] \in DonePCs /\ op[p] \in {"put", "delete", "get"}
    BY <1>19 DEF DeleteManifest, Goto, callVars, diskVars, lockVars, storeVars, PendingPCs,
       DonePCs
  <2>3. Phase(p)' = Phase(p) /\ CallOf(p)' = CallOf(p)
    BY <2>2, SamePhase
  <2> QED BY <1>19, <2>1, <2>3, Unseen DEF DeleteManifest, Goto, callVars, diskVars,
     lockVars, storeVars, AbsStep
<1>20. ASSUME NEW p \in Clients, PersistMemory(p) PROVE AbsStep
  <2>1. Alone(p)
    BY <1>20, AloneFrame DEF PersistMemory, Answer, AfterPersist, Goto, diskVars, fileVars,
       lockVars, storeVars
  <2>2. /\ out[p] = "none" /\ out'[p] = "ok" /\ op'[p] = op[p] /\ pc[p] \in SavePCs
        /\ op[p] \in {"put", "delete"} \/ op[p] \in ExclOps
    <3>1. pc[p] \in SavePCs /\ (op[p] \in {"put", "delete"} \/ op[p] \in ExclOps)
      BY <1>20 DEF PersistMemory
    <3>2. out[p] = "none"
      BY <3>1, NotAnswered
    <3> QED BY <1>20, <3>1, <3>2 DEF PersistMemory, Answer, AfterPersist, Goto, diskVars,
       fileVars, lockVars, storeVars
  <2>3. op[p] \in {"put", "delete"} => pc'[p] = "finish"
    BY <1>20 DEF PersistMemory, Answer, AfterPersist, Goto, diskVars, fileVars, lockVars,
       storeVars
  <2>4. Phase(p)' = Phase(p) /\ CallOf(p)' = CallOf(p)
    BY <2>2, <2>3, SavedPhase
  <2> QED BY <1>20, <2>1, <2>4, Unseen DEF PersistMemory, Answer, AfterPersist, Goto,
     diskVars, fileVars, lockVars, storeVars, AbsStep
<1>21. ASSUME NEW p \in Clients, PersistIndex(p) PROVE AbsStep
  <2>1. Alone(p)
    BY <1>21, AloneFrame DEF PersistIndex, Goto, callVars, fileVars, storeVars
  <2>2. /\ out'[p] = out[p] /\ op'[p] = op[p]
        /\ \/ op[p] \in {"gc", "close", "autogc"}
           \/ op[p] \in {"put", "delete", "get"} /\ pc[p] \in DonePCs /\ pc'[p] \in DonePCs
    BY <1>21 DEF PersistIndex, Goto, callVars, fileVars, storeVars, PendingPCs, DonePCs
  <2>3. Phase(p)' = Phase(p) /\ CallOf(p)' = CallOf(p)
    BY <2>2, SamePhase
  <2> QED BY <1>21, <2>1, <2>3, Unseen DEF PersistIndex, Goto, callVars, fileVars,
     storeVars, AbsStep
<1>22. ASSUME NEW p \in Clients, PersistRefs(p) PROVE AbsStep
  <2>1. Alone(p)
    BY <1>22, AloneFrame DEF PersistRefs, Goto, callVars, fileVars, lockVars, storeVars
  <2>2. /\ out'[p] = out[p] /\ op'[p] = op[p]
        /\ \/ op[p] \in {"gc", "close", "autogc"}
           \/ op[p] \in {"put", "delete", "get"} /\ pc[p] \in DonePCs /\ pc'[p] \in DonePCs
    BY <1>22 DEF PersistRefs, Goto, callVars, fileVars, lockVars, storeVars, PendingPCs,
       DonePCs
  <2>3. Phase(p)' = Phase(p) /\ CallOf(p)' = CallOf(p)
    BY <2>2, SamePhase
  <2> QED BY <1>22, <2>1, <2>3, Unseen DEF PersistRefs, Goto, callVars, fileVars, lockVars,
     storeVars, AbsStep
<1>23. ASSUME NEW p \in Clients, PersistTruncate(p) PROVE AbsStep
  <2>1. Alone(p)
    BY <1>23, AloneFrame DEF PersistTruncate, Answer, AfterPersist, Goto, fileVars,
       storeVars
  <2>2. /\ out[p] = "none" /\ out'[p] = "ok" /\ op'[p] = op[p] /\ pc[p] \in SavePCs
        /\ op[p] \in {"put", "delete"} \/ op[p] \in ExclOps
    <3>1. pc[p] \in SavePCs /\ (op[p] \in {"put", "delete"} \/ op[p] \in ExclOps)
      BY <1>23 DEF PersistTruncate
    <3>2. out[p] = "none"
      BY <3>1, NotAnswered
    <3> QED BY <1>23, <3>1, <3>2 DEF PersistTruncate, Answer, AfterPersist, Goto, fileVars,
       storeVars
  <2>3. op[p] \in {"put", "delete"} => pc'[p] = "finish"
    BY <1>23 DEF PersistTruncate, Answer, AfterPersist, Goto, fileVars, storeVars
  <2>4. Phase(p)' = Phase(p) /\ CallOf(p)' = CallOf(p)
    BY <2>2, <2>3, SavedPhase
  <2> QED BY <1>23, <2>1, <2>4, Unseen DEF PersistTruncate, Answer, AfterPersist, Goto,
     fileVars, storeVars, AbsStep
<1>24. ASSUME NEW p \in Clients, GetLookup(p) PROVE AbsStep
  <2>1. Alone(p)
    BY <1>24, AloneFrame DEF GetLookup, Goto, Answer, diskVars, fileVars, lockVars,
       storeVars
  <2>2. CASE idx[obj[p]] > 0
    <3>1. /\ Phase(p) \in {"pending"} /\ Phase(p)' = "sighted"
          /\ CallOf(p)' = CallOf(p) /\ CallOf(p) \in {"get"}
      BY <1>24, <2>2, PhasesAre, PhasesAreNext, AnswersAre DEF GetLookup, Goto, Answer,
         diskVars, fileVars, lockVars, storeVars, PhaseTable, PendingPCs, DonePCs
    <3>2. Abstract!Move(p, {"pending"}, "sighted")
      BY <2>1, <3>1, Moved
    <3>3. Abstract!Sight(p)
      BY <1>24, <2>1, <2>2, <3>1, <3>2, CallsSame DEF GetLookup, Goto, Answer, diskVars,
         fileVars, lockVars, storeVars, Abstract!Sight
    <3> QED BY <3>3 DEF AbsStep, Abstract!AbsNext
  <2>3. CASE ~(idx[obj[p]] > 0)
    <3>1. /\ Phase(p) \in {"pending", "sighted"} /\ Phase(p)' = "missed"
          /\ CallOf(p)' = CallOf(p) /\ CallOf(p) \in {"get"}
      BY <1>24, <2>3, PhasesAre, PhasesAreNext, AnswersAre DEF GetLookup, Goto, Answer,
         diskVars, fileVars, lockVars, storeVars, PhaseTable, PendingPCs, DonePCs
    <3>2. Abstract!Move(p, {"pending", "sighted"}, "missed")
      BY <2>1, <3>1, Moved
    <3>3. idx[obj[p]] = 0
      BY <1>24, <2>3 DEF GetLookup, GetPCs
    <3>4. Abstract!Miss(p)
      BY <1>24, <2>1, <2>3, <3>1, <3>2, <3>3, CallsSame DEF GetLookup, Goto, Answer,
         diskVars, fileVars, lockVars, storeVars, Abstract!Miss, Abstract!Calls
    <3> QED BY <3>4 DEF AbsStep, Abstract!AbsNext
  <2> QED BY <1>24, <2>2, <2>3 DEF GetLookup
<1>25. ASSUME NEW p \in Clients, GetLoad(p) PROVE AbsStep
  <2>1. Alone(p)
    BY <1>25, AloneFrame DEF GetLoad, Goto, Answer, diskVars, fileVars, lockVars, storeVars
  <2>2. CASE obj[p] \in manifests
    <3>1. /\ Phase(p) \in {"sighted"} /\ Phase(p)' = "open"
          /\ CallOf(p)' = CallOf(p) /\ CallOf(p) \in {"get"}
      BY <1>25, <2>2, PhasesAre, PhasesAreNext, AnswersAre DEF GetLoad, Goto, Answer,
         diskVars, fileVars, lockVars, storeVars, PhaseTable, PendingPCs, DonePCs
    <3>2. Abstract!Move(p, {"sighted"}, "open")
      BY <2>1, <3>1, Moved
    <3>3. Abstract!OpenReader(p)
      BY <1>25, <2>1, <2>2, <3>1, <3>2, CallsSame DEF GetLoad, Goto, Answer, diskVars,
         fileVars, lockVars, storeVars, Abstract!OpenReader
    <3> QED BY <3>3 DEF AbsStep, Abstract!AbsNext
  <2>3. CASE obj[p] \notin manifests
    <3>1. /\ Phase(p) \in {"pending", "sighted"} /\ Phase(p)' = "missed"
          /\ CallOf(p)' = CallOf(p) /\ CallOf(p) \in {"get"}
      BY <1>25, <2>3, PhasesAre, PhasesAreNext, AnswersAre DEF GetLoad, Goto, Answer,
         diskVars, fileVars, lockVars, storeVars, PhaseTable, PendingPCs, DonePCs
    <3>2. Abstract!Move(p, {"pending", "sighted"}, "missed")
      BY <2>1, <3>1, Moved
    <3>3. idx[obj[p]] = 0
      BY <1>25, <2>3 DEF GetLoad, VisibleReadable
    <3>4. Abstract!Miss(p)
      BY <1>25, <2>1, <2>3, <3>1, <3>2, <3>3, CallsSame DEF GetLoad, Goto, Answer,
         diskVars, fileVars, lockVars, storeVars, Abstract!Miss, Abstract!Calls
    <3> QED BY <3>4 DEF AbsStep, Abstract!AbsNext
  <2> QED BY <1>25, <2>2, <2>3 DEF GetLoad
<1>26. ASSUME NEW p \in Clients, ReadChunk(p) PROVE AbsStep
  <2>1. Alone(p)
    BY <1>26, AloneFrame DEF ReadChunk, Answer, diskVars, fileVars, lockVars, storeVars
  <2>2. Phase(p)' = Phase(p) /\ CallOf(p)' = CallOf(p)
    BY <1>26, PhasesAre, PhasesAreNext, AnswersAre DEF ReadChunk, Answer, diskVars,
       fileVars, lockVars, storeVars, PhaseTable, PendingPCs, DonePCs
  <2> QED BY <1>26, <2>1, <2>2, Unseen DEF ReadChunk, Answer, diskVars, fileVars, lockVars,
     storeVars, AbsStep
<1>27. ASSUME NEW p \in Clients, CloseReader(p) PROVE AbsStep
  <2>1. Alone(p)
    BY <1>27, AloneFrame DEF CloseReader, Goto, Answer, diskVars, fileVars, lockVars,
       storeVars
  <2>2. Phase(p) \in {"open"} /\ Phase(p)' = "done" /\ CallOf(p)' = CallOf(p)
    BY <1>27, PhasesAre, PhasesAreNext, AnswersAre DEF CloseReader, Goto, Answer, diskVars,
       fileVars, lockVars, storeVars, PhaseTable, PendingPCs, DonePCs
  <2>3. Abstract!Move(p, {"open"}, "done")
    BY <2>1, <2>2, Moved
  <2>4. Abstract!CloseHandle(p)
    BY <1>27, <2>1, <2>2, <2>3, CallsSame DEF CloseReader, Goto, Answer, diskVars,
       fileVars, lockVars, storeVars, Abstract!CloseHandle
  <2> QED BY <2>4 DEF AbsStep, Abstract!AbsNext
<1>28. ASSUME NEW p \in Clients, WLockAnnounce(p) PROVE AbsStep
  <2>1. Alone(p)
    BY <1>28, AloneFrame DEF WLockAnnounce, Goto, callVars, diskVars, fileVars, storeVars
  <2>2. /\ out'[p] = out[p] /\ op'[p] = op[p]
        /\ op[p] \in {"gc", "close", "autogc"}
    BY <1>28 DEF WLockAnnounce, Goto, callVars, diskVars, fileVars, storeVars, PendingPCs,
       DonePCs
  <2>3. Phase(p)' = Phase(p) /\ CallOf(p)' = CallOf(p)
    BY <2>2, SamePhase
  <2> QED BY <1>28, <2>1, <2>3, Unseen DEF WLockAnnounce, Goto, callVars, diskVars,
     fileVars, storeVars, AbsStep
<1>29. ASSUME NEW p \in Clients, WLockClosed(p) PROVE AbsStep
  <2>1. Alone(p)
    BY <1>29, AloneFrame DEF WLockClosed, Goto, Answer, diskVars, fileVars, lockVars,
       storeVars
  <2>2. CASE op[p] = "autogc"
    <3>1. pc[p] \in {"wwait", "sweep"} \cup SavePCs
      BY <1>29 DEF WLockClosed
    <3>2. out[p] = "none"
      BY <3>1, NotAnswered
    <3>3. out[p] = "none" /\ out'[p] = "closed" /\ op[p] = "autogc" /\ op'[p] = op[p]
      BY <1>29, <2>2, <3>1, <3>2 DEF WLockClosed, Goto, Answer, diskVars, fileVars,
         lockVars, storeVars, PendingPCs, DonePCs
    <3>4. /\ Phase(p) \in {"done"} /\ Phase(p)' = "refused"
          /\ CallOf(p)' = CallOf(p) /\ CallOf(p) \in {"delete"}
      BY <3>3, PhasesAre, PhasesAreNext, AnswersAre DEF PhaseTable, PendingPCs, DonePCs
    <3>5. Abstract!Move(p, {"done"}, "refused")
      BY <2>1, <3>4, Moved
    <3>6. Abstract!Refuse(p)
      BY <1>29, <2>1, <2>2, <3>4, <3>5, CallsSame DEF WLockClosed, Goto, Answer, diskVars,
         fileVars, lockVars, storeVars, Abstract!Refuse
    <3> QED BY <3>6 DEF AbsStep, Abstract!AbsNext
  <2>3. CASE op[p] # "autogc"
    <3>1. op[p] \in {"gc", "close"} /\ op'[p] = op[p]
      BY <1>29, <2>3 DEF WLockClosed, Goto, Answer, diskVars, fileVars, lockVars,
         storeVars, PendingPCs, DonePCs
    <3>2. Phase(p)' = Phase(p) /\ CallOf(p)' = CallOf(p)
      BY <3>1, PhasesAre, PhasesAreNext, AnswersAre, SamePhase DEF PhaseTable, PendingPCs,
         DonePCs
    <3>3. obj' = obj
      BY <1>29, <2>3 DEF WLockClosed, Goto, Answer, diskVars, fileVars, lockVars, storeVars
    <3> QED BY <1>29, <2>1, <3>2, <3>3, Unseen DEF WLockClosed, Goto, Answer, diskVars,
       fileVars, lockVars, storeVars, AbsStep
  <2> QED BY <1>29, <2>2, <2>3 DEF WLockClosed
<1>30. ASSUME NEW p \in Clients, GCBegin(p) PROVE AbsStep
  <2>1. Alone(p)
    BY <1>30, AloneFrame DEF GCBegin, Goto, callVars, diskVars, fileVars, lockVars,
       storeVars
  <2>2. /\ out'[p] = out[p] /\ op'[p] = op[p]
        /\ op[p] \in {"gc", "close", "autogc"}
    BY <1>30 DEF GCBegin, Goto, callVars, diskVars, fileVars, lockVars, storeVars,
       PendingPCs, DonePCs
  <2>3. Phase(p)' = Phase(p) /\ CallOf(p)' = CallOf(p)
    BY <2>2, SamePhase
  <2> QED BY <1>30, <2>1, <2>3, Unseen DEF GCBegin, Goto, callVars, diskVars, fileVars,
     lockVars, storeVars, AbsStep
<1>31. ASSUME NEW p \in Clients, GCSweep(p) PROVE AbsStep
  <2>1. Alone(p)
    BY <1>31, AloneFrame DEF GCSweep, callVars, diskVars, lockVars, storeVars
  <2>2. /\ out'[p] = out[p] /\ op'[p] = op[p]
        /\ pc'[p] = pc[p]
    BY <1>31 DEF GCSweep, callVars, diskVars, lockVars, storeVars, PendingPCs, DonePCs
  <2>3. Phase(p)' = Phase(p) /\ CallOf(p)' = CallOf(p)
    BY <2>2, SamePhase
  <2> QED BY <1>31, <2>1, <2>3, Unseen DEF GCSweep, callVars, diskVars, lockVars,
     storeVars, AbsStep
<1>32. ASSUME NEW p \in Clients, GCEnd(p) PROVE AbsStep
  <2>1. Alone(p)
    BY <1>32, AloneFrame DEF GCEnd, Goto, callVars, diskVars, fileVars, lockVars, storeVars
  <2>2. /\ out'[p] = out[p] /\ op'[p] = op[p]
        /\ op[p] \in {"gc", "close", "autogc"}
    BY <1>32 DEF GCEnd, Goto, callVars, diskVars, fileVars, lockVars, storeVars,
       PendingPCs, DonePCs
  <2>3. Phase(p)' = Phase(p) /\ CallOf(p)' = CallOf(p)
    BY <2>2, SamePhase
  <2> QED BY <1>32, <2>1, <2>3, Unseen DEF GCEnd, Goto, callVars, diskVars, fileVars,
     lockVars, storeVars, AbsStep
<1>33. ASSUME NEW p \in Clients, CloseBegin(p) PROVE AbsStep
  <2>1. Alone(p)
    BY <1>33, AloneFrame DEF CloseBegin, Goto, callVars
  <2>2. Phase(p)' = Phase(p) /\ CallOf(p)' = CallOf(p) /\ Phase(p) = "idle"
    BY <1>33, PhasesAre, PhasesAreNext, AnswersAre DEF CloseBegin, Goto, callVars,
       PhaseTable, PendingPCs, DonePCs
  <2>3. [q \in Clients |-> Phase(q)]' = [q \in Clients |-> Phase(q)]
    BY <2>1, <2>2 DEF Alone
  <2>4. ASSUME NEW q \in Clients
        PROVE  Phase(q) \notin {"sighted", "open"}
    <3>1. pc[q] # "get_load" /\ pc[q] # "reading"
      BY <1>33 DEF CloseBegin, FenceInv, InShared
    <3>2. Phase(q) \in {"idle", "done", "failed", "refused", "missed", "pending"}
      BY <3>1, AnswersAre DEF Phase
    <3> QED BY <3>2
  <2>5. Abstract!Shut
    BY <1>33, <2>1, <2>2, <2>3, <2>4, CallsSame DEF CloseBegin, callVars, Abstract!Shut
  <2> QED BY <2>5 DEF AbsStep, Abstract!AbsNext
<1>34. ASSUME NEW p \in Clients, WUnlock(p) PROVE AbsStep
  <2>1. Alone(p)
    <3> SUFFICES ASSUME NEW q \in Clients \ {p}
                 PROVE  Phase(q)' = Phase(q) /\ CallOf(q)' = CallOf(q)
      BY DEF Alone
    <3>1. op'[q] = op[q] /\ out'[q] = out[q]
      BY <1>34 DEF WUnlock, Answer
    <3>2. CallOf(q)' = CallOf(q)
      BY <3>1 DEF CallOf
    <3>3. CASE pc[q] = "rwait"
      <4>1. pc'[q] = "enter"
        BY <1>34, <3>3 DEF WUnlock
      <4>2. op[q] \in {"put", "delete", "get"}
        BY <3>3
      <4> QED BY <3>1, <3>2, <3>3, <4>1, <4>2, PhasesAre, PhasesAreNext DEF PhaseTable,
         PendingPCs
    <3>4. CASE pc[q] # "rwait"
      <4>1. pc'[q] = pc[q]
        BY <1>34, <3>4 DEF WUnlock
      <4> QED BY <3>1, <3>2, <4>1 DEF Phase
    <3> QED BY <3>3, <3>4
  <2>2. CASE op[p] = "autogc"
    <3>1. /\ Phase(p) \in {"done", "missed", "failed", "refused"}
          /\ Phase(p)' = "idle" /\ CallOf(p)' = "none"
      BY <1>34, <2>2, PhasesAre, PhasesAreNext, AnswersAre DEF WUnlock, PhaseTable,
         PendingPCs, DonePCs
    <3>2. Abstract!Move(p, {"done", "missed", "failed", "refused"}, "idle")
      BY <2>1, <3>1, Moved
    <3>3. Abstract!Answered(p)
      BY <1>34, <2>1, <3>1, <3>2, CallsMoved DEF WUnlock, storeVars, Abstract!Answered
    <3> QED BY <3>3 DEF AbsStep, Abstract!AbsNext
  <2>3. CASE op[p] # "autogc"
    <3>1. Phase(p)' = Phase(p) /\ CallOf(p)' = CallOf(p)
      BY <1>34, <2>3, PhasesAre, PhasesAreNext, AnswersAre DEF WUnlock, PhaseTable,
         PendingPCs, DonePCs
    <3>2. obj' = obj
      BY <1>34, <2>3 DEF WUnlock, AnswerInv
    <3> QED BY <1>34, <2>1, <3>1, <3>2, Unseen DEF WUnlock, storeVars, AbsStep
  <2> QED BY <2>2, <2>3
<1>35. ASSUME NEW p \in Clients, CallFail(p) PROVE AbsStep
  <2>1. Alone(p)
    BY <1>35, AloneFrame DEF CallFail, Goto, Answer, diskVars, fileVars, lockVars, storeVars
  <2>2. CASE pc[p] = "get_load"
    <3>1. /\ Phase(p) \in {"sighted"} /\ Phase(p)' = "failed"
          /\ CallOf(p)' = CallOf(p) /\ CallOf(p) = "get"
      BY <1>35, <2>2, PhasesAre, PhasesAreNext, AnswersAre DEF CallFail, Goto, Answer,
         diskVars, fileVars, lockVars, storeVars, PhaseTable, PendingPCs, DonePCs
    <3>2. Abstract!Move(p, {"sighted"}, "failed")
      BY <2>1, <3>1, Moved
    <3>3. Abstract!Fail(p)
      BY <1>35, <2>1, <3>1, <3>2, CallsSame DEF CallFail, Goto, Answer, diskVars, fileVars,
         lockVars, storeVars, Abstract!Fail
    <3> QED BY <3>3 DEF AbsStep, Abstract!AbsNext
  <2>3. CASE pc[p] # "get_load"
    <3>1. /\ Phase(p) \in {"pending", "done"} /\ Phase(p)' = "failed"
          /\ CallOf(p)' = CallOf(p) /\ CallOf(p) \in {"put", "delete"}
      BY <1>35, <2>3, PhasesAre, PhasesAreNext, AnswersAre DEF CallFail, Goto, Answer,
         diskVars, fileVars, lockVars, storeVars, PhaseTable, PendingPCs, DonePCs
    <3>2. Abstract!Move(p, {"pending", "done"}, "failed")
      BY <2>1, <3>1, Moved
    <3>3. Abstract!Fail(p)
      BY <1>35, <2>1, <3>1, <3>2, CallsSame DEF CallFail, Goto, Answer, diskVars, fileVars,
         lockVars, storeVars, Abstract!Fail
    <3> QED BY <3>3 DEF AbsStep, Abstract!AbsNext
  <2> QED BY <2>2, <2>3
<1>36. ASSUME NEW p \in Clients, PutAddRefFail(p) PROVE AbsStep
  <2>1. Alone(p)
    BY <1>36, AloneFrame DEF PutAddRefFail, Goto, Answer, fileVars, lockVars, storeVars
  <2>2. /\ Phase(p) \in {"pending", "done"} /\ Phase(p)' = "failed"
        /\ CallOf(p)' = CallOf(p) /\ CallOf(p) = "put"
    BY <1>36, PhasesAre, PhasesAreNext, AnswersAre DEF PutAddRefFail, Goto, Answer,
       fileVars, lockVars, storeVars, PhaseTable, PendingPCs, DonePCs
  <2>3. Abstract!Move(p, {"pending", "done"}, "failed")
    BY <2>1, <2>2, Moved
  <2>4. Abstract!Fail(p)
    BY <1>36, <2>1, <2>2, <2>3, CallsSame DEF PutAddRefFail, Goto, Answer, fileVars,
       lockVars, storeVars, Abstract!Fail
  <2> QED BY <2>4 DEF AbsStep, Abstract!AbsNext
<1>37. ASSUME NEW p \in Clients, DeleteSubRefFail(p) PROVE AbsStep
  <2>1. Alone(p)
    BY <1>37, AloneFrame DEF DeleteSubRefFail, Goto, Answer, fileVars, lockVars, storeVars
  <2>2. /\ Phase(p) \in {"pending", "done"} /\ Phase(p)' = "failed"
        /\ CallOf(p)' = CallOf(p) /\ CallOf(p) = "delete"
    BY <1>37, PhasesAre, PhasesAreNext, AnswersAre DEF DeleteSubRefFail, Goto, Answer,
       fileVars, lockVars, storeVars, PhaseTable, PendingPCs, DonePCs
  <2>3. Abstract!Move(p, {"pending", "done"}, "failed")
    BY <2>1, <2>2, Moved
  <2>4. Abstract!Fail(p)
    BY <1>37, <2>1, <2>2, <2>3, CallsSame DEF DeleteSubRefFail, Goto, Answer, fileVars,
       lockVars, storeVars, Abstract!Fail
  <2> QED BY <2>4 DEF AbsStep, Abstract!AbsNext
<1>38. ASSUME NEW p \in Clients, DeleteManifestFail(p) PROVE AbsStep
  <2>1. Alone(p)
    BY <1>38, AloneFrame DEF DeleteManifestFail, Goto, Answer, diskVars, fileVars,
       lockVars, storeVars
  <2>2. /\ Phase(p) \in {"pending", "done"} /\ Phase(p)' = "failed"
        /\ CallOf(p)' = CallOf(p) /\ CallOf(p) = "delete"
    BY <1>38, PhasesAre, PhasesAreNext, AnswersAre DEF DeleteManifestFail, Goto, Answer,
       diskVars, fileVars, lockVars, storeVars, PhaseTable, PendingPCs, DonePCs
  <2>3. Abstract!Move(p, {"pending", "done"}, "failed")
    BY <2>1, <2>2, Moved
  <2>4. Abstract!Fail(p)
    BY <1>38, <2>1, <2>2, <2>3, CallsSame DEF DeleteManifestFail, Goto, Answer, diskVars,
       fileVars, lockVars, storeVars, Abstract!Fail
  <2> QED BY <2>4 DEF AbsStep, Abstract!AbsNext
<1>39. ASSUME NEW p \in Clients, PersistFail(p) PROVE AbsStep
  <2>1. Alone(p)
    BY <1>39, AloneFrame DEF PersistFail, Goto, Answer, AfterPersist, fileVars, storeVars
  <2>2. CASE op[p] \in {"delete", "autogc"} \/ (op[p] = "put" /\ ~(seen[p] > 0))
    <3>1. pc[p] \in {"wwait", "sweep"} \cup SavePCs
      BY <1>39 DEF PersistFail
    <3>2. out[p] = "none"
      BY <3>1, NotAnswered
    <3>3. /\ out[p] = "none" /\ out'[p] = "error" /\ op'[p] = op[p] /\ pc[p] \in DonePCs
          /\ op[p] = "autogc" \/ (op[p] \in {"put", "delete"} /\ pc'[p] = "finish")
      BY <1>39, <2>2, <3>1, <3>2 DEF PersistFail, Goto, Answer, AfterPersist, fileVars,
         storeVars, PendingPCs, DonePCs
    <3>4. /\ Phase(p) \in {"pending", "done"} /\ Phase(p)' = "failed"
          /\ CallOf(p)' = CallOf(p) /\ CallOf(p) \in {"put", "delete"}
      BY <3>3, PhasesAre, PhasesAreNext, AnswersAre DEF PhaseTable, PendingPCs, DonePCs
    <3>5. Abstract!Move(p, {"pending", "done"}, "failed")
      BY <2>1, <3>4, Moved
    <3>6. Abstract!Fail(p)
      BY <1>39, <2>1, <2>2, <3>4, <3>5, CallsSame DEF PersistFail, Goto, Answer,
         AfterPersist, fileVars, storeVars, Abstract!Fail
    <3> QED BY <3>6 DEF AbsStep, Abstract!AbsNext
  <2>3. CASE op[p] \notin {"delete", "autogc"} /\ (op[p] = "put" => seen[p] > 0)
    <3>1. pc[p] \in SavePCs
      BY <1>39 DEF PersistFail
    <3>2. op[p] \in {"put", "delete", "gc", "close", "autogc"}
      BY <3>1
    <3>3. pc[p] \in SavePCs /\ op[p] \in {"put", "gc", "close"}
      BY <2>3, <3>1, <3>2
    <3>4. op[p] = "put" => pc'[p] = "put_undo"
      BY <1>39, <2>3 DEF PersistFail, Goto
    <3>5. op'[p] = op[p]
      BY <1>39 DEF PersistFail
    <3>6. /\ op'[p] = op[p]
          /\ op[p] \in {"gc", "close"} \/ (op[p] = "put" /\ pc[p] \in DonePCs /\ pc'[p] \in DonePCs)
      BY <3>3, <3>4, <3>5 DEF DonePCs
    <3>7. Phase(p)' = Phase(p) /\ CallOf(p)' = CallOf(p)
      BY <3>6, PhasesAre, PhasesAreNext, AnswersAre, SamePhase DEF PhaseTable, PendingPCs,
         DonePCs
    <3>8. obj' = obj
      BY <1>39, <2>3 DEF PersistFail, Goto, Answer, AfterPersist, fileVars, storeVars
    <3> QED BY <1>39, <2>1, <3>7, <3>8, Unseen DEF PersistFail, Goto, Answer, AfterPersist,
       fileVars, storeVars, AbsStep
  <2> QED BY <1>39, <2>2, <2>3 DEF PersistFail
<1>40. ASSUME NEW p \in Clients, GCFail(p) PROVE AbsStep
  <2>1. Alone(p)
    BY <1>40, AloneFrame DEF GCFail, Goto, Answer, diskVars, fileVars, lockVars, storeVars
  <2>2. CASE op[p] = "autogc"
    <3>1. pc[p] \in {"wwait", "sweep"} \cup SavePCs
      BY <1>40 DEF GCFail
    <3>2. out[p] = "none"
      BY <3>1, NotAnswered
    <3>3. out[p] = "none" /\ out'[p] = "error" /\ op[p] = "autogc" /\ op'[p] = op[p]
      BY <1>40, <2>2, <3>1, <3>2 DEF GCFail, Goto, Answer, diskVars, fileVars, lockVars,
         storeVars, PendingPCs, DonePCs
    <3>4. /\ Phase(p) \in {"pending", "done"} /\ Phase(p)' = "failed"
          /\ CallOf(p)' = CallOf(p) /\ CallOf(p) \in {"delete"}
      BY <3>3, PhasesAre, PhasesAreNext, AnswersAre DEF PhaseTable, PendingPCs, DonePCs
    <3>5. Abstract!Move(p, {"pending", "done"}, "failed")
      BY <2>1, <3>4, Moved
    <3>6. Abstract!Fail(p)
      BY <1>40, <2>1, <2>2, <3>4, <3>5, CallsSame DEF GCFail, Goto, Answer, diskVars,
         fileVars, lockVars, storeVars, Abstract!Fail
    <3> QED BY <3>6 DEF AbsStep, Abstract!AbsNext
  <2>3. CASE op[p] # "autogc"
    <3>1. op[p] \in {"gc", "close"} /\ op'[p] = op[p]
      BY <1>40, <2>3 DEF GCFail, Goto, Answer, diskVars, fileVars, lockVars, storeVars,
         PendingPCs, DonePCs
    <3>2. Phase(p)' = Phase(p) /\ CallOf(p)' = CallOf(p)
      BY <3>1, PhasesAre, PhasesAreNext, AnswersAre, SamePhase DEF PhaseTable, PendingPCs,
         DonePCs
    <3>3. obj' = obj
      BY <1>40, <2>3 DEF GCFail, Goto, Answer, diskVars, fileVars, lockVars, storeVars
    <3> QED BY <1>40, <2>1, <3>2, <3>3, Unseen DEF GCFail, Goto, Answer, diskVars,
       fileVars, lockVars, storeVars, AbsStep
  <2> QED BY <1>40, <2>2, <2>3 DEF GCFail
<1>41. ASSUME NEW p \in Clients, GCSkip(p) PROVE AbsStep
  <2>1. Alone(p)
    BY <1>41, AloneFrame DEF GCSkip, callVars, diskVars, fileVars, lockVars, storeVars
  <2>2. /\ out'[p] = out[p] /\ op'[p] = op[p]
        /\ pc'[p] = pc[p]
    BY <1>41 DEF GCSkip, callVars, diskVars, fileVars, lockVars, storeVars, PendingPCs,
       DonePCs
  <2>3. Phase(p)' = Phase(p) /\ CallOf(p)' = CallOf(p)
    BY <2>2, SamePhase
  <2> QED BY <1>41, <2>1, <2>3, Unseen DEF GCSkip, callVars, diskVars, fileVars, lockVars,
     storeVars, AbsStep
<1>42. CASE UNCHANGED vars
  <2>1. \A q \in Clients : Phase(q)' = Phase(q) /\ CallOf(q)' = CallOf(q)
    BY <1>42 DEF vars, callVars, Phase, CallOf
  <2> QED BY <1>42, <2>1 DEF vars, storeVars, callVars, AbsStep, Abstract!absVars
<1> QED BY <1>1, <1>2, <1>3, <1>4, <1>5, <1>6, <1>7, <1>8, <1>9, <1>10, <1>11, <1>12,
   <1>13, <1>14, <1>15, <1>16, <1>17, <1>18, <1>19, <1>20, <1>21, <1>22, <1>23, <1>24,
   <1>25, <1>26, <1>27, <1>28, <1>29, <1>30, <1>31, <1>32, <1>33, <1>34, <1>35, <1>36,
   <1>37, <1>38, <1>39, <1>40, <1>41, <1>42
   DEF Next, Call, Step, Failure, PutStep, DeleteStep, PersistStep, PersistBegin, GetStep,
      ExclStep

\* A call has one effect at one moment, for as long as no journal append of a
\* Delete fails: what chunks, counts, files, GC and failures of every other kind
\* do stays invisible to callers (Put, Delete, Get, GC, Close).  After such a
\* failure a chunk may be lost, and an open reader break.
THEOREM StoreImplements == Spec /\ []NoFault({"sub"}) => ImplementsObjectStore
<1>1. Init => Abstract!AbsInit
  <2> SUFFICES ASSUME Init PROVE Abstract!AbsInit
    OBVIOUS
  <2>1. \A p \in Clients : Phase(p) = "idle" /\ CallOf(p) = "none"
    BY DEF Init, Phase, CallOf
  <2> QED BY <2>1 DEF Init, Abstract!AbsInit
<1>2. Init => AnswerInv
  BY DEF Init, AnswerInv
<1>3. StoreInv /\ AnswerInv /\ NoFault({"sub"}) => CallerInv
  BY DEF StoreInv, CallerInv, ChunkInv
<1>4. StoreInv /\ AnswerInv /\ [Next]_vars => AnswerInv'
  BY AnswerStep DEF StoreInv
<1> QED BY <1>1, <1>2, <1>3, <1>4, StoreInvInit, StoreInvStep, ObjectStep, PTL
   DEF Spec, AbsStep, ImplementsObjectStore, Abstract!AbsSpec
=============================================================================
