------------------------- MODULE ShardStoreGCProofs -------------------------
(***************************************************************************)
(* Reference counts, and the chunks they keep.  A step either leaves every *)
(* manifest entry's status as it is (CountSame), or counts one entry more  *)
(* or less together with the chunk's count (OneMore, OneLess), or records  *)
(* a failure.  From the counts follows that visible objects stay readable, *)
(* that open readers are served, and that GC removes all of the garbage    *)
(* and nothing else: while a GC sweeps nobody is inside a Put, Delete or   *)
(* Get (SweepAlone), so every entry of a visible object is counted and its *)
(* chunk spared.  Last, the files: with them SafetyInv is proved.          *)
(***************************************************************************)
EXTENDS ShardStoreProofs, FiniteSetTheorems, SequenceTheorems

-----------------------------------------------------------------------------
(* Reference counts *)

RefsInv == RefsExact /\ RefsCover

\* A step keeps the counts above the references, and exact when they were.
CountsKept == RefsCover' /\ (RefsExact => RefsExact')

\* A step that leaves every entry's status alone.
SameCounted == \A o \in Objects : \A i \in 1..NEntries(o) : Counted(o, i)' <=> Counted(o, i)

\* There are finitely many manifest entries in all.
LEMMA SlotsFinite == IsFiniteSet(Slots)
<1> DEFINE Of(o) == {<<o, i>> : i \in 1..NEntries(o)}
           All == {Of(o) : o \in Objects}
<1>1. ASSUME NEW o \in Objects PROVE IsFiniteSet(Of(o))
  <2> DEFINE f == [i \in 1..NEntries(o) |-> <<o, i>>]
  <2>1. f \in Surjection(1..NEntries(o), Of(o))
    BY DEF Surjection
  <2>2. IsFiniteSet(1..NEntries(o))
    BY SlotType, FS_Interval
  <2> QED BY <2>1, <2>2, FS_Surjection
<1>2. IsFiniteSet(All)
  <2> DEFINE g == [o \in Objects |-> Of(o)]
  <2>1. g \in Surjection(Objects, All)
    BY DEF Surjection
  <2> QED BY <2>1, FiniteAssumption, FS_Surjection
<1>3. \A T \in All : IsFiniteSet(T)
  BY <1>1
<1> QED BY <1>2, <1>3, FS_UNION DEF Slots

\* A chunk has finitely many entries that hold a reference to it.
LEMMA HoldersFinite ==
    ASSUME NEW c
    PROVE  IsFiniteSet(Holders(c)) /\ Cardinality(Holders(c)) \in Nat
<1>1. Holders(c) \in SUBSET Slots
  BY DEF Holders
<1> QED BY <1>1, SlotsFinite, FS_Subset, FS_CardinalityType

\* The same in the next state.
LEMMA HoldersFiniteNext ==
    ASSUME NEW c
    PROVE  IsFiniteSet(Holders(c)') /\ Cardinality(Holders(c)') \in Nat
<1>1. Holders(c)' \in SUBSET Slots
  BY DEF Holders
<1> QED BY <1>1, SlotsFinite, FS_Subset, FS_CardinalityType

\* Failures are never forgotten.
LEMMA FaultsGrow ==
    ASSUME faults \in Seq(FaultKinds), UNCHANGED faults \/ \E k \in FaultKinds : Fault(k),
           NEW K, NoFault(K)'
    PROVE  NoFault(K)
<1>1. CASE UNCHANGED faults
  BY <1>1 DEF NoFault
<1>2. CASE \E k \in FaultKinds : Fault(k)
  BY <1>2, AppendProperties, LenProperties DEF NoFault, Fault
<1> QED BY <1>1, <1>2

\* A step that changes neither the counts nor which entries are counted keeps
\* counts and references in step.
LEMMA CountSame ==
    ASSUME Typing, RefsCover, SameCounted, UNCHANGED refs,
           UNCHANGED faults \/ \E k \in FaultKinds : Fault(k)
    PROVE  CountsKept
<1>1. \A c : Holders(c)' = Holders(c)
  BY DEF SameCounted, Holders, Slots
<1>2. \A K : NoFault(K)' => NoFault(K)
  BY FaultsGrow DEF Typing, TypeOK, StoreTypes
<1> QED BY <1>1, <1>2 DEF CountsKept, RefsExact, RefsCover

\* A call in its object's critical section is the one holder of that lock.
LEMMA OwnLock ==
    ASSUME Typing, LockInv, NEW p \in Clients, InObject(p)
    PROVE  /\ obj[p] \in Objects /\ objLock[obj[p]] = p /\ p # NoClient
           /\ \A o \in Objects : objLock[o] = p => o = obj[p]
BY NoneAssumption DEF Typing, TypeOK, CallTypes, CallInv, LockInv, InObject, PutPCs,
     DeletePCs, SavePCs, SharedOps


\* A step of p in its object's critical section does not touch the entries of
\* other objects.
LEMMA OthersCounted ==
    ASSUME Typing, LockInv, NEW p \in Clients, InObject(p), NEW x \in Objects, obj[p] = x,
           objLock' = objLock,
           \A q \in Clients : q # p => pc'[q] = pc[q] /\ pos'[q] = pos[q],
           \A o \in Objects : o # x => idx'[o] = idx[o]
    PROVE  \A o \in Objects : \A i \in 1..NEntries(o) :
              o # x => (Counted(o, i)' <=> Counted(o, i))
<1> SUFFICES ASSUME NEW o \in Objects, NEW i \in 1..NEntries(o), o # x
             PROVE  Counted(o, i)' <=> Counted(o, i)
  OBVIOUS
<1>1. objLock[o] # p
  BY OwnLock
<1>2. CASE objLock[o] = NoClient
  BY <1>2 DEF Counted
<1>3. CASE objLock[o] # NoClient
  <2> DEFINE q == objLock[o]
  <2>1. q \in Clients /\ q # p
    BY <1>1, <1>3 DEF Typing, TypeOK, LockTypes
  <2>2. pc'[q] = pc[q] /\ pos'[q] = pos[q] /\ idx'[o] = idx[o]
    BY <2>1
  <2> HIDE DEF q
  <2>3. objLock[o] = q /\ objLock'[o] = q
    BY DEF q
  <2> QED BY <1>3, <2>2, <2>3 DEF Counted
<1> QED BY <1>2, <1>3

\* What counting one entry more, or one less, does to the holders of a chunk.
LEMMA OneMore ==
    ASSUME NEW o \in Objects, NEW n \in 1..NEntries(o), NEW c \in Chunks, Slot(o, n) = c,
           ~Counted(o, n),
           \A x \in Objects : \A i \in 1..NEntries(x) :
              Counted(x, i)' <=> (Counted(x, i) \/ (x = o /\ i = n))
    PROVE  /\ Cardinality(Holders(c)') = Cardinality(Holders(c)) + 1
           /\ \A d \in Chunks : d # c => Holders(d)' = Holders(d)
<1>1. \A s \in Slots : s[1] \in Objects /\ s[2] \in 1..NEntries(s[1]) /\ s = <<s[1], s[2]>>
  BY DEF Slots
<1>2. <<o, n>> \in Slots
  BY DEF Slots
<1>3. \A s \in Slots : Counted(s[1], s[2])' <=> (Counted(s[1], s[2]) \/ s = <<o, n>>)
  BY <1>1
<1>4. Holders(c)' = Holders(c) \cup {<<o, n>>} /\ <<o, n>> \notin Holders(c)
  BY <1>2, <1>3 DEF Holders
<1>5. \A d \in Chunks : d # c => Holders(d)' = Holders(d)
  BY <1>3 DEF Holders
<1>6. Cardinality(Holders(c) \cup {<<o, n>>}) = Cardinality(Holders(c)) + 1
  BY <1>4, HoldersFinite, FS_AddElement
<1> QED BY <1>4, <1>5, <1>6

\* Uncounting one entry of a chunk lowers the number of its holders by one.
LEMMA OneLess ==
    ASSUME NEW o \in Objects, NEW n \in 1..NEntries(o), NEW c \in Chunks, Slot(o, n) = c,
           Counted(o, n),
           \A x \in Objects : \A i \in 1..NEntries(x) :
              Counted(x, i)' <=> (Counted(x, i) /\ ~(x = o /\ i = n))
    PROVE  /\ Cardinality(Holders(c)') = Cardinality(Holders(c)) - 1
           /\ \A d \in Chunks : d # c => Holders(d)' = Holders(d)
<1>1. \A s \in Slots : s[1] \in Objects /\ s[2] \in 1..NEntries(s[1]) /\ s = <<s[1], s[2]>>
  BY DEF Slots
<1>2. <<o, n>> \in Slots
  BY DEF Slots
<1>3. \A s \in Slots : Counted(s[1], s[2])' <=> (Counted(s[1], s[2]) /\ s # <<o, n>>)
  BY <1>1
<1>4. Holders(c)' = Holders(c) \ {<<o, n>>} /\ <<o, n>> \in Holders(c)
  BY <1>2, <1>3 DEF Holders
<1>5. \A d \in Chunks : d # c => Holders(d)' = Holders(d)
  BY <1>3 DEF Holders
<1>6. Cardinality(Holders(c) \ {<<o, n>>}) = Cardinality(Holders(c)) - 1
  BY <1>4, HoldersFinite, FS_RemoveElement
<1> QED BY <1>4, <1>5, <1>6

\* A failed append of kind k is on record.
LEMMA FaultSeen ==
    ASSUME faults \in Seq(FaultKinds), NEW k, faults' = Append(faults, k), NEW K, k \in K
    PROVE  ~NoFault(K)'
<1>1. Len(faults) \in Nat /\ Len(faults') = Len(faults) + 1 /\ faults'[Len(faults) + 1] = k
  BY AppendProperties, LenProperties
<1>2. Len(faults) + 1 \in 1..Len(faults')
  BY <1>1
<1> QED BY <1>1, <1>2 DEF NoFault


\* SubMany meets a zero count only after a failed append.
LEMMA UnderflowNeedsFault ==
    ASSUME Typing, LockInv, RefsCover, NEW p \in Clients, DeleteUnderflow(p)
    PROVE  ~NoFault({"sub"})
<1> DEFINE o == obj[p]
           n == pos[p]
           c == Slot(o, n)
<1>1. InObject(p) /\ o \in Objects /\ n \in 1..NEntries(o) /\ c \in Chunks
  BY SlotType DEF DeleteUnderflow, InObject, Typing, TypeOK, CallTypes, CallInv, CursorInv,
     DeletePCs
<1>2. objLock[o] = p /\ p # NoClient
  BY <1>1, OwnLock
<1>3. <<o, n>> \in Holders(c)
  BY <1>1, <1>2 DEF DeleteUnderflow, Holders, Slots, Counted
<1>4. Cardinality(Holders(c)) # 0
  BY <1>3, HoldersFinite, FS_EmptySet
<1>5. refs[c] = 0
  BY DEF DeleteUnderflow
<1> QED BY <1>1, <1>4, <1>5, HoldersFinite DEF RefsCover


\* Every step keeps the counts exact while no append has failed, and never
\* below the references while none of SubMany has, for which they need not have
\* been exact before.
LEMMA CountsStep == Typing /\ LockInv /\ RecordInv /\ RefsCover /\ [Next]_vars => CountsKept
<1> SUFFICES ASSUME Typing, LockInv, RecordInv, RefsCover, [Next]_vars
             PROVE  CountsKept
  OBVIOUS
<1> USE DEF Typing, TypeOK
<1>1. ASSUME NEW p \in Clients, CallShared(p) PROVE CountsKept
  <2>1. SameCounted
    BY <1>1 DEF CallShared, SameCounted, Counted, CallTypes, LockTypes, Goto, storeVars,
       lockVars
  <2>2. UNCHANGED refs /\ (UNCHANGED faults \/ \E k \in FaultKinds : Fault(k))
    BY <1>1 DEF CallShared, storeVars
  <2> QED BY <2>1, <2>2, CountSame
<1>2. ASSUME NEW p \in Clients, CallExclusive(p) PROVE CountsKept
  <2>1. SameCounted
    BY <1>2 DEF CallExclusive, SameCounted, Counted, CallTypes, LockTypes, Goto, storeVars,
       lockVars
  <2>2. UNCHANGED refs /\ (UNCHANGED faults \/ \E k \in FaultKinds : Fault(k))
    BY <1>2 DEF CallExclusive, storeVars
  <2> QED BY <2>1, <2>2, CountSame
<1>3. ASSUME NEW p \in Clients, RLock(p) PROVE CountsKept
  <2>1. SameCounted
    BY <1>3 DEF RLock, SameCounted, Counted, CallTypes, LockTypes, Goto, storeVars, callVars
  <2>2. UNCHANGED refs /\ (UNCHANGED faults \/ \E k \in FaultKinds : Fault(k))
    BY <1>3 DEF RLock, storeVars
  <2> QED BY <2>1, <2>2, CountSame
<1>4. ASSUME NEW p \in Clients, EnterClosed(p) PROVE CountsKept
  <2>1. SameCounted
    BY <1>4 DEF EnterClosed, SameCounted, Counted, CallTypes, LockTypes, Goto, Answer,
       storeVars, lockVars
  <2>2. UNCHANGED refs /\ (UNCHANGED faults \/ \E k \in FaultKinds : Fault(k))
    BY <1>4 DEF EnterClosed, storeVars
  <2> QED BY <2>1, <2>2, CountSame
<1>5. ASSUME NEW p \in Clients, Enter(p) PROVE CountsKept
  <2>1. SameCounted
    BY <1>5 DEF Enter, SameCounted, Counted, CallTypes, LockTypes, CallInv, FencePCs, Goto,
       storeVars, lockVars
  <2>2. UNCHANGED refs /\ (UNCHANGED faults \/ \E k \in FaultKinds : Fault(k))
    BY <1>5 DEF Enter, storeVars
  <2> QED BY <2>1, <2>2, CountSame
<1>6. ASSUME NEW p \in Clients, Finish(p) PROVE CountsKept
  <2>1. SameCounted
    BY <1>6, NoneAssumption DEF Finish, SameCounted, Counted, CallTypes, LockTypes, LockInv,
       InObject, Goto, Answer, storeVars
  <2>2. UNCHANGED refs /\ (UNCHANGED faults \/ \E k \in FaultKinds : Fault(k))
    BY <1>6 DEF Finish, storeVars
  <2> QED BY <2>1, <2>2, CountSame
<1>7. ASSUME NEW p \in Clients, PutChunk(p) PROVE CountsKept
  <2>1. SameCounted
    BY <1>7 DEF PutChunk, SameCounted, Counted, CallTypes, LockTypes, storeVars, lockVars
  <2>2. UNCHANGED refs /\ (UNCHANGED faults \/ \E k \in FaultKinds : Fault(k))
    BY <1>7 DEF PutChunk, storeVars
  <2> QED BY <2>1, <2>2, CountSame
<1>8. ASSUME NEW p \in Clients, PutLock(p) PROVE CountsKept
  <2>1. SameCounted
    BY <1>8, NoneAssumption DEF PutLock, SameCounted, Counted, CallTypes, LockTypes,
       StoreTypes, Goto, storeVars
  <2>2. UNCHANGED refs /\ (UNCHANGED faults \/ \E k \in FaultKinds : Fault(k))
    BY <1>8 DEF PutLock, storeVars
  <2> QED BY <2>1, <2>2, CountSame
<1>9. ASSUME NEW p \in Clients, PutBump(p) PROVE CountsKept
  <2>1. SameCounted
    <3>1. InObject(p)
      BY <1>9 DEF PutBump, InObject
    <3>2. PICK x \in Objects : obj[p] = x /\ objLock[x] = p /\ p # NoClient
      BY <3>1, OwnLock DEF Typing, TypeOK
    <3>6. idx[x] = Record(p)
      BY <3>1, <3>2 DEF RecordInv
    <3>7. idx[x] = seen[p] /\ seen[p] > 0
      BY <1>9, <3>6 DEF PutBump, Record, CursorInv, SavePCs
    <3>8. pc'[p] \notin {"put_refs", "del_refs"} /\ objLock'[x] = p /\ idx'[x] > 0
      BY <1>9, <3>2, <3>7 DEF PutBump, CallTypes, StoreTypes, Goto, lockVars, callVars
    <3>3. \A i \in 1..NEntries(x) : Counted(x, i)' <=> Counted(x, i)
      BY <1>9, <3>2, <3>7, <3>8 DEF PutBump, Counted, CallTypes, StoreTypes
    <3>4. /\ objLock' = objLock
          /\ \A q \in Clients : q # p => pc'[q] = pc[q] /\ pos'[q] = pos[q]
          /\ \A o \in Objects : o # x => idx'[o] = idx[o]
      BY <1>9, <3>2 DEF PutBump, CallTypes, StoreTypes, Goto, lockVars, callVars
    <3>5. \A o \in Objects : \A i \in 1..NEntries(o) : o # x => (Counted(o, i)' <=> Counted(o, i))
      BY <3>1, <3>2, <3>4, OthersCounted DEF Typing, TypeOK
    <3> QED BY <3>3, <3>5 DEF SameCounted
  <2>2. UNCHANGED refs /\ (UNCHANGED faults \/ \E k \in FaultKinds : Fault(k))
    BY <1>9 DEF PutBump
  <2> QED BY <2>1, <2>2, CountSame
<1>10. ASSUME NEW p \in Clients, PutUndo(p) PROVE CountsKept
  <2>1. SameCounted
    <3>1. InObject(p)
      BY <1>10 DEF PutUndo, InObject
    <3>2. PICK x \in Objects : obj[p] = x /\ objLock[x] = p /\ p # NoClient
      BY <3>1, OwnLock DEF Typing, TypeOK
    <3>6. idx[x] = Record(p)
      BY <3>1, <3>2 DEF RecordInv
    <3>7. idx[x] = seen[p] + 1 /\ seen[p] > 0
      BY <1>10, <3>6 DEF PutUndo, Record, CursorInv, SavePCs
    <3>8. pc'[p] \notin {"put_refs", "del_refs"} /\ objLock'[x] = p /\ idx'[x] > 0
      BY <1>10, <3>2, <3>7 DEF PutUndo, CallTypes, StoreTypes, Goto, lockVars, callVars
    <3>3. \A i \in 1..NEntries(x) : Counted(x, i)' <=> Counted(x, i)
      BY <1>10, <3>2, <3>7, <3>8 DEF PutUndo, Counted, CallTypes, StoreTypes
    <3>4. /\ objLock' = objLock
          /\ \A q \in Clients : q # p => pc'[q] = pc[q] /\ pos'[q] = pos[q]
          /\ \A o \in Objects : o # x => idx'[o] = idx[o]
      BY <1>10, <3>2 DEF PutUndo, CallTypes, StoreTypes, Goto, lockVars, callVars
    <3>5. \A o \in Objects : \A i \in 1..NEntries(o) : o # x => (Counted(o, i)' <=> Counted(o, i))
      BY <3>1, <3>2, <3>4, OthersCounted DEF Typing, TypeOK
    <3> QED BY <3>3, <3>5 DEF SameCounted
  <2>2. UNCHANGED refs /\ (UNCHANGED faults \/ \E k \in FaultKinds : Fault(k))
    BY <1>10 DEF PutUndo
  <2> QED BY <2>1, <2>2, CountSame
<1>11. ASSUME NEW p \in Clients, PutManifest(p) PROVE CountsKept
  <2>1. SameCounted
    <3>1. InObject(p)
      BY <1>11 DEF PutManifest, InObject
    <3>2. PICK x \in Objects : obj[p] = x /\ objLock[x] = p /\ p # NoClient
      BY <3>1, OwnLock DEF Typing, TypeOK
    <3>6. idx[x] = Record(p)
      BY <3>1, <3>2 DEF RecordInv
    <3>7. idx[x] = 0
      BY <1>11, <3>6 DEF PutManifest, Record, CursorInv, SavePCs
    <3>8. pc'[p] = "put_refs" /\ objLock'[x] = p /\ pos'[p] = 1
      BY <1>11, <3>2, <3>7 DEF PutManifest, CallTypes, Goto, storeVars, lockVars
    <3>3. \A i \in 1..NEntries(x) : Counted(x, i)' <=> Counted(x, i)
      BY <1>11, <3>2, <3>7, <3>8, SlotType DEF PutManifest, Counted
    <3>4. /\ objLock' = objLock
          /\ \A q \in Clients : q # p => pc'[q] = pc[q] /\ pos'[q] = pos[q]
          /\ \A o \in Objects : o # x => idx'[o] = idx[o]
      BY <1>11, <3>2 DEF PutManifest, CallTypes, StoreTypes, Goto, storeVars, lockVars
    <3>5. \A o \in Objects : \A i \in 1..NEntries(o) : o # x => (Counted(o, i)' <=> Counted(o, i))
      BY <3>1, <3>2, <3>4, OthersCounted DEF Typing, TypeOK
    <3> QED BY <3>3, <3>5 DEF SameCounted
  <2>2. UNCHANGED refs /\ (UNCHANGED faults \/ \E k \in FaultKinds : Fault(k))
    BY <1>11 DEF PutManifest, storeVars
  <2> QED BY <2>1, <2>2, CountSame
<1>12. ASSUME NEW p \in Clients, PutAddRef(p) PROVE CountsKept
  <2>1. InObject(p) /\ obj[p] \in Objects /\ pos[p] \in 1..NEntries(obj[p])
    BY <1>12, SlotType DEF PutAddRef, InObject, CallTypes, CallInv, CursorInv, PutPCs
  <2>2. PICK o \in Objects, n \in Nat :
           /\ obj[p] = o /\ pos[p] = n /\ n \in 1..NEntries(o)
           /\ objLock[o] = p /\ p # NoClient
    BY <2>1, OwnLock DEF Typing, TypeOK
  <2>3. PICK c \in Chunks : Slot(o, n) = c
    BY <2>2, SlotType
  <2>4. pc'[p] = "put_refs" /\ pos'[p] = n + 1 /\ objLock'[o] = p
    BY <1>12, <2>2 DEF PutAddRef, CallTypes, lockVars
  <2>5. \A i \in 1..NEntries(o) : Counted(o, i)' <=> (Counted(o, i) \/ i = n)
    BY <1>12, <2>2, <2>4, SlotType DEF PutAddRef, Counted
  <2>6. ~Counted(o, n)
    BY <1>12, <2>2 DEF PutAddRef, Counted
  <2>7. /\ objLock' = objLock
        /\ \A q \in Clients : q # p => pc'[q] = pc[q] /\ pos'[q] = pos[q]
        /\ \A x \in Objects : x # o => idx'[x] = idx[x]
    BY <1>12 DEF PutAddRef, CallTypes, lockVars
  <2>8. \A x \in Objects : \A i \in 1..NEntries(x) : x # o => (Counted(x, i)' <=> Counted(x, i))
    BY <2>1, <2>2, <2>7, OthersCounted DEF Typing, TypeOK
  <2>9. /\ Cardinality(Holders(c)') = Cardinality(Holders(c)) + 1
        /\ \A d \in Chunks : d # c => Holders(d)' = Holders(d)
    BY <2>2, <2>3, <2>5, <2>6, <2>8, OneMore
  <2>10. refs' = [refs EXCEPT ![c] = refs[c] + 1] /\ faults' = faults
    BY <1>12, <2>2, <2>3 DEF PutAddRef
  <2>11. refs'[c] = refs[c] + 1 /\ \A d \in Chunks : d # c => refs'[d] = refs[d]
    BY <2>10 DEF StoreTypes
  <2>12. \A d \in Chunks : refs[d] \in Nat /\ Cardinality(Holders(d)) \in Nat
    BY HoldersFinite DEF StoreTypes
  <2>13. ASSUME NEW d \in Chunks, d # c
         PROVE  refs'[d] = refs[d] /\ Cardinality(Holders(d)') = Cardinality(Holders(d))
    <3>1. Holders(d)' = Holders(d)
      BY <2>9, <2>13
    <3>2. refs'[d] = refs[d]
      BY <2>11, <2>13
    <3> QED BY <3>1, <3>2
  <2>14. \A K : NoFault(K)' <=> NoFault(K)
    BY <2>10 DEF NoFault
  <2>15. RefsExact => RefsExact'
    BY <2>9, <2>11, <2>12, <2>13, <2>14 DEF RefsExact
  <2>16. RefsCover'
    BY <2>9, <2>11, <2>12, <2>13, <2>14 DEF RefsCover
  <2> QED BY <2>15, <2>16 DEF CountsKept
<1>13. ASSUME NEW p \in Clients, PutIndex(p) PROVE CountsKept
  <2>1. SameCounted
    <3>1. InObject(p)
      BY <1>13 DEF PutIndex, InObject
    <3>2. PICK x \in Objects : obj[p] = x /\ objLock[x] = p /\ p # NoClient
      BY <3>1, OwnLock DEF Typing, TypeOK
    <3>3. \A i \in 1..NEntries(x) : Counted(x, i)' <=> Counted(x, i)
      BY <1>13, <3>1, <3>2, SlotType DEF PutIndex, Counted, CallTypes, StoreTypes,
         CursorInv, RecordInv, Record, Goto, lockVars, callVars
    <3>4. /\ objLock' = objLock
          /\ \A q \in Clients : q # p => pc'[q] = pc[q] /\ pos'[q] = pos[q]
          /\ \A o \in Objects : o # x => idx'[o] = idx[o]
      BY <1>13, <3>2 DEF PutIndex, CallTypes, StoreTypes, Goto, lockVars, callVars
    <3>5. \A o \in Objects : \A i \in 1..NEntries(o) : o # x => (Counted(o, i)' <=> Counted(o, i))
      BY <3>1, <3>2, <3>4, OthersCounted DEF Typing, TypeOK
    <3> QED BY <3>3, <3>5 DEF SameCounted
  <2>2. UNCHANGED refs /\ (UNCHANGED faults \/ \E k \in FaultKinds : Fault(k))
    BY <1>13 DEF PutIndex
  <2> QED BY <2>1, <2>2, CountSame
<1>14. ASSUME NEW p \in Clients, DeleteLock(p) PROVE CountsKept
  <2>1. SameCounted
    BY <1>14, NoneAssumption, SMTT(30) DEF DeleteLock, SameCounted, Counted, CallTypes, LockTypes,
       StoreTypes, CallInv, CursorInv, LockInv, RecordInv, Record, InObject, FencePCs,
       PutPCs, DeletePCs, GetPCs, SavePCs, ExclPCs, ExclOps, SharedOps, Goto, Answer,
       storeVars
  <2>2. UNCHANGED refs /\ (UNCHANGED faults \/ \E k \in FaultKinds : Fault(k))
    BY <1>14 DEF DeleteLock, storeVars
  <2> QED BY <2>1, <2>2, CountSame
<1>15. ASSUME NEW p \in Clients, DeleteDec(p) PROVE CountsKept
  <2>1. SameCounted
    <3>1. InObject(p)
      BY <1>15 DEF DeleteDec, InObject
    <3>2. PICK x \in Objects : obj[p] = x /\ objLock[x] = p /\ p # NoClient
      BY <3>1, OwnLock DEF Typing, TypeOK
    <3>6. idx[x] = Record(p)
      BY <3>1, <3>2 DEF RecordInv
    <3>7. idx[x] = seen[p] /\ seen[p] > 1
      BY <1>15, <3>6 DEF DeleteDec, Record, CursorInv, SavePCs
    <3>8. pc'[p] \notin {"put_refs", "del_refs"} /\ objLock'[x] = p /\ idx'[x] > 0
      BY <1>15, <3>2, <3>7 DEF DeleteDec, CallTypes, StoreTypes, Goto, lockVars, callVars
    <3>3. \A i \in 1..NEntries(x) : Counted(x, i)' <=> Counted(x, i)
      BY <1>15, <3>2, <3>7, <3>8 DEF DeleteDec, Counted, CallTypes, StoreTypes
    <3>4. /\ objLock' = objLock
          /\ \A q \in Clients : q # p => pc'[q] = pc[q] /\ pos'[q] = pos[q]
          /\ \A o \in Objects : o # x => idx'[o] = idx[o]
      BY <1>15, <3>2 DEF DeleteDec, CallTypes, StoreTypes, Goto, lockVars, callVars
    <3>5. \A o \in Objects : \A i \in 1..NEntries(o) : o # x => (Counted(o, i)' <=> Counted(o, i))
      BY <3>1, <3>2, <3>4, OthersCounted DEF Typing, TypeOK
    <3> QED BY <3>3, <3>5 DEF SameCounted
  <2>2. UNCHANGED refs /\ (UNCHANGED faults \/ \E k \in FaultKinds : Fault(k))
    BY <1>15 DEF DeleteDec
  <2> QED BY <2>1, <2>2, CountSame
<1>16. ASSUME NEW p \in Clients, DeleteSubRef(p) PROVE CountsKept
  <2>1. InObject(p) /\ obj[p] \in Objects /\ pos[p] \in 1..NEntries(obj[p])
    BY <1>16, SlotType DEF DeleteSubRef, InObject, CallTypes, CallInv, CursorInv, DeletePCs
  <2>2. PICK o \in Objects, n \in Nat :
           /\ obj[p] = o /\ pos[p] = n /\ n \in 1..NEntries(o)
           /\ objLock[o] = p /\ p # NoClient
    BY <2>1, OwnLock DEF Typing, TypeOK
  <2>3. PICK c \in Chunks : Slot(o, n) = c
    BY <2>2, SlotType
  <2>4. pc'[p] = "del_refs" /\ pos'[p] = n + 1 /\ objLock'[o] = p
    BY <1>16, <2>2 DEF DeleteSubRef, CallTypes, lockVars
  <2>5. \A i \in 1..NEntries(o) : Counted(o, i)' <=> (Counted(o, i) /\ i # n)
    BY <1>16, <2>2, <2>4, SlotType DEF DeleteSubRef, Counted
  <2>6. Counted(o, n)
    BY <1>16, <2>2 DEF DeleteSubRef, Counted
  <2>7. /\ objLock' = objLock
        /\ \A q \in Clients : q # p => pc'[q] = pc[q] /\ pos'[q] = pos[q]
        /\ \A x \in Objects : x # o => idx'[x] = idx[x]
    BY <1>16 DEF DeleteSubRef, CallTypes, lockVars
  <2>8. \A x \in Objects : \A i \in 1..NEntries(x) : x # o => (Counted(x, i)' <=> Counted(x, i))
    BY <2>1, <2>2, <2>7, OthersCounted DEF Typing, TypeOK
  <2>9. /\ Cardinality(Holders(c)') = Cardinality(Holders(c)) - 1
        /\ \A d \in Chunks : d # c => Holders(d)' = Holders(d)
    BY <2>2, <2>3, <2>5, <2>6, <2>8, OneLess
  <2>10. refs' = [refs EXCEPT ![c] = refs[c] - 1] /\ refs[c] > 0 /\ faults' = faults
    BY <1>16, <2>2, <2>3 DEF DeleteSubRef
  <2>11. refs'[c] = refs[c] - 1 /\ \A d \in Chunks : d # c => refs'[d] = refs[d]
    BY <2>10 DEF StoreTypes
  <2>12. \A d \in Chunks : refs[d] \in Nat /\ Cardinality(Holders(d)) \in Nat
    BY HoldersFinite DEF StoreTypes
  <2>13. ASSUME NEW d \in Chunks, d # c
         PROVE  refs'[d] = refs[d] /\ Cardinality(Holders(d)') = Cardinality(Holders(d))
    <3>1. Holders(d)' = Holders(d)
      BY <2>9, <2>13
    <3>2. refs'[d] = refs[d]
      BY <2>11, <2>13
    <3> QED BY <3>1, <3>2
  <2>14. \A K : NoFault(K)' <=> NoFault(K)
    BY <2>10 DEF NoFault
  <2>15. RefsExact => RefsExact'
    BY <2>9, <2>11, <2>12, <2>13, <2>14 DEF RefsExact
  <2>16. RefsCover'
    BY <2>9, <2>11, <2>12, <2>13, <2>14 DEF RefsCover
  <2> QED BY <2>15, <2>16 DEF CountsKept
<1>17. ASSUME NEW p \in Clients, DeleteUnderflow(p) PROVE CountsKept
  <2>1. ~NoFault({"sub"})
    BY <1>17, UnderflowNeedsFault DEF Typing, TypeOK
  <2>2. ~NoFault({"sub"})' /\ ~NoFault({"add", "sub"})'
    BY <1>17, <2>1 DEF DeleteUnderflow, NoFault
  <2> QED BY <2>2 DEF CountsKept, RefsExact, RefsCover
<1>18. ASSUME NEW p \in Clients, DeleteIndex(p) PROVE CountsKept
  <2>1. SameCounted
    <3>1. InObject(p)
      BY <1>18 DEF DeleteIndex, InObject
    <3>2. PICK x \in Objects : obj[p] = x /\ objLock[x] = p /\ p # NoClient
      BY <3>1, OwnLock DEF Typing, TypeOK
    <3>3. \A i \in 1..NEntries(x) : Counted(x, i)' <=> Counted(x, i)
      BY <1>18, <3>1, <3>2, SlotType DEF DeleteIndex, Counted, CallTypes, StoreTypes,
         CursorInv, RecordInv, Record, Goto, lockVars, callVars
    <3>4. /\ objLock' = objLock
          /\ \A q \in Clients : q # p => pc'[q] = pc[q] /\ pos'[q] = pos[q]
          /\ \A o \in Objects : o # x => idx'[o] = idx[o]
      BY <1>18, <3>2 DEF DeleteIndex, CallTypes, StoreTypes, Goto, lockVars, callVars
    <3>5. \A o \in Objects : \A i \in 1..NEntries(o) : o # x => (Counted(o, i)' <=> Counted(o, i))
      BY <3>1, <3>2, <3>4, OthersCounted DEF Typing, TypeOK
    <3> QED BY <3>3, <3>5 DEF SameCounted
  <2>2. UNCHANGED refs /\ (UNCHANGED faults \/ \E k \in FaultKinds : Fault(k))
    BY <1>18 DEF DeleteIndex
  <2> QED BY <2>1, <2>2, CountSame
<1>19. ASSUME NEW p \in Clients, DeleteManifest(p) PROVE CountsKept
  <2>1. SameCounted
    BY <1>19 DEF DeleteManifest, SameCounted, Counted, CallTypes, LockTypes, Goto,
       storeVars, lockVars, callVars
  <2>2. UNCHANGED refs /\ (UNCHANGED faults \/ \E k \in FaultKinds : Fault(k))
    BY <1>19 DEF DeleteManifest, storeVars
  <2> QED BY <2>1, <2>2, CountSame
<1>20. ASSUME NEW p \in Clients, PersistMemory(p) PROVE CountsKept
  <2>1. SameCounted
    BY <1>20 DEF PersistMemory, SameCounted, Counted, CallTypes, LockTypes, Answer,
       AfterPersist, Goto, storeVars, lockVars
  <2>2. UNCHANGED refs /\ (UNCHANGED faults \/ \E k \in FaultKinds : Fault(k))
    BY <1>20 DEF PersistMemory, storeVars
  <2> QED BY <2>1, <2>2, CountSame
<1>21. ASSUME NEW p \in Clients, PersistIndex(p) PROVE CountsKept
  <2>1. SameCounted
    BY <1>21 DEF PersistIndex, SameCounted, Counted, CallTypes, LockTypes, Goto, storeVars,
       callVars
  <2>2. UNCHANGED refs /\ (UNCHANGED faults \/ \E k \in FaultKinds : Fault(k))
    BY <1>21 DEF PersistIndex, FaultKinds, storeVars
  <2> QED BY <2>1, <2>2, CountSame
<1>22. ASSUME NEW p \in Clients, PersistRefs(p) PROVE CountsKept
  <2>1. SameCounted
    BY <1>22 DEF PersistRefs, SameCounted, Counted, CallTypes, LockTypes, Goto, storeVars,
       lockVars, callVars
  <2>2. UNCHANGED refs /\ (UNCHANGED faults \/ \E k \in FaultKinds : Fault(k))
    BY <1>22 DEF PersistRefs, FaultKinds, storeVars
  <2> QED BY <2>1, <2>2, CountSame
<1>23. ASSUME NEW p \in Clients, PersistTruncate(p) PROVE CountsKept
  <2>1. SameCounted
    BY <1>23 DEF PersistTruncate, SameCounted, Counted, CallTypes, LockTypes, Answer,
       AfterPersist, Goto, storeVars
  <2>2. UNCHANGED refs /\ (UNCHANGED faults \/ \E k \in FaultKinds : Fault(k))
    BY <1>23 DEF PersistTruncate, storeVars
  <2> QED BY <2>1, <2>2, CountSame
<1>24. ASSUME NEW p \in Clients, GetLookup(p) PROVE CountsKept
  <2>1. SameCounted
    BY <1>24 DEF GetLookup, SameCounted, Counted, CallTypes, LockTypes, Goto, Answer,
       storeVars, lockVars
  <2>2. UNCHANGED refs /\ (UNCHANGED faults \/ \E k \in FaultKinds : Fault(k))
    BY <1>24 DEF GetLookup, storeVars
  <2> QED BY <2>1, <2>2, CountSame
<1>25. ASSUME NEW p \in Clients, GetLoad(p) PROVE CountsKept
  <2>1. SameCounted
    BY <1>25 DEF GetLoad, SameCounted, Counted, CallTypes, LockTypes, Goto, Answer,
       storeVars, lockVars
  <2>2. UNCHANGED refs /\ (UNCHANGED faults \/ \E k \in FaultKinds : Fault(k))
    BY <1>25 DEF GetLoad, storeVars
  <2> QED BY <2>1, <2>2, CountSame
<1>26. ASSUME NEW p \in Clients, ReadChunk(p) PROVE CountsKept
  <2>1. SameCounted
    <3>1. pc' = pc /\ objLock' = objLock /\ idx' = idx
      BY <1>26 DEF ReadChunk, storeVars, lockVars
    <3>2. \A q \in Clients : pc[q] # "reading" => pos'[q] = pos[q]
      BY <1>26 DEF ReadChunk, CallTypes
    <3> QED BY <3>1, <3>2 DEF SameCounted, Counted, LockTypes
  <2>2. UNCHANGED refs /\ (UNCHANGED faults \/ \E k \in FaultKinds : Fault(k))
    BY <1>26 DEF ReadChunk, storeVars
  <2> QED BY <2>1, <2>2, CountSame
<1>27. ASSUME NEW p \in Clients, CloseReader(p) PROVE CountsKept
  <2>1. SameCounted
    BY <1>27 DEF CloseReader, SameCounted, Counted, CallTypes, LockTypes, Goto, Answer,
       storeVars, lockVars
  <2>2. UNCHANGED refs /\ (UNCHANGED faults \/ \E k \in FaultKinds : Fault(k))
    BY <1>27 DEF CloseReader, storeVars
  <2> QED BY <2>1, <2>2, CountSame
<1>28. ASSUME NEW p \in Clients, WLockAnnounce(p) PROVE CountsKept
  <2>1. SameCounted
    BY <1>28 DEF WLockAnnounce, SameCounted, Counted, CallTypes, LockTypes, Goto, storeVars,
       callVars
  <2>2. UNCHANGED refs /\ (UNCHANGED faults \/ \E k \in FaultKinds : Fault(k))
    BY <1>28 DEF WLockAnnounce, storeVars
  <2> QED BY <2>1, <2>2, CountSame
<1>29. ASSUME NEW p \in Clients, WLockClosed(p) PROVE CountsKept
  <2>1. SameCounted
    BY <1>29 DEF WLockClosed, SameCounted, Counted, CallTypes, LockTypes, Goto, Answer,
       storeVars, lockVars
  <2>2. UNCHANGED refs /\ (UNCHANGED faults \/ \E k \in FaultKinds : Fault(k))
    BY <1>29 DEF WLockClosed, storeVars
  <2> QED BY <2>1, <2>2, CountSame
<1>30. ASSUME NEW p \in Clients, GCBegin(p) PROVE CountsKept
  <2>1. SameCounted
    BY <1>30 DEF GCBegin, SameCounted, Counted, CallTypes, LockTypes, Goto, storeVars,
       lockVars, callVars
  <2>2. UNCHANGED refs /\ (UNCHANGED faults \/ \E k \in FaultKinds : Fault(k))
    BY <1>30 DEF GCBegin, storeVars
  <2> QED BY <2>1, <2>2, CountSame
<1>31. ASSUME NEW p \in Clients, GCSweep(p) PROVE CountsKept
  <2>1. SameCounted
    BY <1>31 DEF GCSweep, SameCounted, Counted, CallTypes, LockTypes, storeVars, lockVars,
       callVars
  <2>2. UNCHANGED refs /\ (UNCHANGED faults \/ \E k \in FaultKinds : Fault(k))
    BY <1>31 DEF GCSweep, storeVars
  <2> QED BY <2>1, <2>2, CountSame
<1>32. ASSUME NEW p \in Clients, GCEnd(p) PROVE CountsKept
  <2>1. SameCounted
    BY <1>32 DEF GCEnd, SameCounted, Counted, CallTypes, LockTypes, Goto, storeVars,
       lockVars, callVars
  <2>2. UNCHANGED refs /\ (UNCHANGED faults \/ \E k \in FaultKinds : Fault(k))
    BY <1>32 DEF GCEnd, storeVars
  <2> QED BY <2>1, <2>2, CountSame
<1>33. ASSUME NEW p \in Clients, CloseBegin(p) PROVE CountsKept
  <2>1. SameCounted
    BY <1>33 DEF CloseBegin, SameCounted, Counted, CallTypes, LockTypes, Goto, lockVars,
       callVars
  <2>2. UNCHANGED refs /\ (UNCHANGED faults \/ \E k \in FaultKinds : Fault(k))
    BY <1>33 DEF CloseBegin
  <2> QED BY <2>1, <2>2, CountSame
<1>34. ASSUME NEW p \in Clients, WUnlock(p) PROVE CountsKept
  <2>1. SameCounted
    BY <1>34 DEF WUnlock, SameCounted, Counted, CallTypes, LockTypes, Answer, storeVars
  <2>2. UNCHANGED refs /\ (UNCHANGED faults \/ \E k \in FaultKinds : Fault(k))
    BY <1>34 DEF WUnlock, storeVars
  <2> QED BY <2>1, <2>2, CountSame
<1>35. ASSUME NEW p \in Clients, CallFail(p) PROVE CountsKept
  <2>1. SameCounted
    BY <1>35 DEF CallFail, SameCounted, Counted, CallTypes, LockTypes, Goto, Answer,
       storeVars, lockVars
  <2>2. UNCHANGED refs /\ (UNCHANGED faults \/ \E k \in FaultKinds : Fault(k))
    BY <1>35 DEF CallFail, storeVars
  <2> QED BY <2>1, <2>2, CountSame
<1>36. ASSUME NEW p \in Clients, PutAddRefFail(p) PROVE CountsKept
  <2>1. faults' = Append(faults, "add") /\ Fault("add") /\ refs' = refs
    BY <1>36 DEF PutAddRefFail, Fault, storeVars
  <2>2. ~NoFault({"add", "sub"})'
    BY <2>1, FaultSeen DEF StoreTypes
  <2>3. NoFault({"sub"})' => NoFault({"sub"})
    BY <2>1, FaultsGrow DEF StoreTypes, FaultKinds
  <2>4. \A o \in Objects : \A i \in 1..NEntries(o) : Counted(o, i)' => Counted(o, i)
    <3>1. InObject(p)
      BY <1>36 DEF PutAddRefFail, InObject
    <3>2. PICK x \in Objects : obj[p] = x /\ objLock[x] = p /\ p # NoClient
      BY <3>1, OwnLock DEF Typing, TypeOK
    <3>7. idx[x] = Record(p)
      BY <3>1, <3>2 DEF RecordInv
    <3>8. idx[x] = 0
      BY <1>36, <3>7 DEF PutAddRefFail, Record, SavePCs
    <3>3. pc'[p] = "finish" /\ objLock'[x] = p /\ idx'[x] = 0
      BY <1>36, <3>2, <3>8 DEF PutAddRefFail, CallTypes, Goto, storeVars, lockVars
    <3>6. \A i \in 1..NEntries(x) : ~Counted(x, i)'
      BY <3>3 DEF Counted
    <3>4. /\ objLock' = objLock
          /\ \A q \in Clients : q # p => pc'[q] = pc[q] /\ pos'[q] = pos[q]
          /\ \A o \in Objects : o # x => idx'[o] = idx[o]
      BY <1>36, <3>2 DEF PutAddRefFail, CallTypes, StoreTypes, Goto, storeVars, lockVars
    <3>5. \A o \in Objects : \A i \in 1..NEntries(o) : o # x => (Counted(o, i)' <=> Counted(o, i))
      BY <3>1, <3>2, <3>4, OthersCounted DEF Typing, TypeOK
    <3> QED BY <3>5, <3>6
  <2>5. ASSUME NEW c \in Chunks PROVE Cardinality(Holders(c)') <= Cardinality(Holders(c))
    <3>1. Holders(c)' \in SUBSET Holders(c)
      BY <2>4 DEF Holders, Slots
    <3> QED BY <3>1, HoldersFinite, FS_Subset
  <2>6. \A c \in Chunks : /\ refs[c] \in Nat
                          /\ Cardinality(Holders(c)) \in Nat
                          /\ Cardinality(Holders(c)') \in Nat
    BY HoldersFinite, HoldersFiniteNext DEF StoreTypes
  <2>7. ASSUME NoFault({"sub"})', NEW c \in Chunks PROVE Cardinality(Holders(c)') <= refs'[c]
    BY <2>1, <2>3, <2>5, <2>6, <2>7 DEF RefsCover
  <2> QED BY <2>2, <2>7 DEF CountsKept, RefsExact, RefsCover
<1>37. ASSUME NEW p \in Clients, DeleteSubRefFail(p) PROVE CountsKept
  <2>1. faults' = Append(faults, "sub")
    BY <1>37 DEF DeleteSubRefFail, Fault
  <2>2. ~NoFault({"sub"})' /\ ~NoFault({"add", "sub"})'
    BY <2>1, FaultSeen DEF StoreTypes
  <2> QED BY <2>2 DEF CountsKept, RefsExact, RefsCover
<1>38. ASSUME NEW p \in Clients, DeleteManifestFail(p) PROVE CountsKept
  <2>1. SameCounted
    BY <1>38 DEF DeleteManifestFail, SameCounted, Counted, CallTypes, LockTypes, Goto,
       Answer, storeVars, lockVars
  <2>2. UNCHANGED refs /\ (UNCHANGED faults \/ \E k \in FaultKinds : Fault(k))
    BY <1>38 DEF DeleteManifestFail, FaultKinds, storeVars
  <2> QED BY <2>1, <2>2, CountSame
<1>39. ASSUME NEW p \in Clients, PersistFail(p) PROVE CountsKept
  <2>1. SameCounted
    BY <1>39 DEF PersistFail, SameCounted, Counted, CallTypes, LockTypes, Goto, Answer,
       AfterPersist, storeVars
  <2>2. UNCHANGED refs /\ (UNCHANGED faults \/ \E k \in FaultKinds : Fault(k))
    BY <1>39 DEF PersistFail, FaultKinds, storeVars
  <2> QED BY <2>1, <2>2, CountSame
<1>40. ASSUME NEW p \in Clients, GCFail(p) PROVE CountsKept
  <2>1. SameCounted
    BY <1>40 DEF GCFail, SameCounted, Counted, CallTypes, LockTypes, Goto, Answer,
       storeVars, lockVars
  <2>2. UNCHANGED refs /\ (UNCHANGED faults \/ \E k \in FaultKinds : Fault(k))
    BY <1>40 DEF GCFail, storeVars
  <2> QED BY <2>1, <2>2, CountSame
<1>41. ASSUME NEW p \in Clients, GCSkip(p) PROVE CountsKept
  <2>1. SameCounted
    BY <1>41 DEF GCSkip, SameCounted, Counted, CallTypes, LockTypes, storeVars, lockVars,
       callVars
  <2>2. UNCHANGED refs /\ (UNCHANGED faults \/ \E k \in FaultKinds : Fault(k))
    BY <1>41 DEF GCSkip, FaultKinds, storeVars
  <2> QED BY <2>1, <2>2, CountSame
<1>42. CASE UNCHANGED vars
    <2>1. SameCounted
    BY <1>42 DEF SameCounted, Counted, vars, storeVars, lockVars, callVars
  <2> QED BY <1>42, <2>1, CountSame DEF vars, storeVars
<1> QED BY <1>1, <1>2, <1>3, <1>4, <1>5, <1>6, <1>7, <1>8, <1>9, <1>10, <1>11, <1>12, <1>13,
   <1>14, <1>15, <1>16, <1>17, <1>18, <1>19, <1>20, <1>21, <1>22, <1>23, <1>24, <1>25,
   <1>26, <1>27, <1>28, <1>29, <1>30, <1>31, <1>32, <1>33, <1>34, <1>35, <1>36, <1>37,
   <1>38, <1>39, <1>40, <1>41, <1>42 DEF Next, Call, Step, Failure, PutStep, DeleteStep,
   PersistStep, PersistBegin, GetStep, ExclStep

\* So both together are kept.
LEMMA RefsStep == Typing /\ LockInv /\ RecordInv /\ RefsInv /\ [Next]_vars => RefsInv'
  BY CountsStep DEF CountsKept, RefsInv

\* An empty store has neither counts nor references.
LEMMA RefsInit == Init => RefsInv
<1> SUFFICES ASSUME Init PROVE RefsInv
  OBVIOUS
<1>1. \A o \in Objects : \A i \in 1..NEntries(o) : ~Counted(o, i)
  BY DEF Init, Counted
<1>2. \A c \in Chunks : Holders(c) = {}
  BY <1>1 DEF Holders, Slots
<1>3. \A c \in Chunks : refs[c] = 0 /\ Cardinality(Holders(c)) = 0
  BY <1>2, FS_EmptySet DEF Init
<1> QED BY <1>3 DEF RefsInv, RefsExact, RefsCover

\* A chunk's count is exactly the number of manifest entries that refer to it,
\* for any number of clients, objects and chunks, until a journal append fails;
\* and it is never below that number until one fails in SubMany (Table.Add,
\* Table.Sub, AddMany, SubMany, and Put and Delete that call them).
THEOREM CountsCorrect == Spec => [](RefsExact /\ RefsCover)
<1> DEFINE I == Typing /\ Discipline /\ RefsInv
<1>1. Init => I
  BY TypingInit, DisciplineInit, RefsInit DEF Discipline, Typing
<1>2. I /\ [Next]_vars => I'
  BY TypingStep, DisciplineStep, RefsStep DEF Discipline
<1>3. I => RefsExact /\ RefsCover
  BY DEF RefsInv
<1> QED BY <1>1, <1>2, <1>3, PTL DEF Spec

-----------------------------------------------------------------------------
(* Chunks, readers and GC *)

ChunkInv == VisibleReadable /\ PinInv

\* A step that removes no chunk, hides what it must and fits p's own needs
\* keeps ChunkInv.
LEMMA ChunkFrame ==
    ASSUME Typing, ChunkInv, NEW p \in Clients,
           UNCHANGED faults \/ \E k \in FaultKinds : Fault(k),
           blobs \subseteq blobs',
           \A o \in Objects : idx'[o] > 0 =>
               \/ idx[o] > 0 /\ (o \in manifests => o \in manifests')
               \/ o \in manifests' /\ ChunksOf(o) \subseteq blobs',
           \A q \in Clients : q # p =>
               pc'[q] = pc[q] /\ pos'[q] = pos[q] /\ obj'[q] = obj[q] /\ op'[q] = op[q],
           op'[p] = "put" \/ NoFault({"sub"})' => Needs(p)' \subseteq blobs'
    PROVE  ChunkInv'
<1>1. NoFault({"sub"})' => NoFault({"sub"})
  BY FaultsGrow DEF Typing, TypeOK, StoreTypes
<1>2. VisibleReadable'
  <2> SUFFICES ASSUME NoFault({"sub"})', NEW o \in Objects, idx'[o] > 0
               PROVE  o \in manifests' /\ ChunksOf(o) \subseteq blobs'
    BY DEF VisibleReadable, ChunksOf
  <2> QED BY <1>1 DEF ChunkInv, VisibleReadable
<1>3. ASSUME NEW q \in Clients, q # p, op'[q] = "put" \/ NoFault({"sub"})'
      PROVE  Needs(q)' \subseteq blobs'
  <2>1. Needs(q)' = Needs(q)
    BY <1>3 DEF Needs, ChunksOf
  <2>2. Needs(q) \subseteq blobs
    BY <1>1, <1>3 DEF ChunkInv, PinInv
  <2> QED BY <2>1, <2>2
<1>4. PinInv'
  BY <1>3 DEF PinInv
<1> QED BY <1>2, <1>4 DEF ChunkInv

\* While a GC sweeps, nobody is under the read lock, and so nobody relies on a
\* chunk.
LEMMA SweepAlone ==
    ASSUME Typing, FenceInv, NEW p \in Clients, pc[p] = "sweep", NEW q \in Clients
    PROVE  /\ ~InShared(q) /\ Needs(q) = {}
           /\ pc[q] \notin {"put_refs", "del_refs"}
<1>1. Exclusive(p)
  BY DEF Typing, CallInv, Exclusive, ExclPCs
<1>2. ~InShared(q)
  BY <1>1 DEF FenceInv
<1> QED BY <1>2 DEF InShared, Needs, PutPCs, DeletePCs, GetPCs

\* A chunk of a visible object has a positive count while a GC sweeps.
LEMMA SweepSpares ==
    ASSUME Typing, FenceInv, RefsCover, NEW p \in Clients, pc[p] = "sweep", NoFault({"sub"}),
           NEW o \in Objects, idx[o] > 0, NEW c \in ChunksOf(o)
    PROVE  refs[c] > 0
<1>1. PICK i \in 1..NEntries(o) : Slot(o, i) = c
  BY DEF ChunksOf
<1>2. c \in Chunks
  BY <1>1, SlotType
<1>3. Counted(o, i)
  BY SweepAlone DEF Counted, Typing, TypeOK, LockTypes
<1>4. <<o, i>> \in Holders(c)
  BY <1>1, <1>3 DEF Holders, Slots
<1>5. Cardinality(Holders(c)) # 0
  BY <1>4, HoldersFinite, FS_EmptySet
<1>6. Cardinality(Holders(c)) <= refs[c]
  BY <1>2 DEF RefsCover
<1> QED BY <1>2, <1>5, <1>6, HoldersFinite DEF Typing, TypeOK, StoreTypes

\* Every step keeps visible objects readable and chunks in use present.
LEMMA ChunkStep ==
    Typing /\ FenceInv /\ LockInv /\ RecordInv /\ RefsCover /\ ChunkInv /\ [Next]_vars => ChunkInv'
<1> SUFFICES ASSUME Typing, FenceInv, LockInv, RecordInv, RefsCover, ChunkInv, [Next]_vars
             PROVE  ChunkInv'
  OBVIOUS
<1> USE DEF Typing, TypeOK
<1>1. ASSUME NEW p \in Clients, CallShared(p) PROVE ChunkInv'
  BY <1>1 DEF CallShared, ChunkInv, VisibleReadable, PinInv, Needs, NoFault, ChunksOf,
     CallTypes, Goto, storeVars, fileVars, diskVars, lockVars
<1>2. ASSUME NEW p \in Clients, CallExclusive(p) PROVE ChunkInv'
  BY <1>2 DEF CallExclusive, ChunkInv, VisibleReadable, PinInv, Needs, NoFault, ChunksOf,
     CallTypes, Goto, storeVars, fileVars, diskVars, lockVars
<1>3. ASSUME NEW p \in Clients, RLock(p) PROVE ChunkInv'
  <2>1. UNCHANGED faults \/ \E k \in FaultKinds : Fault(k)
    BY <1>3 DEF RLock
  <2>2. blobs \subseteq blobs'
    BY <1>3 DEF RLock, fileVars
  <2>3. \A o \in Objects : idx'[o] > 0 =>
           \/ idx[o] > 0 /\ (o \in manifests => o \in manifests')
           \/ o \in manifests' /\ ChunksOf(o) \subseteq blobs'
    BY <1>3 DEF RLock, storeVars, fileVars
  <2>4. \A q \in Clients : q # p =>
           pc'[q] = pc[q] /\ pos'[q] = pos[q] /\ obj'[q] = obj[q] /\ op'[q] = op[q]
    BY <1>3 DEF RLock, CallTypes, Goto, callVars
  <2>5. op'[p] = "put" \/ NoFault({"sub"})' => Needs(p)' \subseteq blobs'
    BY <1>3 DEF RLock, Needs, CallTypes, Goto, callVars, fileVars, storeVars
  <2> QED BY <2>1, <2>2, <2>3, <2>4, <2>5, ChunkFrame DEF Typing, TypeOK
<1>4. ASSUME NEW p \in Clients, EnterClosed(p) PROVE ChunkInv'
  BY <1>4 DEF EnterClosed, ChunkInv, VisibleReadable, PinInv, Needs, NoFault, ChunksOf,
     CallTypes, Goto, Answer, storeVars, fileVars, diskVars, lockVars
<1>5. ASSUME NEW p \in Clients, Enter(p) PROVE ChunkInv'
  <2>1. UNCHANGED faults \/ \E k \in FaultKinds : Fault(k)
    BY <1>5 DEF Enter
  <2>2. blobs \subseteq blobs'
    BY <1>5 DEF Enter, fileVars
  <2>3. \A o \in Objects : idx'[o] > 0 =>
           \/ idx[o] > 0 /\ (o \in manifests => o \in manifests')
           \/ o \in manifests' /\ ChunksOf(o) \subseteq blobs'
    BY <1>5 DEF Enter, storeVars, fileVars
  <2>4. \A q \in Clients : q # p =>
           pc'[q] = pc[q] /\ pos'[q] = pos[q] /\ obj'[q] = obj[q] /\ op'[q] = op[q]
    BY <1>5 DEF Enter, CallTypes, Goto
  <2>5. op'[p] = "put" \/ NoFault({"sub"})' => Needs(p)' \subseteq blobs'
    <3>1. pc'[p] \in {"put_chunks", "del_lock", "get_look"} /\ pos'[p] = 1
      BY <1>5 DEF Enter, CallTypes, CallInv, FencePCs, Goto
    <3>2. \A i : i \notin 1..(1 - 1)
      OBVIOUS
    <3> QED BY <3>1, <3>2 DEF Needs
  <2> QED BY <2>1, <2>2, <2>3, <2>4, <2>5, ChunkFrame DEF Typing, TypeOK
<1>6. ASSUME NEW p \in Clients, Finish(p) PROVE ChunkInv'
  <2>1. UNCHANGED faults \/ \E k \in FaultKinds : Fault(k)
    BY <1>6 DEF Finish
  <2>2. blobs \subseteq blobs'
    BY <1>6 DEF Finish, fileVars
  <2>3. \A o \in Objects : idx'[o] > 0 =>
           \/ idx[o] > 0 /\ (o \in manifests => o \in manifests')
           \/ o \in manifests' /\ ChunksOf(o) \subseteq blobs'
    BY <1>6 DEF Finish, storeVars, fileVars
  <2>4. \A q \in Clients : q # p =>
           pc'[q] = pc[q] /\ pos'[q] = pos[q] /\ obj'[q] = obj[q] /\ op'[q] = op[q]
    BY <1>6 DEF Finish, CallTypes, Goto
  <2>5. op'[p] = "put" \/ NoFault({"sub"})' => Needs(p)' \subseteq blobs'
    BY <1>6 DEF Finish, Needs, CallTypes, Goto, fileVars, storeVars
  <2> QED BY <2>1, <2>2, <2>3, <2>4, <2>5, ChunkFrame DEF Typing, TypeOK
<1>7. ASSUME NEW p \in Clients, PutChunk(p) PROVE ChunkInv'
  BY <1>7 DEF PutChunk, ChunkInv, VisibleReadable, PinInv, Needs, NoFault, ChunksOf,
     CallTypes, storeVars, diskVars, lockVars
<1>8. ASSUME NEW p \in Clients, PutLock(p) PROVE ChunkInv'
  <2>1. UNCHANGED faults \/ \E k \in FaultKinds : Fault(k)
    BY <1>8 DEF PutLock
  <2>2. blobs \subseteq blobs'
    BY <1>8 DEF PutLock, fileVars
  <2>3. \A o \in Objects : idx'[o] > 0 =>
           \/ idx[o] > 0 /\ (o \in manifests => o \in manifests')
           \/ o \in manifests' /\ ChunksOf(o) \subseteq blobs'
    BY <1>8 DEF PutLock, storeVars, fileVars
  <2>4. \A q \in Clients : q # p =>
           pc'[q] = pc[q] /\ pos'[q] = pos[q] /\ obj'[q] = obj[q] /\ op'[q] = op[q]
    BY <1>8 DEF PutLock, CallTypes, Goto
  <2>5. op'[p] = "put" \/ NoFault({"sub"})' => Needs(p)' \subseteq blobs'
    <3>1. op[p] = "put" /\ Needs(p) \subseteq blobs
      BY <1>8 DEF PutLock, CallInv, PutPCs, ChunkInv, PinInv
    <3>2. obj[p] \in Objects /\ pos[p] = NEntries(obj[p]) + 1
      BY <1>8 DEF PutLock, CallInv, PutPCs
    <3>3. Needs(p) = ChunksOf(obj[p])
      BY <1>8, <3>2, SlotType DEF PutLock, Needs, ChunksOf
    <3>4. pc'[p] \in {"put_bump", "put_man"} /\ obj'[p] = obj[p]
      BY <1>8 DEF PutLock, CallTypes, Goto
    <3>5. Needs(p)' = ChunksOf(obj[p])
      BY <3>4 DEF Needs, ChunksOf
    <3> QED BY <2>2, <3>1, <3>3, <3>5
  <2> QED BY <2>1, <2>2, <2>3, <2>4, <2>5, ChunkFrame DEF Typing, TypeOK
<1>9. ASSUME NEW p \in Clients, PutBump(p) PROVE ChunkInv'
  <2>1. UNCHANGED faults \/ \E k \in FaultKinds : Fault(k)
    BY <1>9 DEF PutBump
  <2>2. blobs \subseteq blobs'
    BY <1>9 DEF PutBump, fileVars
  <2>3. \A o \in Objects : idx'[o] > 0 =>
           \/ idx[o] > 0 /\ (o \in manifests => o \in manifests')
           \/ o \in manifests' /\ ChunksOf(o) \subseteq blobs'
    <3>1. InObject(p) /\ obj[p] \in Objects
      BY <1>9, OwnLock DEF PutBump, InObject, Typing, TypeOK
    <3>2. idx[obj[p]] = Record(p)
      BY <3>1 DEF RecordInv
    <3>3. idx[obj[p]] > 0
      BY <1>9, <3>2 DEF PutBump, Record, CursorInv, SavePCs, CallTypes
    <3>4. manifests' = manifests /\ \A o \in Objects : o # obj[p] => idx'[o] = idx[o]
      BY <1>9 DEF PutBump, StoreTypes, fileVars
    <3> QED BY <3>3, <3>4
  <2>4. \A q \in Clients : q # p =>
           pc'[q] = pc[q] /\ pos'[q] = pos[q] /\ obj'[q] = obj[q] /\ op'[q] = op[q]
    BY <1>9 DEF PutBump, CallTypes, Goto, callVars
  <2>5. op'[p] = "put" \/ NoFault({"sub"})' => Needs(p)' \subseteq blobs'
    BY <1>9 DEF PutBump, Needs, CallTypes, Goto, callVars, fileVars
  <2> QED BY <2>1, <2>2, <2>3, <2>4, <2>5, ChunkFrame DEF Typing, TypeOK
<1>10. ASSUME NEW p \in Clients, PutUndo(p) PROVE ChunkInv'
  <2>1. UNCHANGED faults \/ \E k \in FaultKinds : Fault(k)
    BY <1>10 DEF PutUndo
  <2>2. blobs \subseteq blobs'
    BY <1>10 DEF PutUndo, fileVars
  <2>3. \A o \in Objects : idx'[o] > 0 =>
           \/ idx[o] > 0 /\ (o \in manifests => o \in manifests')
           \/ o \in manifests' /\ ChunksOf(o) \subseteq blobs'
    <3>1. InObject(p) /\ obj[p] \in Objects
      BY <1>10, OwnLock DEF PutUndo, InObject, Typing, TypeOK
    <3>2. idx[obj[p]] = Record(p)
      BY <3>1 DEF RecordInv
    <3>3. idx[obj[p]] > 0
      BY <1>10, <3>2 DEF PutUndo, Record, CursorInv, SavePCs, CallTypes
    <3>4. manifests' = manifests /\ \A o \in Objects : o # obj[p] => idx'[o] = idx[o]
      BY <1>10 DEF PutUndo, StoreTypes, fileVars
    <3> QED BY <3>3, <3>4
  <2>4. \A q \in Clients : q # p =>
           pc'[q] = pc[q] /\ pos'[q] = pos[q] /\ obj'[q] = obj[q] /\ op'[q] = op[q]
    BY <1>10 DEF PutUndo, CallTypes, Goto, callVars
  <2>5. op'[p] = "put" \/ NoFault({"sub"})' => Needs(p)' \subseteq blobs'
    BY <1>10 DEF PutUndo, Needs, CallTypes, Goto, callVars, fileVars
  <2> QED BY <2>1, <2>2, <2>3, <2>4, <2>5, ChunkFrame DEF Typing, TypeOK
<1>11. ASSUME NEW p \in Clients, PutManifest(p) PROVE ChunkInv'
  BY <1>11 DEF PutManifest, ChunkInv, VisibleReadable, PinInv, Needs, NoFault, ChunksOf,
     CallTypes, Goto, storeVars, diskVars, lockVars
<1>12. ASSUME NEW p \in Clients, PutAddRef(p) PROVE ChunkInv'
  BY <1>12 DEF PutAddRef, ChunkInv, VisibleReadable, PinInv, Needs, NoFault, ChunksOf,
     CallTypes, fileVars, lockVars
<1>13. ASSUME NEW p \in Clients, PutIndex(p) PROVE ChunkInv'
  <2>1. UNCHANGED faults \/ \E k \in FaultKinds : Fault(k)
    BY <1>13 DEF PutIndex
  <2>2. blobs \subseteq blobs'
    BY <1>13 DEF PutIndex, fileVars
  <2>3. \A o \in Objects : idx'[o] > 0 =>
           \/ idx[o] > 0 /\ (o \in manifests => o \in manifests')
           \/ o \in manifests' /\ ChunksOf(o) \subseteq blobs'
    <3>1. InObject(p) /\ obj[p] \in Objects
      BY <1>13, OwnLock DEF PutIndex, InObject, Typing, TypeOK
    <3>2. idx[obj[p]] = Record(p)
      BY <3>1 DEF RecordInv
    <3>3. obj[p] \in manifests' /\ ChunksOf(obj[p]) \subseteq blobs'
      BY <1>13 DEF PutIndex, RecordInv, ChunkInv, PinInv, Needs, CallInv, PutPCs, fileVars
    <3>4. manifests' = manifests /\ \A o \in Objects : o # obj[p] => idx'[o] = idx[o]
      BY <1>13 DEF PutIndex, StoreTypes, fileVars
    <3> QED BY <3>3, <3>4
  <2>4. \A q \in Clients : q # p =>
           pc'[q] = pc[q] /\ pos'[q] = pos[q] /\ obj'[q] = obj[q] /\ op'[q] = op[q]
    BY <1>13 DEF PutIndex, CallTypes, Goto, callVars
  <2>5. op'[p] = "put" \/ NoFault({"sub"})' => Needs(p)' \subseteq blobs'
    BY <1>13 DEF PutIndex, Needs, CallTypes, Goto, callVars, fileVars
  <2> QED BY <2>1, <2>2, <2>3, <2>4, <2>5, ChunkFrame DEF Typing, TypeOK
<1>14. ASSUME NEW p \in Clients, DeleteLock(p) PROVE ChunkInv'
  <2>1. UNCHANGED faults \/ \E k \in FaultKinds : Fault(k)
    BY <1>14 DEF DeleteLock
  <2>2. blobs \subseteq blobs'
    BY <1>14 DEF DeleteLock, fileVars
  <2>3. \A o \in Objects : idx'[o] > 0 =>
           \/ idx[o] > 0 /\ (o \in manifests => o \in manifests')
           \/ o \in manifests' /\ ChunksOf(o) \subseteq blobs'
    BY <1>14 DEF DeleteLock, storeVars, fileVars
  <2>4. \A q \in Clients : q # p =>
           pc'[q] = pc[q] /\ pos'[q] = pos[q] /\ obj'[q] = obj[q] /\ op'[q] = op[q]
    BY <1>14 DEF DeleteLock, CallTypes, Goto
  <2>5. op'[p] = "put" \/ NoFault({"sub"})' => Needs(p)' \subseteq blobs'
    BY <1>14 DEF DeleteLock, Needs, CallTypes, Goto, fileVars, storeVars
  <2> QED BY <2>1, <2>2, <2>3, <2>4, <2>5, ChunkFrame DEF Typing, TypeOK
<1>15. ASSUME NEW p \in Clients, DeleteDec(p) PROVE ChunkInv'
  <2>1. UNCHANGED faults \/ \E k \in FaultKinds : Fault(k)
    BY <1>15 DEF DeleteDec
  <2>2. blobs \subseteq blobs'
    BY <1>15 DEF DeleteDec, fileVars
  <2>3. \A o \in Objects : idx'[o] > 0 =>
           \/ idx[o] > 0 /\ (o \in manifests => o \in manifests')
           \/ o \in manifests' /\ ChunksOf(o) \subseteq blobs'
    <3>1. InObject(p) /\ obj[p] \in Objects
      BY <1>15, OwnLock DEF DeleteDec, InObject, Typing, TypeOK
    <3>2. idx[obj[p]] = Record(p)
      BY <3>1 DEF RecordInv
    <3>3. idx[obj[p]] > 0
      BY <1>15, <3>2 DEF DeleteDec, Record, CursorInv, SavePCs, CallTypes
    <3>4. manifests' = manifests /\ \A o \in Objects : o # obj[p] => idx'[o] = idx[o]
      BY <1>15 DEF DeleteDec, StoreTypes, fileVars
    <3> QED BY <3>3, <3>4
  <2>4. \A q \in Clients : q # p =>
           pc'[q] = pc[q] /\ pos'[q] = pos[q] /\ obj'[q] = obj[q] /\ op'[q] = op[q]
    BY <1>15 DEF DeleteDec, CallTypes, Goto, callVars
  <2>5. op'[p] = "put" \/ NoFault({"sub"})' => Needs(p)' \subseteq blobs'
    BY <1>15 DEF DeleteDec, Needs, CallTypes, Goto, callVars, fileVars
  <2> QED BY <2>1, <2>2, <2>3, <2>4, <2>5, ChunkFrame DEF Typing, TypeOK
<1>16. ASSUME NEW p \in Clients, DeleteSubRef(p) PROVE ChunkInv'
  BY <1>16 DEF DeleteSubRef, ChunkInv, VisibleReadable, PinInv, Needs, NoFault, ChunksOf,
     CallTypes, fileVars, lockVars
<1>17. ASSUME NEW p \in Clients, DeleteUnderflow(p) PROVE ChunkInv'
  BY <1>17 DEF DeleteUnderflow, ChunkInv, VisibleReadable, PinInv, Needs, NoFault, ChunksOf,
     CallTypes, Goto, Answer, storeVars, fileVars, diskVars, lockVars
<1>18. ASSUME NEW p \in Clients, DeleteIndex(p) PROVE ChunkInv'
  BY <1>18 DEF DeleteIndex, ChunkInv, VisibleReadable, PinInv, Needs, NoFault, ChunksOf,
     CallTypes, Goto, fileVars, diskVars, lockVars, callVars
<1>19. ASSUME NEW p \in Clients, DeleteManifest(p) PROVE ChunkInv'
  <2>1. UNCHANGED faults \/ \E k \in FaultKinds : Fault(k)
    BY <1>19 DEF DeleteManifest
  <2>2. blobs \subseteq blobs'
    BY <1>19 DEF DeleteManifest
  <2>3. \A o \in Objects : idx'[o] > 0 =>
           \/ idx[o] > 0 /\ (o \in manifests => o \in manifests')
           \/ o \in manifests' /\ ChunksOf(o) \subseteq blobs'
    <3>1. InObject(p) /\ obj[p] \in Objects
      BY <1>19, OwnLock DEF DeleteManifest, InObject, Typing, TypeOK
    <3>2. idx[obj[p]] = Record(p)
      BY <3>1 DEF RecordInv
    <3>3. idx[obj[p]] = 0
      BY <1>19, <3>2 DEF DeleteManifest, Record, SavePCs
    <3>4. idx' = idx /\ \A o \in manifests : o # obj[p] => o \in manifests'
      BY <1>19 DEF DeleteManifest, storeVars
    <3> QED BY <3>3, <3>4
  <2>4. \A q \in Clients : q # p =>
           pc'[q] = pc[q] /\ pos'[q] = pos[q] /\ obj'[q] = obj[q] /\ op'[q] = op[q]
    BY <1>19 DEF DeleteManifest, CallTypes, Goto, callVars
  <2>5. op'[p] = "put" \/ NoFault({"sub"})' => Needs(p)' \subseteq blobs'
    BY <1>19 DEF DeleteManifest, Needs, CallTypes, Goto, callVars, storeVars
  <2> QED BY <2>1, <2>2, <2>3, <2>4, <2>5, ChunkFrame DEF Typing, TypeOK
<1>20. ASSUME NEW p \in Clients, PersistMemory(p) PROVE ChunkInv'
  BY <1>20 DEF PersistMemory, ChunkInv, VisibleReadable, PinInv, Needs, NoFault, ChunksOf,
     CallTypes, Answer, AfterPersist, Goto, storeVars, fileVars, diskVars, lockVars
<1>21. ASSUME NEW p \in Clients, PersistIndex(p) PROVE ChunkInv'
  <2>1. UNCHANGED faults \/ \E k \in FaultKinds : Fault(k)
    BY <1>21 DEF PersistIndex, FaultKinds
  <2>2. blobs \subseteq blobs'
    BY <1>21 DEF PersistIndex, fileVars
  <2>3. \A o \in Objects : idx'[o] > 0 =>
           \/ idx[o] > 0 /\ (o \in manifests => o \in manifests')
           \/ o \in manifests' /\ ChunksOf(o) \subseteq blobs'
    BY <1>21 DEF PersistIndex, storeVars, fileVars
  <2>4. \A q \in Clients : q # p =>
           pc'[q] = pc[q] /\ pos'[q] = pos[q] /\ obj'[q] = obj[q] /\ op'[q] = op[q]
    BY <1>21 DEF PersistIndex, CallTypes, Goto, callVars
  <2>5. op'[p] = "put" \/ NoFault({"sub"})' => Needs(p)' \subseteq blobs'
    BY <1>21 DEF PersistIndex, Needs, CallTypes, Goto, callVars, fileVars, storeVars
  <2> QED BY <2>1, <2>2, <2>3, <2>4, <2>5, ChunkFrame DEF Typing, TypeOK
<1>22. ASSUME NEW p \in Clients, PersistRefs(p) PROVE ChunkInv'
  <2>1. UNCHANGED faults \/ \E k \in FaultKinds : Fault(k)
    BY <1>22 DEF PersistRefs, FaultKinds
  <2>2. blobs \subseteq blobs'
    BY <1>22 DEF PersistRefs, fileVars
  <2>3. \A o \in Objects : idx'[o] > 0 =>
           \/ idx[o] > 0 /\ (o \in manifests => o \in manifests')
           \/ o \in manifests' /\ ChunksOf(o) \subseteq blobs'
    BY <1>22 DEF PersistRefs, storeVars, fileVars
  <2>4. \A q \in Clients : q # p =>
           pc'[q] = pc[q] /\ pos'[q] = pos[q] /\ obj'[q] = obj[q] /\ op'[q] = op[q]
    BY <1>22 DEF PersistRefs, CallTypes, Goto, callVars
  <2>5. op'[p] = "put" \/ NoFault({"sub"})' => Needs(p)' \subseteq blobs'
    BY <1>22 DEF PersistRefs, Needs, CallTypes, Goto, callVars, fileVars, storeVars
  <2> QED BY <2>1, <2>2, <2>3, <2>4, <2>5, ChunkFrame DEF Typing, TypeOK
<1>23. ASSUME NEW p \in Clients, PersistTruncate(p) PROVE ChunkInv'
  BY <1>23 DEF PersistTruncate, ChunkInv, VisibleReadable, PinInv, Needs, NoFault, ChunksOf,
     CallTypes, Answer, AfterPersist, Goto, storeVars, fileVars
<1>24. ASSUME NEW p \in Clients, GetLookup(p) PROVE ChunkInv'
  <2>1. UNCHANGED faults \/ \E k \in FaultKinds : Fault(k)
    BY <1>24 DEF GetLookup
  <2>2. blobs \subseteq blobs'
    BY <1>24 DEF GetLookup, fileVars
  <2>3. \A o \in Objects : idx'[o] > 0 =>
           \/ idx[o] > 0 /\ (o \in manifests => o \in manifests')
           \/ o \in manifests' /\ ChunksOf(o) \subseteq blobs'
    BY <1>24 DEF GetLookup, storeVars, fileVars
  <2>4. \A q \in Clients : q # p =>
           pc'[q] = pc[q] /\ pos'[q] = pos[q] /\ obj'[q] = obj[q] /\ op'[q] = op[q]
    BY <1>24 DEF GetLookup, CallTypes, Goto
  <2>5. op'[p] = "put" \/ NoFault({"sub"})' => Needs(p)' \subseteq blobs'
    <3>1. CASE idx[obj[p]] > 0
      <4>1. pc'[p] = "get_load" /\ obj'[p] = obj[p] /\ obj[p] \in Objects /\ op'[p] = "get"
        BY <1>24, <3>1 DEF GetLookup, CallTypes, CallInv, GetPCs, Goto
      <4>2. Needs(p)' = ChunksOf(obj[p])
        BY <4>1 DEF Needs, ChunksOf
      <4>3. NoFault({"sub"})' => NoFault({"sub"})
        BY <2>1, FaultsGrow DEF StoreTypes
      <4> QED BY <2>2, <3>1, <4>1, <4>2, <4>3 DEF ChunkInv, VisibleReadable
    <3>2. CASE ~(idx[obj[p]] > 0)
      BY <1>24, <3>2 DEF GetLookup, Goto, Needs, CallTypes
    <3> QED BY <3>1, <3>2
  <2> QED BY <2>1, <2>2, <2>3, <2>4, <2>5, ChunkFrame DEF Typing, TypeOK
<1>25. ASSUME NEW p \in Clients, GetLoad(p) PROVE ChunkInv'
  <2>1. UNCHANGED faults \/ \E k \in FaultKinds : Fault(k)
    BY <1>25 DEF GetLoad
  <2>2. blobs \subseteq blobs'
    BY <1>25 DEF GetLoad, fileVars
  <2>3. \A o \in Objects : idx'[o] > 0 =>
           \/ idx[o] > 0 /\ (o \in manifests => o \in manifests')
           \/ o \in manifests' /\ ChunksOf(o) \subseteq blobs'
    BY <1>25 DEF GetLoad, storeVars, fileVars
  <2>4. \A q \in Clients : q # p =>
           pc'[q] = pc[q] /\ pos'[q] = pos[q] /\ obj'[q] = obj[q] /\ op'[q] = op[q]
    BY <1>25 DEF GetLoad, CallTypes, Goto
  <2>5. op'[p] = "put" \/ NoFault({"sub"})' => Needs(p)' \subseteq blobs'
    <3>1. op'[p] = "get" /\ op[p] = "get"
      BY <1>25 DEF GetLoad, CallInv, GetPCs
    <3>2. NoFault({"sub"})' => Needs(p) \subseteq blobs
      BY <2>1, FaultsGrow DEF StoreTypes, ChunkInv, PinInv
    <3>3. Needs(p)' \subseteq Needs(p)
      BY <1>25 DEF GetLoad, Needs, ChunksOf, CallTypes, Goto
    <3> QED BY <2>2, <3>1, <3>2, <3>3
  <2> QED BY <2>1, <2>2, <2>3, <2>4, <2>5, ChunkFrame DEF Typing, TypeOK
<1>26. ASSUME NEW p \in Clients, ReadChunk(p) PROVE ChunkInv'
  <2>1. UNCHANGED faults \/ \E k \in FaultKinds : Fault(k)
    BY <1>26 DEF ReadChunk
  <2>2. blobs \subseteq blobs'
    BY <1>26 DEF ReadChunk, fileVars
  <2>3. \A o \in Objects : idx'[o] > 0 =>
           \/ idx[o] > 0 /\ (o \in manifests => o \in manifests')
           \/ o \in manifests' /\ ChunksOf(o) \subseteq blobs'
    BY <1>26 DEF ReadChunk, storeVars, fileVars
  <2>4. \A q \in Clients : q # p =>
           pc'[q] = pc[q] /\ pos'[q] = pos[q] /\ obj'[q] = obj[q] /\ op'[q] = op[q]
    BY <1>26 DEF ReadChunk, CallTypes
  <2>5. op'[p] = "put" \/ NoFault({"sub"})' => Needs(p)' \subseteq blobs'
    <3>1. op'[p] = "get" /\ op[p] = "get"
      BY <1>26 DEF ReadChunk, CallInv, GetPCs
    <3>2. NoFault({"sub"})' => Needs(p) \subseteq blobs
      BY <2>1, FaultsGrow DEF StoreTypes, ChunkInv, PinInv
    <3>3. Needs(p)' \subseteq Needs(p)
      BY <1>26 DEF ReadChunk, Needs, ChunksOf, CallTypes
    <3> QED BY <2>2, <3>1, <3>2, <3>3
  <2> QED BY <2>1, <2>2, <2>3, <2>4, <2>5, ChunkFrame DEF Typing, TypeOK
<1>27. ASSUME NEW p \in Clients, CloseReader(p) PROVE ChunkInv'
  BY <1>27 DEF CloseReader, ChunkInv, VisibleReadable, PinInv, Needs, NoFault, ChunksOf,
     CallTypes, Goto, Answer, storeVars, fileVars, diskVars, lockVars
<1>28. ASSUME NEW p \in Clients, WLockAnnounce(p) PROVE ChunkInv'
  BY <1>28 DEF WLockAnnounce, ChunkInv, VisibleReadable, PinInv, Needs, NoFault, ChunksOf,
     CallTypes, Goto, storeVars, fileVars, diskVars, callVars
<1>29. ASSUME NEW p \in Clients, WLockClosed(p) PROVE ChunkInv'
  BY <1>29 DEF WLockClosed, ChunkInv, VisibleReadable, PinInv, Needs, NoFault, ChunksOf,
     CallTypes, Goto, Answer, storeVars, fileVars, diskVars, lockVars
<1>30. ASSUME NEW p \in Clients, GCBegin(p) PROVE ChunkInv'
  BY <1>30 DEF GCBegin, ChunkInv, VisibleReadable, PinInv, Needs, NoFault, ChunksOf,
     CallTypes, Goto, storeVars, fileVars, diskVars, lockVars, callVars
<1>31. ASSUME NEW p \in Clients, GCSweep(p) PROVE ChunkInv'
  <2>1. PICK c \in todo : blobs' = IF refs[c] > 0 THEN blobs ELSE blobs \ {c}
    BY <1>31 DEF GCSweep
  <2>2. pc[p] = "sweep" /\ pc' = pc /\ idx' = idx /\ manifests' = manifests /\ faults' = faults
    BY <1>31 DEF GCSweep, storeVars
  <2>3. \A o \in Objects : NoFault({"sub"}) /\ idx[o] > 0 => o \in manifests /\ ChunksOf(o) \subseteq blobs'
    <3> SUFFICES ASSUME NEW o \in Objects, NoFault({"sub"}), idx[o] > 0
                 PROVE  o \in manifests /\ ChunksOf(o) \subseteq blobs'
      OBVIOUS
    <3>1. o \in manifests /\ ChunksOf(o) \subseteq blobs
      BY DEF ChunkInv, VisibleReadable
    <3>2. \A d \in ChunksOf(o) : refs[d] > 0
      BY <2>2, SweepSpares DEF Typing, TypeOK
    <3> QED BY <2>1, <3>1, <3>2
  <2>4. VisibleReadable'
    BY <2>2, <2>3 DEF VisibleReadable, NoFault, ChunksOf
  <2>5. \A q \in Clients : pc[q] \notin {"get_load", "reading", "put_chunks", "put_bump", "put_man", "put_refs"}
    BY <2>2, SweepAlone DEF InShared, PutPCs, GetPCs, Typing, TypeOK
  <2>6. PinInv'
    BY <2>2, <2>5 DEF PinInv, Needs
  <2> QED BY <2>4, <2>6 DEF ChunkInv
<1>32. ASSUME NEW p \in Clients, GCEnd(p) PROVE ChunkInv'
  BY <1>32 DEF GCEnd, ChunkInv, VisibleReadable, PinInv, Needs, NoFault, ChunksOf,
     CallTypes, Goto, storeVars, fileVars, diskVars, lockVars, callVars
<1>33. ASSUME NEW p \in Clients, CloseBegin(p) PROVE ChunkInv'
  BY <1>33 DEF CloseBegin, ChunkInv, VisibleReadable, PinInv, Needs, NoFault, ChunksOf,
     CallTypes, Goto, fileVars, diskVars, lockVars, callVars
<1>34. ASSUME NEW p \in Clients, WUnlock(p) PROVE ChunkInv'
  BY <1>34 DEF WUnlock, ChunkInv, VisibleReadable, PinInv, Needs, NoFault, ChunksOf,
     CallTypes, Answer, storeVars, fileVars, diskVars
<1>35. ASSUME NEW p \in Clients, CallFail(p) PROVE ChunkInv'
  BY <1>35 DEF CallFail, ChunkInv, VisibleReadable, PinInv, Needs, NoFault, ChunksOf,
     CallTypes, Goto, Answer, storeVars, fileVars, diskVars, lockVars
<1>36. ASSUME NEW p \in Clients, PutAddRefFail(p) PROVE ChunkInv'
  <2>1. UNCHANGED faults \/ \E k \in FaultKinds : Fault(k)
    BY <1>36 DEF PutAddRefFail, FaultKinds
  <2>2. blobs \subseteq blobs'
    BY <1>36 DEF PutAddRefFail, fileVars
  <2>3. \A o \in Objects : idx'[o] > 0 =>
           \/ idx[o] > 0 /\ (o \in manifests => o \in manifests')
           \/ o \in manifests' /\ ChunksOf(o) \subseteq blobs'
    BY <1>36 DEF PutAddRefFail, storeVars, fileVars
  <2>4. \A q \in Clients : q # p =>
           pc'[q] = pc[q] /\ pos'[q] = pos[q] /\ obj'[q] = obj[q] /\ op'[q] = op[q]
    BY <1>36 DEF PutAddRefFail, CallTypes, Goto
  <2>5. op'[p] = "put" \/ NoFault({"sub"})' => Needs(p)' \subseteq blobs'
    BY <1>36 DEF PutAddRefFail, Needs, CallTypes, Goto, fileVars, storeVars
  <2> QED BY <2>1, <2>2, <2>3, <2>4, <2>5, ChunkFrame DEF Typing, TypeOK
<1>37. ASSUME NEW p \in Clients, DeleteSubRefFail(p) PROVE ChunkInv'
  <2>1. UNCHANGED faults \/ \E k \in FaultKinds : Fault(k)
    BY <1>37 DEF DeleteSubRefFail, FaultKinds
  <2>2. blobs \subseteq blobs'
    BY <1>37 DEF DeleteSubRefFail, fileVars
  <2>3. \A o \in Objects : idx'[o] > 0 =>
           \/ idx[o] > 0 /\ (o \in manifests => o \in manifests')
           \/ o \in manifests' /\ ChunksOf(o) \subseteq blobs'
    BY <1>37 DEF DeleteSubRefFail, storeVars, fileVars
  <2>4. \A q \in Clients : q # p =>
           pc'[q] = pc[q] /\ pos'[q] = pos[q] /\ obj'[q] = obj[q] /\ op'[q] = op[q]
    BY <1>37 DEF DeleteSubRefFail, CallTypes, Goto
  <2>5. op'[p] = "put" \/ NoFault({"sub"})' => Needs(p)' \subseteq blobs'
    BY <1>37 DEF DeleteSubRefFail, Needs, CallTypes, Goto, fileVars, storeVars
  <2> QED BY <2>1, <2>2, <2>3, <2>4, <2>5, ChunkFrame DEF Typing, TypeOK
<1>38. ASSUME NEW p \in Clients, DeleteManifestFail(p) PROVE ChunkInv'
  <2>1. UNCHANGED faults \/ \E k \in FaultKinds : Fault(k)
    BY <1>38 DEF DeleteManifestFail, FaultKinds
  <2>2. blobs \subseteq blobs'
    BY <1>38 DEF DeleteManifestFail, fileVars
  <2>3. \A o \in Objects : idx'[o] > 0 =>
           \/ idx[o] > 0 /\ (o \in manifests => o \in manifests')
           \/ o \in manifests' /\ ChunksOf(o) \subseteq blobs'
    BY <1>38 DEF DeleteManifestFail, storeVars, fileVars
  <2>4. \A q \in Clients : q # p =>
           pc'[q] = pc[q] /\ pos'[q] = pos[q] /\ obj'[q] = obj[q] /\ op'[q] = op[q]
    BY <1>38 DEF DeleteManifestFail, CallTypes, Goto
  <2>5. op'[p] = "put" \/ NoFault({"sub"})' => Needs(p)' \subseteq blobs'
    BY <1>38 DEF DeleteManifestFail, Needs, CallTypes, Goto, fileVars, storeVars
  <2> QED BY <2>1, <2>2, <2>3, <2>4, <2>5, ChunkFrame DEF Typing, TypeOK
<1>39. ASSUME NEW p \in Clients, PersistFail(p) PROVE ChunkInv'
  <2>1. UNCHANGED faults \/ \E k \in FaultKinds : Fault(k)
    BY <1>39 DEF PersistFail, FaultKinds
  <2>2. blobs \subseteq blobs'
    BY <1>39 DEF PersistFail, fileVars
  <2>3. \A o \in Objects : idx'[o] > 0 =>
           \/ idx[o] > 0 /\ (o \in manifests => o \in manifests')
           \/ o \in manifests' /\ ChunksOf(o) \subseteq blobs'
    BY <1>39 DEF PersistFail, storeVars, fileVars
  <2>4. \A q \in Clients : q # p =>
           pc'[q] = pc[q] /\ pos'[q] = pos[q] /\ obj'[q] = obj[q] /\ op'[q] = op[q]
    BY <1>39 DEF PersistFail, CallTypes, Goto, AfterPersist
  <2>5. op'[p] = "put" \/ NoFault({"sub"})' => Needs(p)' \subseteq blobs'
    BY <1>39 DEF PersistFail, Needs, CallTypes, Goto, AfterPersist, fileVars, storeVars
  <2> QED BY <2>1, <2>2, <2>3, <2>4, <2>5, ChunkFrame DEF Typing, TypeOK
<1>40. ASSUME NEW p \in Clients, GCFail(p) PROVE ChunkInv'
  BY <1>40 DEF GCFail, ChunkInv, VisibleReadable, PinInv, Needs, NoFault, ChunksOf,
     CallTypes, Goto, Answer, storeVars, fileVars, diskVars, lockVars
<1>41. ASSUME NEW p \in Clients, GCSkip(p) PROVE ChunkInv'
  <2>1. UNCHANGED faults \/ \E k \in FaultKinds : Fault(k)
    BY <1>41 DEF GCSkip, FaultKinds
  <2>2. blobs \subseteq blobs'
    BY <1>41 DEF GCSkip, fileVars
  <2>3. \A o \in Objects : idx'[o] > 0 =>
           \/ idx[o] > 0 /\ (o \in manifests => o \in manifests')
           \/ o \in manifests' /\ ChunksOf(o) \subseteq blobs'
    BY <1>41 DEF GCSkip, storeVars, fileVars
  <2>4. \A q \in Clients : q # p =>
           pc'[q] = pc[q] /\ pos'[q] = pos[q] /\ obj'[q] = obj[q] /\ op'[q] = op[q]
    BY <1>41 DEF GCSkip, CallTypes, callVars
  <2>5. op'[p] = "put" \/ NoFault({"sub"})' => Needs(p)' \subseteq blobs'
    BY <1>41 DEF GCSkip, Needs, CallTypes, callVars, fileVars, storeVars
  <2> QED BY <2>1, <2>2, <2>3, <2>4, <2>5, ChunkFrame DEF Typing, TypeOK
<1>42. CASE UNCHANGED vars
    BY <1>42 DEF vars, storeVars, fileVars, callVars, ChunkInv, VisibleReadable, PinInv,
       Needs, NoFault, ChunksOf
<1> QED BY <1>1, <1>2, <1>3, <1>4, <1>5, <1>6, <1>7, <1>8, <1>9, <1>10, <1>11, <1>12, <1>13,
   <1>14, <1>15, <1>16, <1>17, <1>18, <1>19, <1>20, <1>21, <1>22, <1>23, <1>24, <1>25,
   <1>26, <1>27, <1>28, <1>29, <1>30, <1>31, <1>32, <1>33, <1>34, <1>35, <1>36, <1>37,
   <1>38, <1>39, <1>40, <1>41, <1>42 DEF Next, Call, Step, Failure, PutStep, DeleteStep,
   PersistStep, PersistBegin, GetStep, ExclStep

-----------------------------------------------------------------------------
(* GC: what it sweeps and what it leaves *)

\* A GC keeps its progress whoever steps: only calls under the read lock, or
\* the one writer, change chunks, counts and what is left to visit.
LEMMA SweepFrame ==
    ASSUME Typing, FenceInv, SweepInv, NEW p \in Clients,
           NoFault({"fetch"})' => NoFault({"fetch"}),
           \/ UNCHANGED <<blobs, refs, todo>>
           \/ InShared(p) \/ pc[p] = "wwait" \/ Exclusive(p),
           \A q \in Clients : q # p => \/ pc'[q] = pc[q] /\ op'[q] = op[q]
                                       \/ pc'[q] \notin SavePCs \cup {"sweep"},
           NoFault({"fetch"})' /\ op'[p] \in {"gc", "autogc"} =>
               /\ pc'[p] = "sweep" => \A c \in blobs' \ todo' : refs'[c] > 0
               /\ pc'[p] \in SavePCs => \A c \in blobs' : refs'[c] > 0
    PROVE  SweepInv'
<1> SUFFICES ASSUME NoFault({"fetch"})', NEW q \in Clients, q # p, op'[q] \in {"gc", "autogc"},
                    pc'[q] \in SavePCs \cup {"sweep"}
             PROVE  /\ pc'[q] = "sweep" => \A c \in blobs' \ todo' : refs'[c] > 0
                    /\ pc'[q] \in SavePCs => \A c \in blobs' : refs'[c] > 0
  BY DEF SweepInv
<1>1. pc'[q] = pc[q] /\ op'[q] = op[q]
  OBVIOUS
<1>2. Exclusive(q)
  BY <1>1 DEF Exclusive, ExclOps
<1>3. UNCHANGED <<blobs, refs, todo>>
  BY <1>2 DEF FenceInv
<1> QED BY <1>1, <1>3 DEF SweepInv

\* Every step keeps SweepInv.
LEMMA SweepStep == Typing /\ FenceInv /\ SweepInv /\ [Next]_vars => SweepInv'
<1> SUFFICES ASSUME Typing, FenceInv, SweepInv, [Next]_vars
             PROVE  SweepInv'
  OBVIOUS
<1> USE DEF Typing, TypeOK
<1>1. ASSUME NEW p \in Clients, CallShared(p) PROVE SweepInv'
  BY <1>1 DEF CallShared, SweepInv, NoFault, CallTypes, CallInv, FencePCs, PutPCs,
     DeletePCs, GetPCs, SavePCs, ExclPCs, SharedOps, ExclOps, Goto, storeVars, fileVars,
     diskVars, lockVars
<1>2. ASSUME NEW p \in Clients, CallExclusive(p) PROVE SweepInv'
  BY <1>2 DEF CallExclusive, SweepInv, NoFault, CallTypes, CallInv, FencePCs, PutPCs,
     DeletePCs, GetPCs, SavePCs, ExclPCs, SharedOps, ExclOps, Goto, storeVars, fileVars,
     diskVars, lockVars
<1>3. ASSUME NEW p \in Clients, RLock(p) PROVE SweepInv'
  BY <1>3 DEF RLock, SweepInv, NoFault, CallTypes, CallInv, FencePCs, PutPCs, DeletePCs,
     GetPCs, SavePCs, ExclPCs, SharedOps, ExclOps, Goto, storeVars, fileVars, diskVars,
     callVars
<1>4. ASSUME NEW p \in Clients, EnterClosed(p) PROVE SweepInv'
  BY <1>4 DEF EnterClosed, SweepInv, NoFault, CallTypes, CallInv, FencePCs, PutPCs,
     DeletePCs, GetPCs, SavePCs, ExclPCs, SharedOps, ExclOps, Goto, Answer, storeVars,
     fileVars, diskVars, lockVars
<1>5. ASSUME NEW p \in Clients, Enter(p) PROVE SweepInv'
  BY <1>5 DEF Enter, SweepInv, NoFault, CallTypes, CallInv, FencePCs, PutPCs, DeletePCs,
     GetPCs, SavePCs, ExclPCs, SharedOps, ExclOps, Goto, storeVars, fileVars, diskVars,
     lockVars
<1>6. ASSUME NEW p \in Clients, Finish(p) PROVE SweepInv'
  <2>1. UNCHANGED <<blobs, refs, todo>>
    BY <1>6 DEF Finish, storeVars, fileVars
  <2>2. \A q \in Clients : q # p => \/ pc'[q] = pc[q] /\ op'[q] = op[q]
                                    \/ pc'[q] \notin SavePCs \cup {"sweep"}
    BY <1>6 DEF Finish, CallTypes, SavePCs, Goto
  <2>4. NoFault({"fetch"})' => NoFault({"fetch"})
    BY <1>6 DEF Finish, NoFault
  <2>3. NoFault({"fetch"})' /\ op'[p] \in {"gc", "autogc"} =>
           /\ pc'[p] = "sweep" => \A c \in blobs' \ todo' : refs'[c] > 0
           /\ pc'[p] \in SavePCs => \A c \in blobs' : refs'[c] > 0
    BY <1>6, <2>4 DEF Finish, SweepInv, CallTypes, CallInv, PutPCs, DeletePCs, GetPCs,
       FencePCs, SavePCs, SharedOps, ExclPCs, Goto, fileVars, storeVars
  <2> QED BY <2>1, <2>2, <2>3, <2>4, SweepFrame DEF Typing, TypeOK
<1>7. ASSUME NEW p \in Clients, PutChunk(p) PROVE SweepInv'
  <2>1. InShared(p) \/ pc[p] = "wwait" \/ Exclusive(p)
    BY <1>7 DEF PutChunk, InShared, Exclusive, CallInv, PutPCs, DeletePCs, ExclPCs
  <2>2. \A q \in Clients : q # p => \/ pc'[q] = pc[q] /\ op'[q] = op[q]
                                    \/ pc'[q] \notin SavePCs \cup {"sweep"}
    BY <1>7 DEF PutChunk, CallTypes, SavePCs
  <2>4. NoFault({"fetch"})' => NoFault({"fetch"})
    BY <1>7 DEF PutChunk, NoFault
  <2>3. NoFault({"fetch"})' /\ op'[p] \in {"gc", "autogc"} =>
           /\ pc'[p] = "sweep" => \A c \in blobs' \ todo' : refs'[c] > 0
           /\ pc'[p] \in SavePCs => \A c \in blobs' : refs'[c] > 0
    BY <1>7, <2>4 DEF PutChunk, SweepInv, CallTypes, CallInv, PutPCs, DeletePCs, GetPCs,
       FencePCs, SavePCs, SharedOps, ExclPCs, storeVars
  <2> QED BY <2>1, <2>2, <2>3, <2>4, SweepFrame DEF Typing, TypeOK
<1>8. ASSUME NEW p \in Clients, PutLock(p) PROVE SweepInv'
  BY <1>8 DEF PutLock, SweepInv, NoFault, CallTypes, CallInv, FencePCs, PutPCs, DeletePCs,
     GetPCs, SavePCs, ExclPCs, SharedOps, ExclOps, Goto, storeVars, fileVars, diskVars
<1>9. ASSUME NEW p \in Clients, PutBump(p) PROVE SweepInv'
  BY <1>9 DEF PutBump, SweepInv, NoFault, CallTypes, CallInv, FencePCs, PutPCs, DeletePCs,
     GetPCs, SavePCs, ExclPCs, SharedOps, ExclOps, Goto, fileVars, diskVars, lockVars,
     callVars
<1>10. ASSUME NEW p \in Clients, PutUndo(p) PROVE SweepInv'
  BY <1>10 DEF PutUndo, SweepInv, NoFault, CallTypes, CallInv, FencePCs, PutPCs, DeletePCs,
     GetPCs, SavePCs, ExclPCs, SharedOps, ExclOps, Goto, fileVars, diskVars, lockVars,
     callVars
<1>11. ASSUME NEW p \in Clients, PutManifest(p) PROVE SweepInv'
  BY <1>11 DEF PutManifest, SweepInv, NoFault, CallTypes, CallInv, FencePCs, PutPCs,
     DeletePCs, GetPCs, SavePCs, ExclPCs, SharedOps, ExclOps, Goto, storeVars, diskVars,
     lockVars
<1>12. ASSUME NEW p \in Clients, PutAddRef(p) PROVE SweepInv'
  <2>1. InShared(p) \/ pc[p] = "wwait" \/ Exclusive(p)
    BY <1>12 DEF PutAddRef, InShared, Exclusive, CallInv, PutPCs, DeletePCs, ExclPCs
  <2>2. \A q \in Clients : q # p => \/ pc'[q] = pc[q] /\ op'[q] = op[q]
                                    \/ pc'[q] \notin SavePCs \cup {"sweep"}
    BY <1>12 DEF PutAddRef, CallTypes, SavePCs
  <2>4. NoFault({"fetch"})' => NoFault({"fetch"})
    BY <1>12 DEF PutAddRef, NoFault
  <2>3. NoFault({"fetch"})' /\ op'[p] \in {"gc", "autogc"} =>
           /\ pc'[p] = "sweep" => \A c \in blobs' \ todo' : refs'[c] > 0
           /\ pc'[p] \in SavePCs => \A c \in blobs' : refs'[c] > 0
    BY <1>12, <2>4 DEF PutAddRef, SweepInv, CallTypes, CallInv, PutPCs, DeletePCs, GetPCs,
       FencePCs, SavePCs, SharedOps, ExclPCs, fileVars
  <2> QED BY <2>1, <2>2, <2>3, <2>4, SweepFrame DEF Typing, TypeOK
<1>13. ASSUME NEW p \in Clients, PutIndex(p) PROVE SweepInv'
  BY <1>13 DEF PutIndex, SweepInv, NoFault, CallTypes, CallInv, FencePCs, PutPCs, DeletePCs,
     GetPCs, SavePCs, ExclPCs, SharedOps, ExclOps, Goto, fileVars, diskVars, lockVars,
     callVars
<1>14. ASSUME NEW p \in Clients, DeleteLock(p) PROVE SweepInv'
  BY <1>14 DEF DeleteLock, SweepInv, NoFault, CallTypes, CallInv, FencePCs, PutPCs,
     DeletePCs, GetPCs, SavePCs, ExclPCs, SharedOps, ExclOps, Goto, Answer, storeVars,
     fileVars, diskVars
<1>15. ASSUME NEW p \in Clients, DeleteDec(p) PROVE SweepInv'
  BY <1>15 DEF DeleteDec, SweepInv, NoFault, CallTypes, CallInv, FencePCs, PutPCs,
     DeletePCs, GetPCs, SavePCs, ExclPCs, SharedOps, ExclOps, Goto, fileVars, diskVars,
     lockVars, callVars
<1>16. ASSUME NEW p \in Clients, DeleteSubRef(p) PROVE SweepInv'
  <2>1. InShared(p) \/ pc[p] = "wwait" \/ Exclusive(p)
    BY <1>16 DEF DeleteSubRef, InShared, Exclusive, CallInv, PutPCs, DeletePCs, ExclPCs
  <2>2. \A q \in Clients : q # p => \/ pc'[q] = pc[q] /\ op'[q] = op[q]
                                    \/ pc'[q] \notin SavePCs \cup {"sweep"}
    BY <1>16 DEF DeleteSubRef, CallTypes, SavePCs
  <2>4. NoFault({"fetch"})' => NoFault({"fetch"})
    BY <1>16 DEF DeleteSubRef, NoFault
  <2>3. NoFault({"fetch"})' /\ op'[p] \in {"gc", "autogc"} =>
           /\ pc'[p] = "sweep" => \A c \in blobs' \ todo' : refs'[c] > 0
           /\ pc'[p] \in SavePCs => \A c \in blobs' : refs'[c] > 0
    BY <1>16, <2>4 DEF DeleteSubRef, SweepInv, CallTypes, CallInv, PutPCs, DeletePCs,
       GetPCs, FencePCs, SavePCs, SharedOps, ExclPCs, fileVars
  <2> QED BY <2>1, <2>2, <2>3, <2>4, SweepFrame DEF Typing, TypeOK
<1>17. ASSUME NEW p \in Clients, DeleteUnderflow(p) PROVE SweepInv'
  BY <1>17 DEF DeleteUnderflow, SweepInv, NoFault, CallTypes, CallInv, FencePCs, PutPCs,
     DeletePCs, GetPCs, SavePCs, ExclPCs, SharedOps, ExclOps, Goto, Answer, storeVars,
     fileVars, diskVars, lockVars
<1>18. ASSUME NEW p \in Clients, DeleteIndex(p) PROVE SweepInv'
  BY <1>18 DEF DeleteIndex, SweepInv, NoFault, CallTypes, CallInv, FencePCs, PutPCs,
     DeletePCs, GetPCs, SavePCs, ExclPCs, SharedOps, ExclOps, Goto, fileVars, diskVars,
     lockVars, callVars
<1>19. ASSUME NEW p \in Clients, DeleteManifest(p) PROVE SweepInv'
  BY <1>19 DEF DeleteManifest, SweepInv, NoFault, CallTypes, CallInv, FencePCs, PutPCs,
     DeletePCs, GetPCs, SavePCs, ExclPCs, SharedOps, ExclOps, Goto, storeVars, diskVars,
     lockVars, callVars
<1>20. ASSUME NEW p \in Clients, PersistMemory(p) PROVE SweepInv'
  BY <1>20 DEF PersistMemory, SweepInv, NoFault, CallTypes, CallInv, FencePCs, PutPCs,
     DeletePCs, GetPCs, SavePCs, ExclPCs, SharedOps, ExclOps, Answer, AfterPersist, Goto,
     storeVars, fileVars, diskVars, lockVars
<1>21. ASSUME NEW p \in Clients, PersistIndex(p) PROVE SweepInv'
  <2>1. UNCHANGED <<blobs, refs, todo>>
    BY <1>21 DEF PersistIndex, storeVars, fileVars
  <2>2. \A q \in Clients : q # p => \/ pc'[q] = pc[q] /\ op'[q] = op[q]
                                    \/ pc'[q] \notin SavePCs \cup {"sweep"}
    BY <1>21 DEF PersistIndex, CallTypes, SavePCs, Goto, callVars
  <2>4. NoFault({"fetch"})' => NoFault({"fetch"})
    <3>1. UNCHANGED faults \/ \E k \in FaultKinds : Fault(k)
      BY <1>21 DEF PersistIndex, FaultKinds
    <3> QED BY <3>1, FaultsGrow DEF StoreTypes
  <2>3. NoFault({"fetch"})' /\ op'[p] \in {"gc", "autogc"} =>
           /\ pc'[p] = "sweep" => \A c \in blobs' \ todo' : refs'[c] > 0
           /\ pc'[p] \in SavePCs => \A c \in blobs' : refs'[c] > 0
    BY <1>21, <2>4 DEF PersistIndex, SweepInv, CallTypes, CallInv, PutPCs, DeletePCs,
       GetPCs, FencePCs, SavePCs, SharedOps, ExclPCs, Goto, callVars, fileVars, storeVars
  <2> QED BY <2>1, <2>2, <2>3, <2>4, SweepFrame DEF Typing, TypeOK
<1>22. ASSUME NEW p \in Clients, PersistRefs(p) PROVE SweepInv'
  <2>1. UNCHANGED <<blobs, refs, todo>>
    BY <1>22 DEF PersistRefs, storeVars, fileVars
  <2>2. \A q \in Clients : q # p => \/ pc'[q] = pc[q] /\ op'[q] = op[q]
                                    \/ pc'[q] \notin SavePCs \cup {"sweep"}
    BY <1>22 DEF PersistRefs, CallTypes, SavePCs, Goto, callVars
  <2>4. NoFault({"fetch"})' => NoFault({"fetch"})
    <3>1. UNCHANGED faults \/ \E k \in FaultKinds : Fault(k)
      BY <1>22 DEF PersistRefs, FaultKinds
    <3> QED BY <3>1, FaultsGrow DEF StoreTypes
  <2>3. NoFault({"fetch"})' /\ op'[p] \in {"gc", "autogc"} =>
           /\ pc'[p] = "sweep" => \A c \in blobs' \ todo' : refs'[c] > 0
           /\ pc'[p] \in SavePCs => \A c \in blobs' : refs'[c] > 0
    BY <1>22, <2>4 DEF PersistRefs, SweepInv, CallTypes, CallInv, PutPCs, DeletePCs, GetPCs,
       FencePCs, SavePCs, SharedOps, ExclPCs, Goto, callVars, fileVars, storeVars
  <2> QED BY <2>1, <2>2, <2>3, <2>4, SweepFrame DEF Typing, TypeOK
<1>23. ASSUME NEW p \in Clients, PersistTruncate(p) PROVE SweepInv'
  BY <1>23 DEF PersistTruncate, SweepInv, NoFault, CallTypes, CallInv, FencePCs, PutPCs,
     DeletePCs, GetPCs, SavePCs, ExclPCs, SharedOps, ExclOps, Answer, AfterPersist, Goto,
     storeVars, fileVars
<1>24. ASSUME NEW p \in Clients, GetLookup(p) PROVE SweepInv'
  <2>1. UNCHANGED <<blobs, refs, todo>>
    BY <1>24 DEF GetLookup, storeVars, fileVars
  <2>2. \A q \in Clients : q # p => \/ pc'[q] = pc[q] /\ op'[q] = op[q]
                                    \/ pc'[q] \notin SavePCs \cup {"sweep"}
    BY <1>24 DEF GetLookup, CallTypes, SavePCs, Goto
  <2>4. NoFault({"fetch"})' => NoFault({"fetch"})
    BY <1>24 DEF GetLookup, NoFault
  <2>3. NoFault({"fetch"})' /\ op'[p] \in {"gc", "autogc"} =>
           /\ pc'[p] = "sweep" => \A c \in blobs' \ todo' : refs'[c] > 0
           /\ pc'[p] \in SavePCs => \A c \in blobs' : refs'[c] > 0
    BY <1>24, <2>4 DEF GetLookup, SweepInv, CallTypes, CallInv, PutPCs, DeletePCs, GetPCs,
       FencePCs, SavePCs, SharedOps, ExclPCs, Goto, fileVars, storeVars
  <2> QED BY <2>1, <2>2, <2>3, <2>4, SweepFrame DEF Typing, TypeOK
<1>25. ASSUME NEW p \in Clients, GetLoad(p) PROVE SweepInv'
  <2>1. UNCHANGED <<blobs, refs, todo>>
    BY <1>25 DEF GetLoad, storeVars, fileVars
  <2>2. \A q \in Clients : q # p => \/ pc'[q] = pc[q] /\ op'[q] = op[q]
                                    \/ pc'[q] \notin SavePCs \cup {"sweep"}
    BY <1>25 DEF GetLoad, CallTypes, SavePCs, Goto
  <2>4. NoFault({"fetch"})' => NoFault({"fetch"})
    BY <1>25 DEF GetLoad, NoFault
  <2>3. NoFault({"fetch"})' /\ op'[p] \in {"gc", "autogc"} =>
           /\ pc'[p] = "sweep" => \A c \in blobs' \ todo' : refs'[c] > 0
           /\ pc'[p] \in SavePCs => \A c \in blobs' : refs'[c] > 0
    BY <1>25, <2>4 DEF GetLoad, SweepInv, CallTypes, CallInv, PutPCs, DeletePCs, GetPCs,
       FencePCs, SavePCs, SharedOps, ExclPCs, Goto, fileVars, storeVars
  <2> QED BY <2>1, <2>2, <2>3, <2>4, SweepFrame DEF Typing, TypeOK
<1>26. ASSUME NEW p \in Clients, ReadChunk(p) PROVE SweepInv'
  BY <1>26 DEF ReadChunk, SweepInv, NoFault, CallTypes, CallInv, FencePCs, PutPCs,
     DeletePCs, GetPCs, SavePCs, ExclPCs, SharedOps, ExclOps, Answer, storeVars, fileVars,
     diskVars, lockVars
<1>27. ASSUME NEW p \in Clients, CloseReader(p) PROVE SweepInv'
  BY <1>27 DEF CloseReader, SweepInv, NoFault, CallTypes, CallInv, FencePCs, PutPCs,
     DeletePCs, GetPCs, SavePCs, ExclPCs, SharedOps, ExclOps, Goto, Answer, storeVars,
     fileVars, diskVars, lockVars
<1>28. ASSUME NEW p \in Clients, WLockAnnounce(p) PROVE SweepInv'
  BY <1>28 DEF WLockAnnounce, SweepInv, NoFault, CallTypes, CallInv, FencePCs, PutPCs,
     DeletePCs, GetPCs, SavePCs, ExclPCs, SharedOps, ExclOps, Goto, storeVars, fileVars,
     diskVars, callVars
<1>29. ASSUME NEW p \in Clients, WLockClosed(p) PROVE SweepInv'
  BY <1>29 DEF WLockClosed, SweepInv, NoFault, CallTypes, CallInv, FencePCs, PutPCs,
     DeletePCs, GetPCs, SavePCs, ExclPCs, SharedOps, ExclOps, Goto, Answer, storeVars,
     fileVars, diskVars, lockVars
<1>30. ASSUME NEW p \in Clients, GCBegin(p) PROVE SweepInv'
  BY <1>30 DEF GCBegin, SweepInv, NoFault, CallTypes, CallInv, FencePCs, PutPCs, DeletePCs,
     GetPCs, SavePCs, ExclPCs, SharedOps, ExclOps, Goto, storeVars, fileVars, diskVars,
     lockVars, callVars
<1>31. ASSUME NEW p \in Clients, GCSweep(p) PROVE SweepInv'
  BY <1>31 DEF GCSweep, SweepInv, NoFault, CallTypes, CallInv, FencePCs, PutPCs, DeletePCs,
     GetPCs, SavePCs, ExclPCs, SharedOps, ExclOps, storeVars, diskVars, lockVars, callVars
<1>32. ASSUME NEW p \in Clients, GCEnd(p) PROVE SweepInv'
  BY <1>32 DEF GCEnd, SweepInv, NoFault, CallTypes, CallInv, FencePCs, PutPCs, DeletePCs,
     GetPCs, SavePCs, ExclPCs, SharedOps, ExclOps, Goto, storeVars, fileVars, diskVars,
     lockVars, callVars
<1>33. ASSUME NEW p \in Clients, CloseBegin(p) PROVE SweepInv'
  BY <1>33 DEF CloseBegin, SweepInv, NoFault, CallTypes, CallInv, FencePCs, PutPCs,
     DeletePCs, GetPCs, SavePCs, ExclPCs, SharedOps, ExclOps, Goto, fileVars, diskVars,
     lockVars, callVars
<1>34. ASSUME NEW p \in Clients, WUnlock(p) PROVE SweepInv'
  BY <1>34 DEF WUnlock, SweepInv, NoFault, CallTypes, CallInv, FencePCs, PutPCs, DeletePCs,
     GetPCs, SavePCs, ExclPCs, SharedOps, ExclOps, Answer, storeVars, fileVars, diskVars
<1>35. ASSUME NEW p \in Clients, CallFail(p) PROVE SweepInv'
  BY <1>35 DEF CallFail, SweepInv, NoFault, CallTypes, CallInv, FencePCs, PutPCs, DeletePCs,
     GetPCs, SavePCs, ExclPCs, SharedOps, ExclOps, Goto, Answer, storeVars, fileVars,
     diskVars, lockVars
<1>36. ASSUME NEW p \in Clients, PutAddRefFail(p) PROVE SweepInv'
  <2>1. UNCHANGED <<blobs, refs, todo>>
    BY <1>36 DEF PutAddRefFail, storeVars, fileVars
  <2>2. \A q \in Clients : q # p => \/ pc'[q] = pc[q] /\ op'[q] = op[q]
                                    \/ pc'[q] \notin SavePCs \cup {"sweep"}
    BY <1>36 DEF PutAddRefFail, CallTypes, SavePCs, Goto
  <2>4. NoFault({"fetch"})' => NoFault({"fetch"})
    <3>1. UNCHANGED faults \/ \E k \in FaultKinds : Fault(k)
      BY <1>36 DEF PutAddRefFail, FaultKinds
    <3> QED BY <3>1, FaultsGrow DEF StoreTypes
  <2>3. NoFault({"fetch"})' /\ op'[p] \in {"gc", "autogc"} =>
           /\ pc'[p] = "sweep" => \A c \in blobs' \ todo' : refs'[c] > 0
           /\ pc'[p] \in SavePCs => \A c \in blobs' : refs'[c] > 0
    BY <1>36, <2>4 DEF PutAddRefFail, SweepInv, CallTypes, CallInv, PutPCs, DeletePCs,
       GetPCs, FencePCs, SavePCs, SharedOps, ExclPCs, Goto, fileVars, storeVars
  <2> QED BY <2>1, <2>2, <2>3, <2>4, SweepFrame DEF Typing, TypeOK
<1>37. ASSUME NEW p \in Clients, DeleteSubRefFail(p) PROVE SweepInv'
  <2>1. UNCHANGED <<blobs, refs, todo>>
    BY <1>37 DEF DeleteSubRefFail, storeVars, fileVars
  <2>2. \A q \in Clients : q # p => \/ pc'[q] = pc[q] /\ op'[q] = op[q]
                                    \/ pc'[q] \notin SavePCs \cup {"sweep"}
    BY <1>37 DEF DeleteSubRefFail, CallTypes, SavePCs, Goto
  <2>4. NoFault({"fetch"})' => NoFault({"fetch"})
    <3>1. UNCHANGED faults \/ \E k \in FaultKinds : Fault(k)
      BY <1>37 DEF DeleteSubRefFail, FaultKinds
    <3> QED BY <3>1, FaultsGrow DEF StoreTypes
  <2>3. NoFault({"fetch"})' /\ op'[p] \in {"gc", "autogc"} =>
           /\ pc'[p] = "sweep" => \A c \in blobs' \ todo' : refs'[c] > 0
           /\ pc'[p] \in SavePCs => \A c \in blobs' : refs'[c] > 0
    BY <1>37, <2>4 DEF DeleteSubRefFail, SweepInv, CallTypes, CallInv, PutPCs, DeletePCs,
       GetPCs, FencePCs, SavePCs, SharedOps, ExclPCs, Goto, fileVars, storeVars
  <2> QED BY <2>1, <2>2, <2>3, <2>4, SweepFrame DEF Typing, TypeOK
<1>38. ASSUME NEW p \in Clients, DeleteManifestFail(p) PROVE SweepInv'
  <2>1. UNCHANGED <<blobs, refs, todo>>
    BY <1>38 DEF DeleteManifestFail, storeVars, fileVars
  <2>2. \A q \in Clients : q # p => \/ pc'[q] = pc[q] /\ op'[q] = op[q]
                                    \/ pc'[q] \notin SavePCs \cup {"sweep"}
    BY <1>38 DEF DeleteManifestFail, CallTypes, SavePCs, Goto
  <2>4. NoFault({"fetch"})' => NoFault({"fetch"})
    <3>1. UNCHANGED faults \/ \E k \in FaultKinds : Fault(k)
      BY <1>38 DEF DeleteManifestFail, FaultKinds
    <3> QED BY <3>1, FaultsGrow DEF StoreTypes
  <2>3. NoFault({"fetch"})' /\ op'[p] \in {"gc", "autogc"} =>
           /\ pc'[p] = "sweep" => \A c \in blobs' \ todo' : refs'[c] > 0
           /\ pc'[p] \in SavePCs => \A c \in blobs' : refs'[c] > 0
    BY <1>38, <2>4 DEF DeleteManifestFail, SweepInv, CallTypes, CallInv, PutPCs, DeletePCs,
       GetPCs, FencePCs, SavePCs, SharedOps, ExclPCs, Goto, fileVars, storeVars
  <2> QED BY <2>1, <2>2, <2>3, <2>4, SweepFrame DEF Typing, TypeOK
<1>39. ASSUME NEW p \in Clients, PersistFail(p) PROVE SweepInv'
  <2>1. UNCHANGED <<blobs, refs, todo>>
    BY <1>39 DEF PersistFail, storeVars, fileVars
  <2>2. \A q \in Clients : q # p => \/ pc'[q] = pc[q] /\ op'[q] = op[q]
                                    \/ pc'[q] \notin SavePCs \cup {"sweep"}
    BY <1>39 DEF PersistFail, CallTypes, SavePCs, Goto, AfterPersist
  <2>4. NoFault({"fetch"})' => NoFault({"fetch"})
    <3>1. UNCHANGED faults \/ \E k \in FaultKinds : Fault(k)
      BY <1>39 DEF PersistFail, FaultKinds
    <3> QED BY <3>1, FaultsGrow DEF StoreTypes
  <2>3. NoFault({"fetch"})' /\ op'[p] \in {"gc", "autogc"} =>
           /\ pc'[p] = "sweep" => \A c \in blobs' \ todo' : refs'[c] > 0
           /\ pc'[p] \in SavePCs => \A c \in blobs' : refs'[c] > 0
    BY <1>39, <2>4 DEF PersistFail, SweepInv, CallTypes, CallInv, PutPCs, DeletePCs, GetPCs,
       FencePCs, SavePCs, SharedOps, ExclPCs, Goto, AfterPersist, fileVars, storeVars
  <2> QED BY <2>1, <2>2, <2>3, <2>4, SweepFrame DEF Typing, TypeOK
<1>40. ASSUME NEW p \in Clients, GCFail(p) PROVE SweepInv'
  <2>1. InShared(p) \/ pc[p] = "wwait" \/ Exclusive(p)
    BY <1>40 DEF GCFail, InShared, Exclusive, CallInv, PutPCs, DeletePCs, ExclPCs
  <2>2. \A q \in Clients : q # p => \/ pc'[q] = pc[q] /\ op'[q] = op[q]
                                    \/ pc'[q] \notin SavePCs \cup {"sweep"}
    BY <1>40 DEF GCFail, CallTypes, SavePCs, Goto
  <2>4. NoFault({"fetch"})' => NoFault({"fetch"})
    BY <1>40 DEF GCFail, NoFault
  <2>3. NoFault({"fetch"})' /\ op'[p] \in {"gc", "autogc"} =>
           /\ pc'[p] = "sweep" => \A c \in blobs' \ todo' : refs'[c] > 0
           /\ pc'[p] \in SavePCs => \A c \in blobs' : refs'[c] > 0
    BY <1>40, <2>4 DEF GCFail, SweepInv, CallTypes, CallInv, PutPCs, DeletePCs, GetPCs,
       FencePCs, SavePCs, SharedOps, ExclPCs, Goto, fileVars, storeVars
  <2> QED BY <2>1, <2>2, <2>3, <2>4, SweepFrame DEF Typing, TypeOK
<1>41. ASSUME NEW p \in Clients, GCSkip(p) PROVE SweepInv'
  <2>1. InShared(p) \/ pc[p] = "wwait" \/ Exclusive(p)
    BY <1>41 DEF GCSkip, InShared, Exclusive, CallInv, PutPCs, DeletePCs, ExclPCs
  <2>2. \A q \in Clients : q # p => \/ pc'[q] = pc[q] /\ op'[q] = op[q]
                                    \/ pc'[q] \notin SavePCs \cup {"sweep"}
    BY <1>41 DEF GCSkip, CallTypes, SavePCs, callVars
  <2>4. NoFault({"fetch"})' => NoFault({"fetch"})
    <3>1. UNCHANGED faults \/ \E k \in FaultKinds : Fault(k)
      BY <1>41 DEF GCSkip, FaultKinds
    <3> QED BY <3>1, FaultsGrow DEF StoreTypes
  <2>3. NoFault({"fetch"})' /\ op'[p] \in {"gc", "autogc"} =>
           /\ pc'[p] = "sweep" => \A c \in blobs' \ todo' : refs'[c] > 0
           /\ pc'[p] \in SavePCs => \A c \in blobs' : refs'[c] > 0
    <3>1. faults' = Append(faults, "fetch")
      BY <1>41 DEF GCSkip, Fault
    <3> QED BY <3>1, FaultSeen DEF StoreTypes
  <2> QED BY <2>1, <2>2, <2>3, <2>4, SweepFrame DEF Typing, TypeOK
<1>42. CASE UNCHANGED vars
    BY <1>42 DEF vars, storeVars, fileVars, callVars, SweepInv, NoFault
<1> QED BY <1>1, <1>2, <1>3, <1>4, <1>5, <1>6, <1>7, <1>8, <1>9, <1>10, <1>11, <1>12, <1>13,
   <1>14, <1>15, <1>16, <1>17, <1>18, <1>19, <1>20, <1>21, <1>22, <1>23, <1>24, <1>25,
   <1>26, <1>27, <1>28, <1>29, <1>30, <1>31, <1>32, <1>33, <1>34, <1>35, <1>36, <1>37,
   <1>38, <1>39, <1>40, <1>41, <1>42 DEF Next, Call, Step, Failure, PutStep, DeleteStep,
   PersistStep, PersistBegin, GetStep, ExclStep

\* Every step keeps open readers served.
LEMMA ReadStep == Typing /\ ChunkInv /\ ReadInv /\ [Next]_vars => ReadInv'
<1> SUFFICES ASSUME Typing, ChunkInv, ReadInv, [Next]_vars
             PROVE  ReadInv'
  OBVIOUS
<1> USE DEF Typing, TypeOK
<1>1. ASSUME NEW p \in Clients, CallShared(p) PROVE ReadInv'
  BY <1>1 DEF CallShared, ReadInv, NoFault, CallTypes, CallInv, FencePCs, PutPCs, DeletePCs,
     GetPCs, SavePCs, ExclPCs, Goto, storeVars, fileVars, diskVars, lockVars
<1>2. ASSUME NEW p \in Clients, CallExclusive(p) PROVE ReadInv'
  BY <1>2 DEF CallExclusive, ReadInv, NoFault, CallTypes, CallInv, FencePCs, PutPCs,
     DeletePCs, GetPCs, SavePCs, ExclPCs, Goto, storeVars, fileVars, diskVars, lockVars
<1>3. ASSUME NEW p \in Clients, RLock(p) PROVE ReadInv'
  BY <1>3 DEF RLock, ReadInv, NoFault, CallTypes, CallInv, FencePCs, PutPCs, DeletePCs,
     GetPCs, SavePCs, ExclPCs, Goto, storeVars, fileVars, diskVars, callVars
<1>4. ASSUME NEW p \in Clients, EnterClosed(p) PROVE ReadInv'
  BY <1>4 DEF EnterClosed, ReadInv, NoFault, CallTypes, CallInv, FencePCs, PutPCs,
     DeletePCs, GetPCs, SavePCs, ExclPCs, Goto, Answer, storeVars, fileVars, diskVars,
     lockVars
<1>5. ASSUME NEW p \in Clients, Enter(p) PROVE ReadInv'
  BY <1>5 DEF Enter, ReadInv, NoFault, CallTypes, CallInv, FencePCs, PutPCs, DeletePCs,
     GetPCs, SavePCs, ExclPCs, Goto, storeVars, fileVars, diskVars, lockVars
<1>6. ASSUME NEW p \in Clients, Finish(p) PROVE ReadInv'
  BY <1>6 DEF Finish, ReadInv, NoFault, CallTypes, CallInv, FencePCs, PutPCs, DeletePCs,
     GetPCs, SavePCs, ExclPCs, Goto, Answer, storeVars, fileVars, diskVars
<1>7. ASSUME NEW p \in Clients, PutChunk(p) PROVE ReadInv'
  BY <1>7 DEF PutChunk, ReadInv, NoFault, CallTypes, CallInv, FencePCs, PutPCs, DeletePCs,
     GetPCs, SavePCs, ExclPCs, storeVars, diskVars, lockVars
<1>8. ASSUME NEW p \in Clients, PutLock(p) PROVE ReadInv'
  BY <1>8 DEF PutLock, ReadInv, NoFault, CallTypes, CallInv, FencePCs, PutPCs, DeletePCs,
     GetPCs, SavePCs, ExclPCs, Goto, storeVars, fileVars, diskVars
<1>9. ASSUME NEW p \in Clients, PutBump(p) PROVE ReadInv'
  BY <1>9 DEF PutBump, ReadInv, NoFault, CallTypes, CallInv, FencePCs, PutPCs, DeletePCs,
     GetPCs, SavePCs, ExclPCs, Goto, fileVars, diskVars, lockVars, callVars
<1>10. ASSUME NEW p \in Clients, PutUndo(p) PROVE ReadInv'
  BY <1>10 DEF PutUndo, ReadInv, NoFault, CallTypes, CallInv, FencePCs, PutPCs, DeletePCs,
     GetPCs, SavePCs, ExclPCs, Goto, fileVars, diskVars, lockVars, callVars
<1>11. ASSUME NEW p \in Clients, PutManifest(p) PROVE ReadInv'
  BY <1>11 DEF PutManifest, ReadInv, NoFault, CallTypes, CallInv, FencePCs, PutPCs,
     DeletePCs, GetPCs, SavePCs, ExclPCs, Goto, storeVars, diskVars, lockVars
<1>12. ASSUME NEW p \in Clients, PutAddRef(p) PROVE ReadInv'
  BY <1>12 DEF PutAddRef, ReadInv, NoFault, CallTypes, CallInv, FencePCs, PutPCs, DeletePCs,
     GetPCs, SavePCs, ExclPCs, fileVars, lockVars
<1>13. ASSUME NEW p \in Clients, PutIndex(p) PROVE ReadInv'
  BY <1>13 DEF PutIndex, ReadInv, NoFault, CallTypes, CallInv, FencePCs, PutPCs, DeletePCs,
     GetPCs, SavePCs, ExclPCs, Goto, fileVars, diskVars, lockVars, callVars
<1>14. ASSUME NEW p \in Clients, DeleteLock(p) PROVE ReadInv'
  BY <1>14 DEF DeleteLock, ReadInv, NoFault, CallTypes, CallInv, FencePCs, PutPCs,
     DeletePCs, GetPCs, SavePCs, ExclPCs, Goto, Answer, storeVars, fileVars, diskVars
<1>15. ASSUME NEW p \in Clients, DeleteDec(p) PROVE ReadInv'
  BY <1>15 DEF DeleteDec, ReadInv, NoFault, CallTypes, CallInv, FencePCs, PutPCs, DeletePCs,
     GetPCs, SavePCs, ExclPCs, Goto, fileVars, diskVars, lockVars, callVars
<1>16. ASSUME NEW p \in Clients, DeleteSubRef(p) PROVE ReadInv'
  BY <1>16 DEF DeleteSubRef, ReadInv, NoFault, CallTypes, CallInv, FencePCs, PutPCs,
     DeletePCs, GetPCs, SavePCs, ExclPCs, fileVars, lockVars
<1>17. ASSUME NEW p \in Clients, DeleteUnderflow(p) PROVE ReadInv'
  BY <1>17 DEF DeleteUnderflow, ReadInv, NoFault, CallTypes, CallInv, FencePCs, PutPCs,
     DeletePCs, GetPCs, SavePCs, ExclPCs, Goto, Answer, storeVars, fileVars, diskVars,
     lockVars
<1>18. ASSUME NEW p \in Clients, DeleteIndex(p) PROVE ReadInv'
  BY <1>18 DEF DeleteIndex, ReadInv, NoFault, CallTypes, CallInv, FencePCs, PutPCs,
     DeletePCs, GetPCs, SavePCs, ExclPCs, Goto, fileVars, diskVars, lockVars, callVars
<1>19. ASSUME NEW p \in Clients, DeleteManifest(p) PROVE ReadInv'
  BY <1>19 DEF DeleteManifest, ReadInv, NoFault, CallTypes, CallInv, FencePCs, PutPCs,
     DeletePCs, GetPCs, SavePCs, ExclPCs, Goto, storeVars, diskVars, lockVars, callVars
<1>20. ASSUME NEW p \in Clients, PersistMemory(p) PROVE ReadInv'
  BY <1>20 DEF PersistMemory, ReadInv, NoFault, CallTypes, CallInv, FencePCs, PutPCs,
     DeletePCs, GetPCs, SavePCs, ExclPCs, Answer, AfterPersist, Goto, storeVars, fileVars,
     diskVars, lockVars
<1>21. ASSUME NEW p \in Clients, PersistIndex(p) PROVE ReadInv'
  <2>1. NoFault({"sub"})' => NoFault({"sub"})
    <3>1. UNCHANGED faults \/ \E k \in FaultKinds : Fault(k)
      BY <1>21 DEF PersistIndex, FaultKinds
    <3> QED BY <3>1, FaultsGrow DEF StoreTypes
  <2> QED BY <1>21, <2>1 DEF PersistIndex, ReadInv, CallTypes, CallInv, PutPCs, DeletePCs,
     GetPCs, SavePCs, FencePCs, Goto, callVars
<1>22. ASSUME NEW p \in Clients, PersistRefs(p) PROVE ReadInv'
  <2>1. NoFault({"sub"})' => NoFault({"sub"})
    <3>1. UNCHANGED faults \/ \E k \in FaultKinds : Fault(k)
      BY <1>22 DEF PersistRefs, FaultKinds
    <3> QED BY <3>1, FaultsGrow DEF StoreTypes
  <2> QED BY <1>22, <2>1 DEF PersistRefs, ReadInv, CallTypes, CallInv, PutPCs, DeletePCs,
     GetPCs, SavePCs, FencePCs, Goto, callVars
<1>23. ASSUME NEW p \in Clients, PersistTruncate(p) PROVE ReadInv'
  BY <1>23 DEF PersistTruncate, ReadInv, NoFault, CallTypes, CallInv, FencePCs, PutPCs,
     DeletePCs, GetPCs, SavePCs, ExclPCs, Answer, AfterPersist, Goto, storeVars, fileVars
<1>24. ASSUME NEW p \in Clients, GetLookup(p) PROVE ReadInv'
  BY <1>24 DEF GetLookup, ReadInv, NoFault, CallTypes, CallInv, FencePCs, PutPCs, DeletePCs,
     GetPCs, SavePCs, ExclPCs, Goto, Answer, storeVars, fileVars, diskVars, lockVars
<1>25. ASSUME NEW p \in Clients, GetLoad(p) PROVE ReadInv'
  <2>1. NoFault({"sub"})' => NoFault({"sub"})
    <3>1. UNCHANGED faults \/ \E k \in FaultKinds : Fault(k)
      BY <1>25 DEF GetLoad
    <3> QED BY <3>1, FaultsGrow DEF StoreTypes
  <2> QED BY <1>25, <2>1 DEF GetLoad, ReadInv, CallTypes, CallInv, PutPCs, DeletePCs,
     GetPCs, SavePCs, FencePCs, Goto, Answer
<1>26. ASSUME NEW p \in Clients, ReadChunk(p) PROVE ReadInv'
  <2>1. NoFault({"sub"})' => NoFault({"sub"})
    <3>1. UNCHANGED faults \/ \E k \in FaultKinds : Fault(k)
      BY <1>26 DEF ReadChunk
    <3> QED BY <3>1, FaultsGrow DEF StoreTypes
  <2>2. NoFault({"sub"}) => Slot(obj[p], pos[p]) \in blobs
    <3>1. obj[p] \in Objects /\ pos[p] \in 1..NEntries(obj[p]) /\ pc[p] = "reading"
      BY <1>26, SlotType DEF ReadChunk, CallInv, CursorInv, CallTypes, GetPCs
    <3>2. NoFault({"sub"}) => ChunksOf(obj[p]) \subseteq blobs
      BY <3>1 DEF ChunkInv, PinInv, Needs
    <3> QED BY <3>1, <3>2 DEF ChunksOf
  <2>3. NoFault({"sub"}) => out' = out
    BY <1>26, <2>2 DEF ReadChunk
  <2>4. pc' = pc
    BY <1>26 DEF ReadChunk
  <2> QED BY <2>1, <2>3, <2>4 DEF ReadInv
<1>27. ASSUME NEW p \in Clients, CloseReader(p) PROVE ReadInv'
  BY <1>27 DEF CloseReader, ReadInv, NoFault, CallTypes, CallInv, FencePCs, PutPCs,
     DeletePCs, GetPCs, SavePCs, ExclPCs, Goto, Answer, storeVars, fileVars, diskVars,
     lockVars
<1>28. ASSUME NEW p \in Clients, WLockAnnounce(p) PROVE ReadInv'
  BY <1>28 DEF WLockAnnounce, ReadInv, NoFault, CallTypes, CallInv, FencePCs, PutPCs,
     DeletePCs, GetPCs, SavePCs, ExclPCs, Goto, storeVars, fileVars, diskVars, callVars
<1>29. ASSUME NEW p \in Clients, WLockClosed(p) PROVE ReadInv'
  BY <1>29 DEF WLockClosed, ReadInv, NoFault, CallTypes, CallInv, FencePCs, PutPCs,
     DeletePCs, GetPCs, SavePCs, ExclPCs, Goto, Answer, storeVars, fileVars, diskVars,
     lockVars
<1>30. ASSUME NEW p \in Clients, GCBegin(p) PROVE ReadInv'
  BY <1>30 DEF GCBegin, ReadInv, NoFault, CallTypes, CallInv, FencePCs, PutPCs, DeletePCs,
     GetPCs, SavePCs, ExclPCs, Goto, storeVars, fileVars, diskVars, lockVars, callVars
<1>31. ASSUME NEW p \in Clients, GCSweep(p) PROVE ReadInv'
  BY <1>31 DEF GCSweep, ReadInv, NoFault, CallTypes, CallInv, FencePCs, PutPCs, DeletePCs,
     GetPCs, SavePCs, ExclPCs, storeVars, diskVars, lockVars, callVars
<1>32. ASSUME NEW p \in Clients, GCEnd(p) PROVE ReadInv'
  BY <1>32 DEF GCEnd, ReadInv, NoFault, CallTypes, CallInv, FencePCs, PutPCs, DeletePCs,
     GetPCs, SavePCs, ExclPCs, Goto, storeVars, fileVars, diskVars, lockVars, callVars
<1>33. ASSUME NEW p \in Clients, CloseBegin(p) PROVE ReadInv'
  BY <1>33 DEF CloseBegin, ReadInv, NoFault, CallTypes, CallInv, FencePCs, PutPCs,
     DeletePCs, GetPCs, SavePCs, ExclPCs, Goto, fileVars, diskVars, lockVars, callVars
<1>34. ASSUME NEW p \in Clients, WUnlock(p) PROVE ReadInv'
  BY <1>34 DEF WUnlock, ReadInv, NoFault, CallTypes, CallInv, FencePCs, PutPCs, DeletePCs,
     GetPCs, SavePCs, ExclPCs, Answer, storeVars, fileVars, diskVars
<1>35. ASSUME NEW p \in Clients, CallFail(p) PROVE ReadInv'
  BY <1>35 DEF CallFail, ReadInv, NoFault, CallTypes, CallInv, FencePCs, PutPCs, DeletePCs,
     GetPCs, SavePCs, ExclPCs, Goto, Answer, storeVars, fileVars, diskVars, lockVars
<1>36. ASSUME NEW p \in Clients, PutAddRefFail(p) PROVE ReadInv'
  <2>1. NoFault({"sub"})' => NoFault({"sub"})
    <3>1. UNCHANGED faults \/ \E k \in FaultKinds : Fault(k)
      BY <1>36 DEF PutAddRefFail, FaultKinds
    <3> QED BY <3>1, FaultsGrow DEF StoreTypes
  <2> QED BY <1>36, <2>1 DEF PutAddRefFail, ReadInv, CallTypes, CallInv, PutPCs, DeletePCs,
     GetPCs, SavePCs, FencePCs, Goto, Answer
<1>37. ASSUME NEW p \in Clients, DeleteSubRefFail(p) PROVE ReadInv'
  <2>1. NoFault({"sub"})' => NoFault({"sub"})
    <3>1. UNCHANGED faults \/ \E k \in FaultKinds : Fault(k)
      BY <1>37 DEF DeleteSubRefFail, FaultKinds
    <3> QED BY <3>1, FaultsGrow DEF StoreTypes
  <2> QED BY <1>37, <2>1 DEF DeleteSubRefFail, ReadInv, CallTypes, CallInv, PutPCs,
     DeletePCs, GetPCs, SavePCs, FencePCs, Goto, Answer
<1>38. ASSUME NEW p \in Clients, DeleteManifestFail(p) PROVE ReadInv'
  <2>1. NoFault({"sub"})' => NoFault({"sub"})
    <3>1. UNCHANGED faults \/ \E k \in FaultKinds : Fault(k)
      BY <1>38 DEF DeleteManifestFail, FaultKinds
    <3> QED BY <3>1, FaultsGrow DEF StoreTypes
  <2> QED BY <1>38, <2>1 DEF DeleteManifestFail, ReadInv, CallTypes, CallInv, PutPCs,
     DeletePCs, GetPCs, SavePCs, FencePCs, Goto, Answer
<1>39. ASSUME NEW p \in Clients, PersistFail(p) PROVE ReadInv'
  <2>1. NoFault({"sub"})' => NoFault({"sub"})
    <3>1. UNCHANGED faults \/ \E k \in FaultKinds : Fault(k)
      BY <1>39 DEF PersistFail, FaultKinds
    <3> QED BY <3>1, FaultsGrow DEF StoreTypes
  <2> QED BY <1>39, <2>1 DEF PersistFail, ReadInv, CallTypes, CallInv, PutPCs, DeletePCs,
     GetPCs, SavePCs, FencePCs, Goto, Answer, AfterPersist
<1>40. ASSUME NEW p \in Clients, GCFail(p) PROVE ReadInv'
  BY <1>40 DEF GCFail, ReadInv, NoFault, CallTypes, CallInv, FencePCs, PutPCs, DeletePCs,
     GetPCs, SavePCs, ExclPCs, Goto, Answer, storeVars, fileVars, diskVars, lockVars
<1>41. ASSUME NEW p \in Clients, GCSkip(p) PROVE ReadInv'
  <2>1. NoFault({"sub"})' => NoFault({"sub"})
    <3>1. UNCHANGED faults \/ \E k \in FaultKinds : Fault(k)
      BY <1>41 DEF GCSkip, FaultKinds
    <3> QED BY <3>1, FaultsGrow DEF StoreTypes
  <2> QED BY <1>41, <2>1 DEF GCSkip, ReadInv, CallTypes, CallInv, PutPCs, DeletePCs, GetPCs,
     SavePCs, FencePCs, callVars
<1>42. CASE UNCHANGED vars
    BY <1>42 DEF vars, callVars, ReadInv, NoFault
<1> QED BY <1>1, <1>2, <1>3, <1>4, <1>5, <1>6, <1>7, <1>8, <1>9, <1>10, <1>11, <1>12, <1>13,
   <1>14, <1>15, <1>16, <1>17, <1>18, <1>19, <1>20, <1>21, <1>22, <1>23, <1>24, <1>25,
   <1>26, <1>27, <1>28, <1>29, <1>30, <1>31, <1>32, <1>33, <1>34, <1>35, <1>36, <1>37,
   <1>38, <1>39, <1>40, <1>41, <1>42 DEF Next, Call, Step, Failure, PutStep, DeleteStep,
   PersistStep, PersistBegin, GetStep, ExclStep

-----------------------------------------------------------------------------

StoreInv == Typing /\ Discipline /\ RefsInv /\ ChunkInv /\ SweepInv /\ ReadInv

\* A store just opened satisfies the invariant about chunks, readers and GC.
LEMMA StoreInvInit == Init => StoreInv
<1> SUFFICES ASSUME Init PROVE StoreInv
  OBVIOUS
<1>1. Typing /\ Discipline /\ RefsInv
  BY TypingInit, DisciplineInit, RefsInit DEF Discipline, Typing
<1>2. ChunkInv
  BY DEF Init, ChunkInv, VisibleReadable, PinInv, Needs
<1>3. SweepInv /\ ReadInv
  BY DEF Init, SweepInv, ReadInv
<1> QED BY <1>1, <1>2, <1>3 DEF StoreInv

\* Every step keeps the invariant about chunks, readers and GC.
LEMMA StoreInvStep == StoreInv /\ [Next]_vars => StoreInv'
BY TypingStep, DisciplineStep, RefsStep, ChunkStep, SweepStep, ReadStep
   DEF StoreInv, Discipline, RefsInv

\* Whatever the index shows has its manifest and every chunk of it, in every
\* reachable state with any number of clients, and after any I/O failure but a
\* failed journal append in SubMany (README invariants 2 and 4; Put, Delete, GC).
THEOREM VisibleObjectsReadable == Spec => []VisibleReadable
<1>1. StoreInv => VisibleReadable
  BY DEF StoreInv, ChunkInv
<1> QED BY <1>1, StoreInvInit, StoreInvStep, PTL DEF Spec

\* A reader handed out by Get finds every chunk of its object for as long as it
\* is open (Get, blobReader, the fence that keeps GC out).
THEOREM OpenReadersServed == Spec => []ReadersServed
<1>1. StoreInv => ReadersServed
  BY DEF StoreInv, ChunkInv, PinInv, ReadInv, ReadersServed, Needs
<1> QED BY <1>1, StoreInvInit, StoreInvStep, PTL DEF Spec

\* A GC that goes on to persist has removed every chunk without a reference
\* (Collector.Run).
THEOREM GCRemovesAllGarbage == Spec => []GCComplete
<1>1. StoreInv => GCComplete
  BY DEF StoreInv, SweepInv, GCComplete
<1> QED BY <1>1, StoreInvInit, StoreInvStep, PTL DEF Spec

\* Only a sweep removes chunks, and only such as no count and no call under way
\* relies on.
LEMMA RemovalStep ==
    StoreInv /\ [Next]_vars =>
        \A c \in blobs \ blobs' : refs[c] = 0 /\ \A p \in Clients : c \notin Needs(p)
<1> SUFFICES ASSUME StoreInv, [Next]_vars, NEW c \in blobs \ blobs'
             PROVE  refs[c] = 0 /\ \A p \in Clients : c \notin Needs(p)
  OBVIOUS
<1>1. ASSUME NEW p \in Clients, GCSweep(p)
      PROVE  refs[c] = 0 /\ \A q \in Clients : c \notin Needs(q)
  <2>1. PICK d \in todo : blobs' = IF refs[d] > 0 THEN blobs ELSE blobs \ {d}
    BY <1>1 DEF GCSweep
  <2>2. c = d /\ ~(refs[c] > 0)
    BY <2>1
  <2>3. refs[c] \in Nat
    BY DEF StoreInv, Typing, TypeOK, StoreTypes
  <2>4. pc[p] = "sweep"
    BY <1>1 DEF GCSweep
  <2> QED BY <2>2, <2>3, <2>4, SweepAlone DEF StoreInv, Discipline
<1>2. ASSUME NEW p \in Clients, PutChunk(p) PROVE FALSE
  BY <1>2 DEF PutChunk

<1>3. ASSUME NEW p \in Clients, Next, ~GCSweep(p), ~PutChunk(p), Call(p) \/ Step(p) \/ Failure(p)
      PROVE  blobs' = blobs
  <2>1. CASE Call(p)
    BY <1>3, <2>1 DEF Call, CallShared, CallExclusive, fileVars
  <2>2. CASE RLock(p) \/ EnterClosed(p) \/ Enter(p) \/ Finish(p)
    BY <1>3, <2>2 DEF RLock, EnterClosed, Enter, Finish, fileVars
  <2>3. CASE PutStep(p)
    BY <1>3, <2>3 DEF PutStep, PutLock, PutBump, PutUndo, PutManifest, PutAddRef, PutIndex,
       fileVars
  <2>4. CASE DeleteStep(p)
    BY <1>3, <2>4 DEF DeleteStep, DeleteLock, DeleteDec, DeleteSubRef, DeleteUnderflow,
       DeleteIndex, DeleteManifest, fileVars
  <2>5. CASE PersistStep(p)
    BY <1>3, <2>5 DEF PersistStep, PersistBegin, PersistMemory, PersistIndex, PersistRefs,
       PersistTruncate, fileVars
  <2>6. CASE GetStep(p)
    BY <1>3, <2>6 DEF GetStep, GetLookup, GetLoad, ReadChunk, CloseReader, fileVars
  <2>7. CASE ExclStep(p)
    BY <1>3, <2>7 DEF ExclStep, WLockAnnounce, WLockClosed, GCBegin, GCEnd, CloseBegin,
       WUnlock, fileVars
  <2>8. CASE Failure(p)
    BY <1>3, <2>8 DEF Failure, CallFail, PutAddRefFail, DeleteSubRefFail,
       DeleteManifestFail, PersistFail, GCFail, GCSkip, fileVars
  <2> QED BY <1>3, <2>1, <2>2, <2>3, <2>4, <2>5, <2>6, <2>7, <2>8 DEF Step
<1>4. CASE Next
  BY <1>1, <1>2, <1>3, <1>4 DEF Next
<1>5. CASE UNCHANGED vars
  BY <1>5 DEF vars, fileVars
<1> QED BY <1>4, <1>5

\* GC, and every other operation, never removes a chunk that has a reference,
\* that a Put has just written, or that an open reader serves (README invariant
\* 3; Collector.Run, Fence).
THEOREM OnlyGarbageRemoved == Spec => GCRemovesOnlyGarbage
<1>1. StoreInv /\ [Next]_vars =>
        [\A c \in blobs \ blobs' : refs[c] = 0 /\ \A p \in Clients : c \notin Needs(p)]_vars
  BY RemovalStep
<1> QED BY <1>1, StoreInvInit, StoreInvStep, PTL DEF Spec, GCRemovesOnlyGarbage

-----------------------------------------------------------------------------
(* What the checks of internal/gc would find *)

\* A chunk with a reference is one that a visible object or a running Put needs.
LEMMA CountedPresent ==
    ASSUME StoreInv, NoFault({"add", "sub"}), NEW c \in Chunks, refs[c] > 0
    PROVE  c \in blobs
<1>1. NoFault({"sub"})
  BY DEF NoFault
<1>2. Holders(c) # {}
  BY FS_EmptySet DEF StoreInv, RefsInv, RefsExact
<1>3. PICK o \in Objects : \E i \in 1..NEntries(o) : Slot(o, i) = c /\ Counted(o, i)
  BY <1>2 DEF Holders, Slots
<1>4. c \in ChunksOf(o)
  BY <1>3 DEF ChunksOf
<1>5. CASE idx[o] > 0
  BY <1>1, <1>4, <1>5 DEF StoreInv, ChunkInv, VisibleReadable
<1>6. CASE ~(idx[o] > 0)
  <2> DEFINE p == objLock[o]
  <2>1. p \in Clients /\ pc[p] \in {"put_refs", "del_refs"}
    BY <1>3, <1>6 DEF Counted, StoreInv, Typing, TypeOK, LockTypes
  <2>2. obj[p] = o /\ InObject(p)
    BY <2>1, NoneAssumption DEF StoreInv, Discipline, LockInv
  <2>3. pc[p] # "del_refs"
    BY <1>6, <2>1, <2>2 DEF StoreInv, Discipline, RecordInv, Record, CursorInv, SavePCs
  <2>4. Needs(p) = ChunksOf(o)
    BY <2>1, <2>2, <2>3 DEF Needs
  <2> QED BY <1>1, <1>4, <2>1, <2>4 DEF StoreInv, ChunkInv, PinInv
<1> QED BY <1>5, <1>6

\* With no object locked, every chunk of an indexed object has a reference.
LEMMA QuietReferenced ==
    ASSUME StoreInv, NoFault({"sub"}), \A o \in Objects : objLock[o] = NoClient,
           NEW o \in Objects, idx[o] > 0, NEW c \in ChunksOf(o)
    PROVE  refs[c] > 0
<1>1. PICK i \in 1..NEntries(o) : Slot(o, i) = c
  BY DEF ChunksOf
<1>2. c \in Chunks
  BY <1>1, SlotType
<1>3. <<o, i>> \in Holders(c)
  BY <1>1 DEF Holders, Slots, Counted
<1>4. Cardinality(Holders(c)) # 0
  BY <1>3, HoldersFinite, FS_EmptySet DEF StoreInv
<1>5. Cardinality(Holders(c)) <= refs[c]
  BY <1>2 DEF StoreInv, RefsInv, RefsCover
<1> QED BY <1>2, <1>4, <1>5, HoldersFinite DEF StoreInv, Typing, TypeOK, StoreTypes

-----------------------------------------------------------------------------
(* What is on disk: the index file lags only behind a call that is going   *)
(* to write it, and so do the counts' file and the journal.  This completes *)
(* the proof of SafetyInv.                                                  *)

\* With no failure of persist or of removing a manifest, p's locked object is
\* the only one whose record in the file p may owe.
DurableKinds == {"save", "rename", "remove"}

\* A step of p that changes neither the index nor its file, takes or leaves no
\* lock that matters, and does not leave save_idx unwritten.
LEMMA LagFrame ==
    ASSUME Typing, LagInv, NEW p \in Clients,
           NoFault(DurableKinds)' => NoFault(DurableKinds),
           UNCHANGED <<idx, idxFile>>,
           \A q \in Clients : q # p => \/ pc'[q] = pc[q] /\ seen'[q] = seen[q]
                                       \/ pc[q] \notin {"del_man", "save_idx"} /\ pc'[q] # "put_undo",
           pc'[p] # "put_undo",
           \/ pc[p] \notin {"del_man", "save_idx"}
           \/ pc'[p] \in {"del_man", "save_idx"} /\ seen'[p] = seen[p],
           \A o \in Objects : \/ objLock'[o] = objLock[o]
                              \/ objLock[o] = NoClient
                              \/ objLock[o] = p /\ pc[p] \notin {"del_man", "save_idx"}
    PROVE  LagInv'
<1> SUFFICES ASSUME ~Memory, NoFault(DurableKinds)'
             PROVE  /\ \A q \in Clients : pc'[q] # "put_undo"
                    /\ \A o \in Objects : idxFile'[o] # idx'[o] =>
                          /\ objLock'[o] # NoClient /\ pc'[objLock'[o]] \in {"del_man", "save_idx"}
                          /\ idxFile'[o] = seen'[objLock'[o]]
  BY DEF LagInv, DurableKinds
<1>1. NoFault({"save", "rename", "remove"})
  BY DEF DurableKinds
<1>2. \A q \in Clients : pc'[q] # "put_undo"
  BY <1>1 DEF LagInv
<1>3. ASSUME NEW o \in Objects, idxFile'[o] # idx'[o]
      PROVE  /\ objLock'[o] # NoClient /\ pc'[objLock'[o]] \in {"del_man", "save_idx"}
             /\ idxFile'[o] = seen'[objLock'[o]]
  <2>1. /\ objLock[o] # NoClient /\ pc[objLock[o]] \in {"del_man", "save_idx"}
        /\ idxFile[o] = seen[objLock[o]]
    BY <1>1, <1>3 DEF LagInv
  <2>2. PICK q \in Clients : objLock[o] = q
    BY <2>1 DEF Typing, TypeOK, LockTypes
  <2>3. objLock'[o] = q
    BY <2>1, <2>2
  <2>4. pc'[q] \in {"del_man", "save_idx"} /\ seen'[q] = seen[q]
    BY <2>1, <2>2
  <2> QED BY <2>1, <2>2, <2>3, <2>4
<1> QED BY <1>2, <1>3

\* A step that changes the record of the object p has locked from what p read.
LEMMA LagChange ==
    ASSUME Typing, LockInv, LagInv, NEW p \in Clients, InObject(p),
           pc[p] \notin {"del_man", "save_idx"}, idx[obj[p]] = seen[p],
           pc'[p] \in {"del_man", "save_idx"}, seen' = seen, objLock' = objLock,
           idxFile' = idxFile, faults' = faults,
           \A q \in Clients : q # p => pc'[q] = pc[q],
           \A o \in Objects : o # obj[p] => idx'[o] = idx[o]
    PROVE  LagInv'
<1> SUFFICES ASSUME ~Memory, NoFault({"save", "rename", "remove"})'
             PROVE  /\ \A q \in Clients : pc'[q] # "put_undo"
                    /\ \A o \in Objects : idxFile'[o] # idx'[o] =>
                          /\ objLock'[o] # NoClient /\ pc'[objLock'[o]] \in {"del_man", "save_idx"}
                          /\ idxFile'[o] = seen'[objLock'[o]]
  BY DEF LagInv
<1>1. NoFault({"save", "rename", "remove"})
  BY DEF NoFault
<1>2. \A q \in Clients : pc'[q] # "put_undo"
  BY <1>1 DEF LagInv
<1>3. objLock[obj[p]] = p /\ p # NoClient /\ obj[p] \in Objects
  BY OwnLock
<1>4. idxFile[obj[p]] = seen[p]
  BY <1>1, <1>3 DEF LagInv
<1>5. ASSUME NEW o \in Objects, idxFile'[o] # idx'[o]
      PROVE  /\ objLock'[o] # NoClient /\ pc'[objLock'[o]] \in {"del_man", "save_idx"}
             /\ idxFile'[o] = seen'[objLock'[o]]
  <2>1. CASE o = obj[p]
    BY <1>3, <1>4, <2>1
  <2>2. CASE o # obj[p]
    <3>1. /\ objLock[o] # NoClient /\ pc[objLock[o]] \in {"del_man", "save_idx"}
          /\ idxFile[o] = seen[objLock[o]]
      BY <1>1, <1>5, <2>2 DEF LagInv
    <3>2. PICK q \in Clients : objLock[o] = q
      BY <3>1 DEF Typing, TypeOK, LockTypes
    <3>3. q # p
      BY <3>1, <3>2
    <3> QED BY <3>1, <3>2, <3>3
  <2> QED BY <2>1, <2>2
<1> QED BY <1>2, <1>5

\* Every step keeps the index file's lag in bounds.
LEMMA LagStep == Typing /\ LockInv /\ RecordInv /\ LagInv /\ [Next]_vars => LagInv'
<1> SUFFICES ASSUME Typing, LockInv, RecordInv, LagInv, [Next]_vars
             PROVE  LagInv'
  OBVIOUS
<1> USE DEF Typing, TypeOK
<1>1. ASSUME NEW p \in Clients, CallShared(p) PROVE LagInv'
  BY <1>1 DEF CallShared, LagInv, NoFault, CallTypes, LockTypes, CallInv, FencePCs, PutPCs,
     DeletePCs, GetPCs, SavePCs, ExclPCs, Goto, storeVars, fileVars, diskVars, lockVars
<1>2. ASSUME NEW p \in Clients, CallExclusive(p) PROVE LagInv'
  BY <1>2 DEF CallExclusive, LagInv, NoFault, CallTypes, LockTypes, CallInv, FencePCs,
     PutPCs, DeletePCs, GetPCs, SavePCs, ExclPCs, Goto, storeVars, fileVars, diskVars,
     lockVars
<1>3. ASSUME NEW p \in Clients, RLock(p) PROVE LagInv'
  BY <1>3 DEF RLock, LagInv, NoFault, CallTypes, LockTypes, CallInv, FencePCs, PutPCs,
     DeletePCs, GetPCs, SavePCs, ExclPCs, Goto, storeVars, fileVars, diskVars, callVars
<1>4. ASSUME NEW p \in Clients, EnterClosed(p) PROVE LagInv'
  BY <1>4 DEF EnterClosed, LagInv, NoFault, CallTypes, LockTypes, CallInv, FencePCs, PutPCs,
     DeletePCs, GetPCs, SavePCs, ExclPCs, Goto, Answer, storeVars, fileVars, diskVars,
     lockVars
<1>5. ASSUME NEW p \in Clients, Enter(p) PROVE LagInv'
  BY <1>5 DEF Enter, LagInv, NoFault, CallTypes, LockTypes, CallInv, FencePCs, PutPCs,
     DeletePCs, GetPCs, SavePCs, ExclPCs, Goto, storeVars, fileVars, diskVars, lockVars
<1>6. ASSUME NEW p \in Clients, Finish(p) PROVE LagInv'
  BY <1>6 DEF Finish, LagInv, NoFault, CallTypes, LockTypes, CallInv, FencePCs, PutPCs,
     DeletePCs, GetPCs, SavePCs, ExclPCs, Goto, Answer, storeVars, fileVars, diskVars
<1>7. ASSUME NEW p \in Clients, PutChunk(p) PROVE LagInv'
  BY <1>7 DEF PutChunk, LagInv, NoFault, CallTypes, LockTypes, CallInv, FencePCs, PutPCs,
     DeletePCs, GetPCs, SavePCs, ExclPCs, storeVars, diskVars, lockVars
<1>8. ASSUME NEW p \in Clients, PutLock(p) PROVE LagInv'
  BY <1>8 DEF PutLock, LagInv, NoFault, CallTypes, LockTypes, CallInv, FencePCs, PutPCs,
     DeletePCs, GetPCs, SavePCs, ExclPCs, Goto, storeVars, fileVars, diskVars
<1>9. ASSUME NEW p \in Clients, PutBump(p) PROVE LagInv'
  <2>1. InObject(p) /\ obj[p] \in Objects
    BY <1>9, OwnLock DEF PutBump, InObject, Typing, TypeOK
  <2>2. idx[obj[p]] = seen[p]
    <3>1. idx[obj[p]] = Record(p)
      BY <2>1 DEF RecordInv
    <3> QED BY <1>9, <3>1 DEF PutBump, Record, CursorInv, SavePCs
  <2>3. /\ pc[p] \notin {"del_man", "save_idx"} /\ pc'[p] \in {"del_man", "save_idx"}
        /\ \A q \in Clients : q # p => pc'[q] = pc[q]
    BY <1>9 DEF PutBump, CallTypes, Goto
  <2>4. seen' = seen /\ objLock' = objLock /\ idxFile' = idxFile /\ faults' = faults
    BY <1>9 DEF PutBump, callVars, lockVars, diskVars
  <2>5. \A o \in Objects : o # obj[p] => idx'[o] = idx[o]
    BY <1>9 DEF PutBump, StoreTypes
  <2> QED BY <2>1, <2>2, <2>3, <2>4, <2>5, LagChange DEF Typing, TypeOK
<1>10. ASSUME NEW p \in Clients, PutUndo(p) PROVE LagInv'
  BY <1>10 DEF PutUndo, LagInv, NoFault, CallTypes, LockTypes, CallInv, FencePCs, PutPCs,
     DeletePCs, GetPCs, SavePCs, ExclPCs, Goto, fileVars, diskVars, lockVars, callVars
<1>11. ASSUME NEW p \in Clients, PutManifest(p) PROVE LagInv'
  BY <1>11 DEF PutManifest, LagInv, NoFault, CallTypes, LockTypes, CallInv, FencePCs,
     PutPCs, DeletePCs, GetPCs, SavePCs, ExclPCs, Goto, storeVars, diskVars, lockVars
<1>12. ASSUME NEW p \in Clients, PutAddRef(p) PROVE LagInv'
  BY <1>12 DEF PutAddRef, LagInv, NoFault, CallTypes, LockTypes, CallInv, FencePCs, PutPCs,
     DeletePCs, GetPCs, SavePCs, ExclPCs, fileVars, lockVars
<1>13. ASSUME NEW p \in Clients, PutIndex(p) PROVE LagInv'
  <2>1. InObject(p) /\ obj[p] \in Objects
    BY <1>13, OwnLock DEF PutIndex, InObject, Typing, TypeOK
  <2>2. idx[obj[p]] = seen[p]
    <3>1. idx[obj[p]] = Record(p)
      BY <2>1 DEF RecordInv
    <3> QED BY <1>13, <3>1 DEF PutIndex, Record, CursorInv, SavePCs
  <2>3. /\ pc[p] \notin {"del_man", "save_idx"} /\ pc'[p] \in {"del_man", "save_idx"}
        /\ \A q \in Clients : q # p => pc'[q] = pc[q]
    BY <1>13 DEF PutIndex, CallTypes, Goto
  <2>4. seen' = seen /\ objLock' = objLock /\ idxFile' = idxFile /\ faults' = faults
    BY <1>13 DEF PutIndex, callVars, lockVars, diskVars
  <2>5. \A o \in Objects : o # obj[p] => idx'[o] = idx[o]
    BY <1>13 DEF PutIndex, StoreTypes
  <2> QED BY <2>1, <2>2, <2>3, <2>4, <2>5, LagChange DEF Typing, TypeOK
<1>14. ASSUME NEW p \in Clients, DeleteLock(p) PROVE LagInv'
  <2>1. NoFault(DurableKinds)' => NoFault(DurableKinds)
    BY <1>14 DEF DeleteLock, NoFault
  <2>2. UNCHANGED <<idx, idxFile>>
    BY <1>14 DEF DeleteLock, storeVars, diskVars
  <2>3. \A q \in Clients : q # p => \/ pc'[q] = pc[q] /\ seen'[q] = seen[q]
                                    \/ pc[q] \notin {"del_man", "save_idx"} /\ pc'[q] # "put_undo"
    BY <1>14 DEF DeleteLock, CallTypes, Goto
  <2>4. /\ pc'[p] # "put_undo"
        /\ \/ pc[p] \notin {"del_man", "save_idx"}
           \/ pc'[p] \in {"del_man", "save_idx"} /\ seen'[p] = seen[p]
    BY <1>14 DEF DeleteLock, CallTypes, Goto
  <2>5. \A o \in Objects : \/ objLock'[o] = objLock[o]
                           \/ objLock[o] = NoClient
                           \/ objLock[o] = p /\ pc[p] \notin {"del_man", "save_idx"}
    BY <1>14 DEF DeleteLock, LockTypes
  <2> QED BY <2>1, <2>2, <2>3, <2>4, <2>5, LagFrame DEF Typing, TypeOK
<1>15. ASSUME NEW p \in Clients, DeleteDec(p) PROVE LagInv'
  <2>1. InObject(p) /\ obj[p] \in Objects
    BY <1>15, OwnLock DEF DeleteDec, InObject, Typing, TypeOK
  <2>2. idx[obj[p]] = seen[p]
    <3>1. idx[obj[p]] = Record(p)
      BY <2>1 DEF RecordInv
    <3> QED BY <1>15, <3>1 DEF DeleteDec, Record, CursorInv, SavePCs
  <2>3. /\ pc[p] \notin {"del_man", "save_idx"} /\ pc'[p] \in {"del_man", "save_idx"}
        /\ \A q \in Clients : q # p => pc'[q] = pc[q]
    BY <1>15 DEF DeleteDec, CallTypes, Goto
  <2>4. seen' = seen /\ objLock' = objLock /\ idxFile' = idxFile /\ faults' = faults
    BY <1>15 DEF DeleteDec, callVars, lockVars, diskVars
  <2>5. \A o \in Objects : o # obj[p] => idx'[o] = idx[o]
    BY <1>15 DEF DeleteDec, StoreTypes
  <2> QED BY <2>1, <2>2, <2>3, <2>4, <2>5, LagChange DEF Typing, TypeOK
<1>16. ASSUME NEW p \in Clients, DeleteSubRef(p) PROVE LagInv'
  BY <1>16 DEF DeleteSubRef, LagInv, NoFault, CallTypes, LockTypes, CallInv, FencePCs,
     PutPCs, DeletePCs, GetPCs, SavePCs, ExclPCs, fileVars, lockVars
<1>17. ASSUME NEW p \in Clients, DeleteUnderflow(p) PROVE LagInv'
  BY <1>17 DEF DeleteUnderflow, LagInv, NoFault, CallTypes, LockTypes, CallInv, FencePCs,
     PutPCs, DeletePCs, GetPCs, SavePCs, ExclPCs, Goto, Answer, storeVars, fileVars,
     diskVars, lockVars
<1>18. ASSUME NEW p \in Clients, DeleteIndex(p) PROVE LagInv'
  <2>1. InObject(p) /\ obj[p] \in Objects
    BY <1>18, OwnLock DEF DeleteIndex, InObject, Typing, TypeOK
  <2>2. idx[obj[p]] = seen[p]
    <3>1. idx[obj[p]] = Record(p)
      BY <2>1 DEF RecordInv
    <3> QED BY <1>18, <3>1 DEF DeleteIndex, Record, CursorInv, SavePCs
  <2>3. /\ pc[p] \notin {"del_man", "save_idx"} /\ pc'[p] \in {"del_man", "save_idx"}
        /\ \A q \in Clients : q # p => pc'[q] = pc[q]
    BY <1>18 DEF DeleteIndex, CallTypes, Goto
  <2>4. seen' = seen /\ objLock' = objLock /\ idxFile' = idxFile /\ faults' = faults
    BY <1>18 DEF DeleteIndex, callVars, lockVars, diskVars
  <2>5. \A o \in Objects : o # obj[p] => idx'[o] = idx[o]
    BY <1>18 DEF DeleteIndex, StoreTypes
  <2> QED BY <2>1, <2>2, <2>3, <2>4, <2>5, LagChange DEF Typing, TypeOK
<1>19. ASSUME NEW p \in Clients, DeleteManifest(p) PROVE LagInv'
  BY <1>19 DEF DeleteManifest, LagInv, NoFault, CallTypes, LockTypes, CallInv, FencePCs,
     PutPCs, DeletePCs, GetPCs, SavePCs, ExclPCs, Goto, storeVars, diskVars, lockVars,
     callVars
<1>20. ASSUME NEW p \in Clients, PersistMemory(p) PROVE LagInv'
  BY <1>20 DEF PersistMemory, LagInv, NoFault, CallTypes, LockTypes, CallInv, FencePCs,
     PutPCs, DeletePCs, GetPCs, SavePCs, ExclPCs, Answer, AfterPersist, Goto, storeVars,
     fileVars, diskVars, lockVars
<1>21. ASSUME NEW p \in Clients, PersistIndex(p) PROVE LagInv'
  <2>1. CASE idxFile' = idxFile /\ Fault("rename")
    <3>1. ~NoFault({"save", "rename", "remove"})'
      BY <2>1, FaultSeen DEF StoreTypes, Fault
    <3> QED BY <3>1 DEF LagInv
  <2>2. CASE idxFile' = idx /\ UNCHANGED faults
    <3>1. idx' = idx /\ idxFile' = idx'
      BY <1>21, <2>2 DEF PersistIndex, storeVars
    <3>2. \A q \in Clients : pc'[q] = pc[q] \/ pc'[q] = "save_refs"
      BY <1>21 DEF PersistIndex, CallTypes, Goto
    <3> QED BY <2>2, <3>1, <3>2 DEF LagInv, NoFault
  <2> QED BY <1>21, <2>1, <2>2 DEF PersistIndex
<1>22. ASSUME NEW p \in Clients, PersistRefs(p) PROVE LagInv'
  <2>1. NoFault(DurableKinds)' => NoFault(DurableKinds)
    <3>1. UNCHANGED faults \/ \E k \in FaultKinds : Fault(k)
      BY <1>22 DEF PersistRefs, FaultKinds
    <3> QED BY <3>1, FaultsGrow DEF StoreTypes
  <2>2. UNCHANGED <<idx, idxFile>>
    BY <1>22 DEF PersistRefs, storeVars
  <2>3. \A q \in Clients : q # p => \/ pc'[q] = pc[q] /\ seen'[q] = seen[q]
                                    \/ pc[q] \notin {"del_man", "save_idx"} /\ pc'[q] # "put_undo"
    BY <1>22 DEF PersistRefs, CallTypes, Goto, callVars
  <2>4. /\ pc'[p] # "put_undo"
        /\ \/ pc[p] \notin {"del_man", "save_idx"}
           \/ pc'[p] \in {"del_man", "save_idx"} /\ seen'[p] = seen[p]
    BY <1>22 DEF PersistRefs, CallTypes, Goto, callVars
  <2>5. \A o \in Objects : \/ objLock'[o] = objLock[o]
                           \/ objLock[o] = NoClient
                           \/ objLock[o] = p /\ pc[p] \notin {"del_man", "save_idx"}
    BY <1>22 DEF PersistRefs, lockVars
  <2> QED BY <2>1, <2>2, <2>3, <2>4, <2>5, LagFrame DEF Typing, TypeOK
<1>23. ASSUME NEW p \in Clients, PersistTruncate(p) PROVE LagInv'
  BY <1>23 DEF PersistTruncate, LagInv, NoFault, CallTypes, LockTypes, CallInv, FencePCs,
     PutPCs, DeletePCs, GetPCs, SavePCs, ExclPCs, Answer, AfterPersist, Goto, storeVars,
     fileVars
<1>24. ASSUME NEW p \in Clients, GetLookup(p) PROVE LagInv'
  <2>1. NoFault(DurableKinds)' => NoFault(DurableKinds)
    BY <1>24 DEF GetLookup, NoFault
  <2>2. UNCHANGED <<idx, idxFile>>
    BY <1>24 DEF GetLookup, storeVars, diskVars
  <2>3. \A q \in Clients : q # p => \/ pc'[q] = pc[q] /\ seen'[q] = seen[q]
                                    \/ pc[q] \notin {"del_man", "save_idx"} /\ pc'[q] # "put_undo"
    BY <1>24 DEF GetLookup, CallTypes, Goto
  <2>4. /\ pc'[p] # "put_undo"
        /\ \/ pc[p] \notin {"del_man", "save_idx"}
           \/ pc'[p] \in {"del_man", "save_idx"} /\ seen'[p] = seen[p]
    BY <1>24 DEF GetLookup, CallTypes, Goto
  <2>5. \A o \in Objects : \/ objLock'[o] = objLock[o]
                           \/ objLock[o] = NoClient
                           \/ objLock[o] = p /\ pc[p] \notin {"del_man", "save_idx"}
    BY <1>24 DEF GetLookup, lockVars
  <2> QED BY <2>1, <2>2, <2>3, <2>4, <2>5, LagFrame DEF Typing, TypeOK
<1>25. ASSUME NEW p \in Clients, GetLoad(p) PROVE LagInv'
  <2>1. NoFault(DurableKinds)' => NoFault(DurableKinds)
    BY <1>25 DEF GetLoad, NoFault
  <2>2. UNCHANGED <<idx, idxFile>>
    BY <1>25 DEF GetLoad, storeVars, diskVars
  <2>3. \A q \in Clients : q # p => \/ pc'[q] = pc[q] /\ seen'[q] = seen[q]
                                    \/ pc[q] \notin {"del_man", "save_idx"} /\ pc'[q] # "put_undo"
    BY <1>25 DEF GetLoad, CallTypes, Goto
  <2>4. /\ pc'[p] # "put_undo"
        /\ \/ pc[p] \notin {"del_man", "save_idx"}
           \/ pc'[p] \in {"del_man", "save_idx"} /\ seen'[p] = seen[p]
    BY <1>25 DEF GetLoad, CallTypes, Goto
  <2>5. \A o \in Objects : \/ objLock'[o] = objLock[o]
                           \/ objLock[o] = NoClient
                           \/ objLock[o] = p /\ pc[p] \notin {"del_man", "save_idx"}
    BY <1>25 DEF GetLoad, lockVars
  <2> QED BY <2>1, <2>2, <2>3, <2>4, <2>5, LagFrame DEF Typing, TypeOK
<1>26. ASSUME NEW p \in Clients, ReadChunk(p) PROVE LagInv'
  BY <1>26 DEF ReadChunk, LagInv, NoFault, CallTypes, LockTypes, CallInv, FencePCs, PutPCs,
     DeletePCs, GetPCs, SavePCs, ExclPCs, Answer, storeVars, fileVars, diskVars, lockVars
<1>27. ASSUME NEW p \in Clients, CloseReader(p) PROVE LagInv'
  BY <1>27 DEF CloseReader, LagInv, NoFault, CallTypes, LockTypes, CallInv, FencePCs,
     PutPCs, DeletePCs, GetPCs, SavePCs, ExclPCs, Goto, Answer, storeVars, fileVars,
     diskVars, lockVars
<1>28. ASSUME NEW p \in Clients, WLockAnnounce(p) PROVE LagInv'
  BY <1>28 DEF WLockAnnounce, LagInv, NoFault, CallTypes, LockTypes, CallInv, FencePCs,
     PutPCs, DeletePCs, GetPCs, SavePCs, ExclPCs, Goto, storeVars, fileVars, diskVars,
     callVars
<1>29. ASSUME NEW p \in Clients, WLockClosed(p) PROVE LagInv'
  BY <1>29 DEF WLockClosed, LagInv, NoFault, CallTypes, LockTypes, CallInv, FencePCs,
     PutPCs, DeletePCs, GetPCs, SavePCs, ExclPCs, Goto, Answer, storeVars, fileVars,
     diskVars, lockVars
<1>30. ASSUME NEW p \in Clients, GCBegin(p) PROVE LagInv'
  BY <1>30 DEF GCBegin, LagInv, NoFault, CallTypes, LockTypes, CallInv, FencePCs, PutPCs,
     DeletePCs, GetPCs, SavePCs, ExclPCs, Goto, storeVars, fileVars, diskVars, lockVars,
     callVars
<1>31. ASSUME NEW p \in Clients, GCSweep(p) PROVE LagInv'
  BY <1>31 DEF GCSweep, LagInv, NoFault, CallTypes, LockTypes, CallInv, FencePCs, PutPCs,
     DeletePCs, GetPCs, SavePCs, ExclPCs, storeVars, diskVars, lockVars, callVars
<1>32. ASSUME NEW p \in Clients, GCEnd(p) PROVE LagInv'
  BY <1>32 DEF GCEnd, LagInv, NoFault, CallTypes, LockTypes, CallInv, FencePCs, PutPCs,
     DeletePCs, GetPCs, SavePCs, ExclPCs, Goto, storeVars, fileVars, diskVars, lockVars,
     callVars
<1>33. ASSUME NEW p \in Clients, CloseBegin(p) PROVE LagInv'
  BY <1>33 DEF CloseBegin, LagInv, NoFault, CallTypes, LockTypes, CallInv, FencePCs, PutPCs,
     DeletePCs, GetPCs, SavePCs, ExclPCs, Goto, fileVars, diskVars, lockVars, callVars
<1>34. ASSUME NEW p \in Clients, WUnlock(p) PROVE LagInv'
  BY <1>34 DEF WUnlock, LagInv, NoFault, CallTypes, LockTypes, CallInv, FencePCs, PutPCs,
     DeletePCs, GetPCs, SavePCs, ExclPCs, Answer, storeVars, fileVars, diskVars
<1>35. ASSUME NEW p \in Clients, CallFail(p) PROVE LagInv'
  BY <1>35 DEF CallFail, LagInv, NoFault, CallTypes, LockTypes, CallInv, FencePCs, PutPCs,
     DeletePCs, GetPCs, SavePCs, ExclPCs, Goto, Answer, storeVars, fileVars, diskVars,
     lockVars
<1>36. ASSUME NEW p \in Clients, PutAddRefFail(p) PROVE LagInv'
  <2>1. NoFault(DurableKinds)' => NoFault(DurableKinds)
    <3>1. UNCHANGED faults \/ \E k \in FaultKinds : Fault(k)
      BY <1>36 DEF PutAddRefFail, FaultKinds
    <3> QED BY <3>1, FaultsGrow DEF StoreTypes
  <2>2. UNCHANGED <<idx, idxFile>>
    BY <1>36 DEF PutAddRefFail, storeVars
  <2>3. \A q \in Clients : q # p => \/ pc'[q] = pc[q] /\ seen'[q] = seen[q]
                                    \/ pc[q] \notin {"del_man", "save_idx"} /\ pc'[q] # "put_undo"
    BY <1>36 DEF PutAddRefFail, CallTypes, Goto
  <2>4. /\ pc'[p] # "put_undo"
        /\ \/ pc[p] \notin {"del_man", "save_idx"}
           \/ pc'[p] \in {"del_man", "save_idx"} /\ seen'[p] = seen[p]
    BY <1>36 DEF PutAddRefFail, CallTypes, Goto
  <2>5. \A o \in Objects : \/ objLock'[o] = objLock[o]
                           \/ objLock[o] = NoClient
                           \/ objLock[o] = p /\ pc[p] \notin {"del_man", "save_idx"}
    BY <1>36 DEF PutAddRefFail, lockVars
  <2> QED BY <2>1, <2>2, <2>3, <2>4, <2>5, LagFrame DEF Typing, TypeOK
<1>37. ASSUME NEW p \in Clients, DeleteSubRefFail(p) PROVE LagInv'
  <2>1. NoFault(DurableKinds)' => NoFault(DurableKinds)
    <3>1. UNCHANGED faults \/ \E k \in FaultKinds : Fault(k)
      BY <1>37 DEF DeleteSubRefFail, FaultKinds
    <3> QED BY <3>1, FaultsGrow DEF StoreTypes
  <2>2. UNCHANGED <<idx, idxFile>>
    BY <1>37 DEF DeleteSubRefFail, storeVars
  <2>3. \A q \in Clients : q # p => \/ pc'[q] = pc[q] /\ seen'[q] = seen[q]
                                    \/ pc[q] \notin {"del_man", "save_idx"} /\ pc'[q] # "put_undo"
    BY <1>37 DEF DeleteSubRefFail, CallTypes, Goto
  <2>4. /\ pc'[p] # "put_undo"
        /\ \/ pc[p] \notin {"del_man", "save_idx"}
           \/ pc'[p] \in {"del_man", "save_idx"} /\ seen'[p] = seen[p]
    BY <1>37 DEF DeleteSubRefFail, CallTypes, Goto
  <2>5. \A o \in Objects : \/ objLock'[o] = objLock[o]
                           \/ objLock[o] = NoClient
                           \/ objLock[o] = p /\ pc[p] \notin {"del_man", "save_idx"}
    BY <1>37 DEF DeleteSubRefFail, lockVars
  <2> QED BY <2>1, <2>2, <2>3, <2>4, <2>5, LagFrame DEF Typing, TypeOK
<1>38. ASSUME NEW p \in Clients, DeleteManifestFail(p) PROVE LagInv'
  <2>1. faults' = Append(faults, "remove")
    BY <1>38 DEF DeleteManifestFail, Fault
  <2>2. ~NoFault({"save", "rename", "remove"})'
    BY <2>1, FaultSeen DEF StoreTypes
  <2> QED BY <2>2 DEF LagInv
<1>39. ASSUME NEW p \in Clients, PersistFail(p) PROVE LagInv'
  <2>1. faults' = Append(faults, "save")
    BY <1>39 DEF PersistFail, Fault
  <2>2. ~NoFault({"save", "rename", "remove"})'
    BY <2>1, FaultSeen DEF StoreTypes
  <2> QED BY <2>2 DEF LagInv
<1>40. ASSUME NEW p \in Clients, GCFail(p) PROVE LagInv'
  BY <1>40 DEF GCFail, LagInv, NoFault, CallTypes, LockTypes, CallInv, FencePCs, PutPCs,
     DeletePCs, GetPCs, SavePCs, ExclPCs, Goto, Answer, storeVars, fileVars, diskVars,
     lockVars
<1>41. ASSUME NEW p \in Clients, GCSkip(p) PROVE LagInv'
  <2>1. NoFault(DurableKinds)' => NoFault(DurableKinds)
    <3>1. UNCHANGED faults \/ \E k \in FaultKinds : Fault(k)
      BY <1>41 DEF GCSkip, FaultKinds
    <3> QED BY <3>1, FaultsGrow DEF StoreTypes
  <2>2. UNCHANGED <<idx, idxFile>>
    BY <1>41 DEF GCSkip, storeVars, diskVars
  <2>3. \A q \in Clients : q # p => \/ pc'[q] = pc[q] /\ seen'[q] = seen[q]
                                    \/ pc[q] \notin {"del_man", "save_idx"} /\ pc'[q] # "put_undo"
    BY <1>41 DEF GCSkip, CallTypes, callVars
  <2>4. /\ pc'[p] # "put_undo"
        /\ \/ pc[p] \notin {"del_man", "save_idx"}
           \/ pc'[p] \in {"del_man", "save_idx"} /\ seen'[p] = seen[p]
    BY <1>41 DEF GCSkip, CallTypes, callVars
  <2>5. \A o \in Objects : \/ objLock'[o] = objLock[o]
                           \/ objLock[o] = NoClient
                           \/ objLock[o] = p /\ pc[p] \notin {"del_man", "save_idx"}
    BY <1>41 DEF GCSkip, lockVars
  <2> QED BY <2>1, <2>2, <2>3, <2>4, <2>5, LagFrame DEF Typing, TypeOK
<1>42. CASE UNCHANGED vars
    BY <1>42 DEF vars, storeVars, diskVars, lockVars, callVars, LagInv, NoFault
<1> QED BY <1>1, <1>2, <1>3, <1>4, <1>5, <1>6, <1>7, <1>8, <1>9, <1>10, <1>11, <1>12, <1>13,
   <1>14, <1>15, <1>16, <1>17, <1>18, <1>19, <1>20, <1>21, <1>22, <1>23, <1>24, <1>25,
   <1>26, <1>27, <1>28, <1>29, <1>30, <1>31, <1>32, <1>33, <1>34, <1>35, <1>36, <1>37,
   <1>38, <1>39, <1>40, <1>41, <1>42 DEF Next, Call, Step, Failure, PutStep, DeleteStep,
   PersistStep, PersistBegin, GetStep, ExclStep

-----------------------------------------------------------------------------
(* Counts and their journal *)

\* A step of p that changes no count, writes no file and no record, and does
\* not end what p owes.
LEMMA DirtyFrame ==
    ASSUME Typing, DirtyInv, NEW p \in Clients,
           NoFault(FaultKinds)' => NoFault(FaultKinds),
           UNCHANGED <<refs, refsFile, journal>>,
           \A q \in Clients : OwesRefs(q) => OwesRefs(q)',
           \A q \in Clients : OwesTruncate(q) => OwesTruncate(q)'
    PROVE  DirtyInv'
BY DEF DirtyInv

\* Every step keeps DirtyInv.
LEMMA DirtyStep == Typing /\ LockInv /\ RefsCover /\ DirtyInv /\ [Next]_vars => DirtyInv'
<1> SUFFICES ASSUME Typing, LockInv, RefsCover, DirtyInv, [Next]_vars
             PROVE  DirtyInv'
  OBVIOUS
<1> USE DEF Typing, TypeOK
<1>1. ASSUME NEW p \in Clients, CallShared(p) PROVE DirtyInv'
  BY <1>1 DEF CallShared, DirtyInv, NoFault, CallTypes, OwesRefs, OwesTruncate, InObject,
     CallInv, FencePCs, PutPCs, DeletePCs, GetPCs, SavePCs, ExclPCs, SharedOps, ExclOps,
     Goto, storeVars, fileVars, diskVars, lockVars
<1>2. ASSUME NEW p \in Clients, CallExclusive(p) PROVE DirtyInv'
  BY <1>2 DEF CallExclusive, DirtyInv, NoFault, CallTypes, OwesRefs, OwesTruncate, InObject,
     CallInv, FencePCs, PutPCs, DeletePCs, GetPCs, SavePCs, ExclPCs, SharedOps, ExclOps,
     Goto, storeVars, fileVars, diskVars, lockVars
<1>3. ASSUME NEW p \in Clients, RLock(p) PROVE DirtyInv'
  <2>1. NoFault(FaultKinds)' => NoFault(FaultKinds)
    BY <1>3 DEF RLock, NoFault
  <2>2. UNCHANGED <<refs, refsFile, journal>>
    BY <1>3 DEF RLock, storeVars, diskVars
  <2>3. \A q \in Clients : OwesRefs(q) => OwesRefs(q)'
    BY <1>3 DEF RLock, CallTypes, InObject, SavePCs, CallInv, ExclPCs, FencePCs, PutPCs,
       DeletePCs, GetPCs, ExclOps, SharedOps, Goto, callVars, OwesRefs
  <2>4. \A q \in Clients : OwesTruncate(q) => OwesTruncate(q)'
    BY <1>3 DEF RLock, CallTypes, InObject, SavePCs, CallInv, ExclPCs, FencePCs, PutPCs,
       DeletePCs, GetPCs, ExclOps, SharedOps, Goto, callVars, OwesRefs, OwesTruncate
  <2> QED BY <2>1, <2>2, <2>3, <2>4, DirtyFrame DEF Typing, TypeOK
<1>4. ASSUME NEW p \in Clients, EnterClosed(p) PROVE DirtyInv'
  <2>1. NoFault(FaultKinds)' => NoFault(FaultKinds)
    BY <1>4 DEF EnterClosed, NoFault
  <2>2. UNCHANGED <<refs, refsFile, journal>>
    BY <1>4 DEF EnterClosed, storeVars, diskVars
  <2>3. \A q \in Clients : OwesRefs(q) => OwesRefs(q)'
    BY <1>4 DEF EnterClosed, CallTypes, InObject, SavePCs, CallInv, ExclPCs, FencePCs,
       PutPCs, DeletePCs, GetPCs, ExclOps, SharedOps, Goto, OwesRefs
  <2>4. \A q \in Clients : OwesTruncate(q) => OwesTruncate(q)'
    BY <1>4 DEF EnterClosed, CallTypes, InObject, SavePCs, CallInv, ExclPCs, FencePCs,
       PutPCs, DeletePCs, GetPCs, ExclOps, SharedOps, Goto, OwesRefs, OwesTruncate
  <2> QED BY <2>1, <2>2, <2>3, <2>4, DirtyFrame DEF Typing, TypeOK
<1>5. ASSUME NEW p \in Clients, Enter(p) PROVE DirtyInv'
  <2>1. NoFault(FaultKinds)' => NoFault(FaultKinds)
    BY <1>5 DEF Enter, NoFault
  <2>2. UNCHANGED <<refs, refsFile, journal>>
    BY <1>5 DEF Enter, storeVars, diskVars
  <2>3. \A q \in Clients : OwesRefs(q) => OwesRefs(q)'
    BY <1>5 DEF Enter, CallTypes, InObject, SavePCs, CallInv, ExclPCs, FencePCs, PutPCs,
       DeletePCs, GetPCs, ExclOps, SharedOps, Goto, OwesRefs
  <2>4. \A q \in Clients : OwesTruncate(q) => OwesTruncate(q)'
    BY <1>5 DEF Enter, CallTypes, InObject, SavePCs, CallInv, ExclPCs, FencePCs, PutPCs,
       DeletePCs, GetPCs, ExclOps, SharedOps, Goto, OwesRefs, OwesTruncate
  <2> QED BY <2>1, <2>2, <2>3, <2>4, DirtyFrame DEF Typing, TypeOK
<1>6. ASSUME NEW p \in Clients, Finish(p) PROVE DirtyInv'
  <2>1. NoFault(FaultKinds)' => NoFault(FaultKinds)
    BY <1>6 DEF Finish, NoFault
  <2>2. UNCHANGED <<refs, refsFile, journal>>
    BY <1>6 DEF Finish, storeVars, diskVars
  <2>3. \A q \in Clients : OwesRefs(q) => OwesRefs(q)'
    BY <1>6 DEF Finish, CallTypes, InObject, SavePCs, CallInv, ExclPCs, FencePCs, PutPCs,
       DeletePCs, GetPCs, ExclOps, SharedOps, Goto, OwesRefs
  <2>4. \A q \in Clients : OwesTruncate(q) => OwesTruncate(q)'
    BY <1>6 DEF Finish, CallTypes, InObject, SavePCs, CallInv, ExclPCs, FencePCs, PutPCs,
       DeletePCs, GetPCs, ExclOps, SharedOps, Goto, OwesRefs, OwesTruncate
  <2> QED BY <2>1, <2>2, <2>3, <2>4, DirtyFrame DEF Typing, TypeOK
<1>7. ASSUME NEW p \in Clients, PutChunk(p) PROVE DirtyInv'
  BY <1>7 DEF PutChunk, DirtyInv, NoFault, CallTypes, OwesRefs, OwesTruncate, InObject,
     CallInv, FencePCs, PutPCs, DeletePCs, GetPCs, SavePCs, ExclPCs, SharedOps, ExclOps,
     storeVars, diskVars, lockVars
<1>8. ASSUME NEW p \in Clients, PutLock(p) PROVE DirtyInv'
  <2>1. NoFault(FaultKinds)' => NoFault(FaultKinds)
    BY <1>8 DEF PutLock, NoFault
  <2>2. UNCHANGED <<refs, refsFile, journal>>
    BY <1>8 DEF PutLock, storeVars, diskVars
  <2>3. \A q \in Clients : OwesRefs(q) => OwesRefs(q)'
    BY <1>8 DEF PutLock, CallTypes, InObject, SavePCs, CallInv, ExclPCs, FencePCs, PutPCs,
       DeletePCs, GetPCs, ExclOps, SharedOps, Goto, OwesRefs
  <2>4. \A q \in Clients : OwesTruncate(q) => OwesTruncate(q)'
    BY <1>8 DEF PutLock, CallTypes, InObject, SavePCs, CallInv, ExclPCs, FencePCs, PutPCs,
       DeletePCs, GetPCs, ExclOps, SharedOps, Goto, OwesRefs, OwesTruncate
  <2> QED BY <2>1, <2>2, <2>3, <2>4, DirtyFrame DEF Typing, TypeOK
<1>9. ASSUME NEW p \in Clients, PutBump(p) PROVE DirtyInv'
  BY <1>9 DEF PutBump, DirtyInv, NoFault, CallTypes, OwesRefs, OwesTruncate, InObject,
     CallInv, FencePCs, PutPCs, DeletePCs, GetPCs, SavePCs, ExclPCs, SharedOps, ExclOps,
     Goto, fileVars, diskVars, lockVars, callVars
<1>10. ASSUME NEW p \in Clients, PutUndo(p) PROVE DirtyInv'
  <2>1. NoFault(FaultKinds)' => NoFault(FaultKinds)
    BY <1>10 DEF PutUndo, NoFault
  <2>2. UNCHANGED <<refs, refsFile, journal>>
    BY <1>10 DEF PutUndo, diskVars
  <2>3. \A q \in Clients : OwesRefs(q) => OwesRefs(q)'
    BY <1>10 DEF PutUndo, CallTypes, InObject, SavePCs, CallInv, ExclPCs, FencePCs, PutPCs,
       DeletePCs, GetPCs, ExclOps, SharedOps, Goto, callVars, OwesRefs
  <2>4. \A q \in Clients : OwesTruncate(q) => OwesTruncate(q)'
    BY <1>10 DEF PutUndo, CallTypes, InObject, SavePCs, CallInv, ExclPCs, FencePCs, PutPCs,
       DeletePCs, GetPCs, ExclOps, SharedOps, Goto, callVars, OwesRefs, OwesTruncate
  <2> QED BY <2>1, <2>2, <2>3, <2>4, DirtyFrame DEF Typing, TypeOK
<1>11. ASSUME NEW p \in Clients, PutManifest(p) PROVE DirtyInv'
  BY <1>11 DEF PutManifest, DirtyInv, NoFault, CallTypes, OwesRefs, OwesTruncate, InObject,
     CallInv, FencePCs, PutPCs, DeletePCs, GetPCs, SavePCs, ExclPCs, SharedOps, ExclOps,
     Goto, storeVars, diskVars, lockVars
<1>12. ASSUME NEW p \in Clients, PutAddRef(p) PROVE DirtyInv'
  BY <1>12 DEF PutAddRef, DirtyInv, NoFault, CallTypes, OwesRefs, OwesTruncate, InObject,
     CallInv, FencePCs, PutPCs, DeletePCs, GetPCs, SavePCs, ExclPCs, SharedOps, ExclOps,
     fileVars, lockVars
<1>13. ASSUME NEW p \in Clients, PutIndex(p) PROVE DirtyInv'
  BY <1>13 DEF PutIndex, DirtyInv, NoFault, CallTypes, OwesRefs, OwesTruncate, InObject,
     CallInv, FencePCs, PutPCs, DeletePCs, GetPCs, SavePCs, ExclPCs, SharedOps, ExclOps,
     Goto, fileVars, diskVars, lockVars, callVars
<1>14. ASSUME NEW p \in Clients, DeleteLock(p) PROVE DirtyInv'
  <2>1. NoFault(FaultKinds)' => NoFault(FaultKinds)
    BY <1>14 DEF DeleteLock, NoFault
  <2>2. UNCHANGED <<refs, refsFile, journal>>
    BY <1>14 DEF DeleteLock, storeVars, diskVars
  <2>3. \A q \in Clients : OwesRefs(q) => OwesRefs(q)'
    BY <1>14 DEF DeleteLock, CallTypes, InObject, SavePCs, CallInv, ExclPCs, FencePCs,
       PutPCs, DeletePCs, GetPCs, ExclOps, SharedOps, Goto, OwesRefs
  <2>4. \A q \in Clients : OwesTruncate(q) => OwesTruncate(q)'
    BY <1>14 DEF DeleteLock, CallTypes, InObject, SavePCs, CallInv, ExclPCs, FencePCs,
       PutPCs, DeletePCs, GetPCs, ExclOps, SharedOps, Goto, OwesRefs, OwesTruncate
  <2> QED BY <2>1, <2>2, <2>3, <2>4, DirtyFrame DEF Typing, TypeOK
<1>15. ASSUME NEW p \in Clients, DeleteDec(p) PROVE DirtyInv'
  BY <1>15 DEF DeleteDec, DirtyInv, NoFault, CallTypes, OwesRefs, OwesTruncate, InObject,
     CallInv, FencePCs, PutPCs, DeletePCs, GetPCs, SavePCs, ExclPCs, SharedOps, ExclOps,
     Goto, fileVars, diskVars, lockVars, callVars
<1>16. ASSUME NEW p \in Clients, DeleteSubRef(p) PROVE DirtyInv'
  BY <1>16 DEF DeleteSubRef, DirtyInv, NoFault, CallTypes, OwesRefs, OwesTruncate, InObject,
     CallInv, FencePCs, PutPCs, DeletePCs, GetPCs, SavePCs, ExclPCs, SharedOps, ExclOps,
     fileVars, lockVars
<1>17. ASSUME NEW p \in Clients, DeleteUnderflow(p) PROVE DirtyInv'
  <2>1. ~NoFault({"sub"})
    BY <1>17, UnderflowNeedsFault DEF Typing, TypeOK
  <2>2. ~NoFault(FaultKinds)'
    BY <1>17, <2>1 DEF DeleteUnderflow, NoFault, FaultKinds
  <2> QED BY <2>2 DEF DirtyInv
<1>18. ASSUME NEW p \in Clients, DeleteIndex(p) PROVE DirtyInv'
  BY <1>18 DEF DeleteIndex, DirtyInv, NoFault, CallTypes, OwesRefs, OwesTruncate, InObject,
     CallInv, FencePCs, PutPCs, DeletePCs, GetPCs, SavePCs, ExclPCs, SharedOps, ExclOps,
     Goto, fileVars, diskVars, lockVars, callVars
<1>19. ASSUME NEW p \in Clients, DeleteManifest(p) PROVE DirtyInv'
  BY <1>19 DEF DeleteManifest, DirtyInv, NoFault, CallTypes, OwesRefs, OwesTruncate,
     InObject, CallInv, FencePCs, PutPCs, DeletePCs, GetPCs, SavePCs, ExclPCs, SharedOps,
     ExclOps, Goto, storeVars, diskVars, lockVars, callVars
<1>20. ASSUME NEW p \in Clients, PersistMemory(p) PROVE DirtyInv'
  BY <1>20 DEF PersistMemory, DirtyInv, NoFault, CallTypes, OwesRefs, OwesTruncate,
     InObject, CallInv, FencePCs, PutPCs, DeletePCs, GetPCs, SavePCs, ExclPCs, SharedOps,
     ExclOps, Answer, AfterPersist, Goto, storeVars, fileVars, diskVars, lockVars
<1>21. ASSUME NEW p \in Clients, PersistIndex(p) PROVE DirtyInv'
  <2>1. CASE idxFile' = idxFile /\ Fault("rename")
    <3>1. ~NoFault(FaultKinds)'
      BY <2>1, FaultSeen DEF StoreTypes, Fault, FaultKinds
    <3> QED BY <3>1 DEF DirtyInv
  <2>2. CASE idxFile' = idx /\ UNCHANGED faults
    <3>1. NoFault(FaultKinds)' => NoFault(FaultKinds)
      BY <2>2 DEF NoFault
    <3>2. UNCHANGED <<refs, refsFile, journal>>
      BY <1>21 DEF PersistIndex, storeVars
    <3>3. \A q \in Clients : OwesRefs(q) => OwesRefs(q)'
      BY <1>21 DEF PersistIndex, Goto, CallTypes, callVars, OwesRefs, InObject, SavePCs
    <3>4. \A q \in Clients : OwesTruncate(q) => OwesTruncate(q)'
      BY <1>21 DEF PersistIndex, Goto, CallTypes, callVars, OwesRefs, OwesTruncate,
         InObject, SavePCs
    <3> QED BY <3>1, <3>2, <3>3, <3>4, DirtyFrame DEF Typing, TypeOK
  <2> QED BY <1>21, <2>1, <2>2 DEF PersistIndex
<1>22. ASSUME NEW p \in Clients, PersistRefs(p) PROVE DirtyInv'
  <2>1. CASE refsFile' = refsFile /\ Fault("rename")
    <3>1. ~NoFault(FaultKinds)'
      BY <2>1, FaultSeen DEF StoreTypes, Fault, FaultKinds
    <3> QED BY <3>1 DEF DirtyInv
  <2>2. CASE refsFile' = refs /\ UNCHANGED faults
    <3>1. refsFile' = refs' /\ journal' = journal
      BY <1>22, <2>2 DEF PersistRefs, storeVars
    <3>2. \A q \in Clients : OwesTruncate(q) => OwesTruncate(q)'
      BY <1>22 DEF PersistRefs, Goto, CallTypes, callVars, OwesRefs, OwesTruncate, InObject,
         SavePCs
    <3> QED BY <2>2, <3>1, <3>2 DEF DirtyInv, NoFault
  <2> QED BY <1>22, <2>1, <2>2 DEF PersistRefs
<1>23. ASSUME NEW p \in Clients, PersistTruncate(p) PROVE DirtyInv'
  <2>1. journal' = <<>> /\ refs' = refs /\ refsFile' = refsFile /\ faults' = faults
    BY <1>23 DEF PersistTruncate, storeVars
  <2>2. \A q \in Clients : OwesRefs(q) => OwesRefs(q)'
    BY <1>23 DEF PersistTruncate, AfterPersist, Goto, CallTypes, OwesRefs, InObject, SavePCs
  <2> QED BY <2>1, <2>2 DEF DirtyInv, NoFault
<1>24. ASSUME NEW p \in Clients, GetLookup(p) PROVE DirtyInv'
  <2>1. NoFault(FaultKinds)' => NoFault(FaultKinds)
    BY <1>24 DEF GetLookup, NoFault
  <2>2. UNCHANGED <<refs, refsFile, journal>>
    BY <1>24 DEF GetLookup, storeVars, diskVars
  <2>3. \A q \in Clients : OwesRefs(q) => OwesRefs(q)'
    BY <1>24 DEF GetLookup, CallTypes, InObject, SavePCs, CallInv, ExclPCs, FencePCs,
       PutPCs, DeletePCs, GetPCs, ExclOps, SharedOps, Goto, OwesRefs
  <2>4. \A q \in Clients : OwesTruncate(q) => OwesTruncate(q)'
    BY <1>24 DEF GetLookup, CallTypes, InObject, SavePCs, CallInv, ExclPCs, FencePCs,
       PutPCs, DeletePCs, GetPCs, ExclOps, SharedOps, Goto, OwesRefs, OwesTruncate
  <2> QED BY <2>1, <2>2, <2>3, <2>4, DirtyFrame DEF Typing, TypeOK
<1>25. ASSUME NEW p \in Clients, GetLoad(p) PROVE DirtyInv'
  <2>1. NoFault(FaultKinds)' => NoFault(FaultKinds)
    BY <1>25 DEF GetLoad, NoFault
  <2>2. UNCHANGED <<refs, refsFile, journal>>
    BY <1>25 DEF GetLoad, storeVars, diskVars
  <2>3. \A q \in Clients : OwesRefs(q) => OwesRefs(q)'
    BY <1>25 DEF GetLoad, CallTypes, InObject, SavePCs, CallInv, ExclPCs, FencePCs, PutPCs,
       DeletePCs, GetPCs, ExclOps, SharedOps, Goto, OwesRefs
  <2>4. \A q \in Clients : OwesTruncate(q) => OwesTruncate(q)'
    BY <1>25 DEF GetLoad, CallTypes, InObject, SavePCs, CallInv, ExclPCs, FencePCs, PutPCs,
       DeletePCs, GetPCs, ExclOps, SharedOps, Goto, OwesRefs, OwesTruncate
  <2> QED BY <2>1, <2>2, <2>3, <2>4, DirtyFrame DEF Typing, TypeOK
<1>26. ASSUME NEW p \in Clients, ReadChunk(p) PROVE DirtyInv'
  BY <1>26 DEF ReadChunk, DirtyInv, NoFault, CallTypes, OwesRefs, OwesTruncate, InObject,
     CallInv, FencePCs, PutPCs, DeletePCs, GetPCs, SavePCs, ExclPCs, SharedOps, ExclOps,
     Answer, storeVars, fileVars, diskVars, lockVars
<1>27. ASSUME NEW p \in Clients, CloseReader(p) PROVE DirtyInv'
  <2>1. NoFault(FaultKinds)' => NoFault(FaultKinds)
    BY <1>27 DEF CloseReader, NoFault
  <2>2. UNCHANGED <<refs, refsFile, journal>>
    BY <1>27 DEF CloseReader, storeVars, diskVars
  <2>3. \A q \in Clients : OwesRefs(q) => OwesRefs(q)'
    BY <1>27 DEF CloseReader, CallTypes, InObject, SavePCs, CallInv, ExclPCs, FencePCs,
       PutPCs, DeletePCs, GetPCs, ExclOps, SharedOps, Goto, OwesRefs
  <2>4. \A q \in Clients : OwesTruncate(q) => OwesTruncate(q)'
    BY <1>27 DEF CloseReader, CallTypes, InObject, SavePCs, CallInv, ExclPCs, FencePCs,
       PutPCs, DeletePCs, GetPCs, ExclOps, SharedOps, Goto, OwesRefs, OwesTruncate
  <2> QED BY <2>1, <2>2, <2>3, <2>4, DirtyFrame DEF Typing, TypeOK
<1>28. ASSUME NEW p \in Clients, WLockAnnounce(p) PROVE DirtyInv'
  <2>1. NoFault(FaultKinds)' => NoFault(FaultKinds)
    BY <1>28 DEF WLockAnnounce, NoFault
  <2>2. UNCHANGED <<refs, refsFile, journal>>
    BY <1>28 DEF WLockAnnounce, storeVars, diskVars
  <2>3. \A q \in Clients : OwesRefs(q) => OwesRefs(q)'
    BY <1>28 DEF WLockAnnounce, CallTypes, InObject, SavePCs, CallInv, ExclPCs, FencePCs,
       PutPCs, DeletePCs, GetPCs, ExclOps, SharedOps, Goto, callVars, OwesRefs
  <2>4. \A q \in Clients : OwesTruncate(q) => OwesTruncate(q)'
    BY <1>28 DEF WLockAnnounce, CallTypes, InObject, SavePCs, CallInv, ExclPCs, FencePCs,
       PutPCs, DeletePCs, GetPCs, ExclOps, SharedOps, Goto, callVars, OwesRefs, OwesTruncate
  <2> QED BY <2>1, <2>2, <2>3, <2>4, DirtyFrame DEF Typing, TypeOK
<1>29. ASSUME NEW p \in Clients, WLockClosed(p) PROVE DirtyInv'
  <2>1. NoFault(FaultKinds)' => NoFault(FaultKinds)
    BY <1>29 DEF WLockClosed, NoFault
  <2>2. UNCHANGED <<refs, refsFile, journal>>
    BY <1>29 DEF WLockClosed, storeVars, diskVars
  <2>3. \A q \in Clients : OwesRefs(q) => OwesRefs(q)'
    BY <1>29 DEF WLockClosed, CallTypes, InObject, SavePCs, CallInv, ExclPCs, FencePCs,
       PutPCs, DeletePCs, GetPCs, ExclOps, SharedOps, Goto, OwesRefs
  <2>4. \A q \in Clients : OwesTruncate(q) => OwesTruncate(q)'
    BY <1>29 DEF WLockClosed, CallTypes, InObject, SavePCs, CallInv, ExclPCs, FencePCs,
       PutPCs, DeletePCs, GetPCs, ExclOps, SharedOps, Goto, OwesRefs, OwesTruncate
  <2> QED BY <2>1, <2>2, <2>3, <2>4, DirtyFrame DEF Typing, TypeOK
<1>30. ASSUME NEW p \in Clients, GCBegin(p) PROVE DirtyInv'
  <2>1. NoFault(FaultKinds)' => NoFault(FaultKinds)
    BY <1>30 DEF GCBegin, NoFault
  <2>2. UNCHANGED <<refs, refsFile, journal>>
    BY <1>30 DEF GCBegin, storeVars, diskVars
  <2>3. \A q \in Clients : OwesRefs(q) => OwesRefs(q)'
    BY <1>30 DEF GCBegin, CallTypes, InObject, SavePCs, CallInv, ExclPCs, FencePCs, PutPCs,
       DeletePCs, GetPCs, ExclOps, SharedOps, Goto, callVars, OwesRefs
  <2>4. \A q \in Clients : OwesTruncate(q) => OwesTruncate(q)'
    BY <1>30 DEF GCBegin, CallTypes, InObject, SavePCs, CallInv, ExclPCs, FencePCs, PutPCs,
       DeletePCs, GetPCs, ExclOps, SharedOps, Goto, callVars, OwesRefs, OwesTruncate
  <2> QED BY <2>1, <2>2, <2>3, <2>4, DirtyFrame DEF Typing, TypeOK
<1>31. ASSUME NEW p \in Clients, GCSweep(p) PROVE DirtyInv'
  BY <1>31 DEF GCSweep, DirtyInv, NoFault, CallTypes, OwesRefs, OwesTruncate, InObject,
     CallInv, FencePCs, PutPCs, DeletePCs, GetPCs, SavePCs, ExclPCs, SharedOps, ExclOps,
     storeVars, diskVars, lockVars, callVars
<1>32. ASSUME NEW p \in Clients, GCEnd(p) PROVE DirtyInv'
  BY <1>32 DEF GCEnd, DirtyInv, NoFault, CallTypes, OwesRefs, OwesTruncate, InObject,
     CallInv, FencePCs, PutPCs, DeletePCs, GetPCs, SavePCs, ExclPCs, SharedOps, ExclOps,
     Goto, storeVars, fileVars, diskVars, lockVars, callVars
<1>33. ASSUME NEW p \in Clients, CloseBegin(p) PROVE DirtyInv'
  BY <1>33 DEF CloseBegin, DirtyInv, NoFault, CallTypes, OwesRefs, OwesTruncate, InObject,
     CallInv, FencePCs, PutPCs, DeletePCs, GetPCs, SavePCs, ExclPCs, SharedOps, ExclOps,
     Goto, fileVars, diskVars, lockVars, callVars
<1>34. ASSUME NEW p \in Clients, WUnlock(p) PROVE DirtyInv'
  <2>1. NoFault(FaultKinds)' => NoFault(FaultKinds)
    BY <1>34 DEF WUnlock, NoFault
  <2>2. UNCHANGED <<refs, refsFile, journal>>
    BY <1>34 DEF WUnlock, storeVars, diskVars
  <2>3. \A q \in Clients : OwesRefs(q) => OwesRefs(q)'
    BY <1>34 DEF WUnlock, CallTypes, InObject, SavePCs, CallInv, ExclPCs, FencePCs, PutPCs,
       DeletePCs, GetPCs, ExclOps, SharedOps, OwesRefs
  <2>4. \A q \in Clients : OwesTruncate(q) => OwesTruncate(q)'
    BY <1>34 DEF WUnlock, CallTypes, InObject, SavePCs, CallInv, ExclPCs, FencePCs, PutPCs,
       DeletePCs, GetPCs, ExclOps, SharedOps, OwesRefs, OwesTruncate
  <2> QED BY <2>1, <2>2, <2>3, <2>4, DirtyFrame DEF Typing, TypeOK
<1>35. ASSUME NEW p \in Clients, CallFail(p) PROVE DirtyInv'
  <2>1. NoFault(FaultKinds)' => NoFault(FaultKinds)
    BY <1>35 DEF CallFail, NoFault
  <2>2. UNCHANGED <<refs, refsFile, journal>>
    BY <1>35 DEF CallFail, storeVars, diskVars
  <2>3. \A q \in Clients : OwesRefs(q) => OwesRefs(q)'
    BY <1>35 DEF CallFail, CallTypes, InObject, SavePCs, CallInv, ExclPCs, FencePCs, PutPCs,
       DeletePCs, GetPCs, ExclOps, SharedOps, Goto, OwesRefs
  <2>4. \A q \in Clients : OwesTruncate(q) => OwesTruncate(q)'
    BY <1>35 DEF CallFail, CallTypes, InObject, SavePCs, CallInv, ExclPCs, FencePCs, PutPCs,
       DeletePCs, GetPCs, ExclOps, SharedOps, Goto, OwesRefs, OwesTruncate
  <2> QED BY <2>1, <2>2, <2>3, <2>4, DirtyFrame DEF Typing, TypeOK
<1>36. ASSUME NEW p \in Clients, PutAddRefFail(p) PROVE DirtyInv'
  <2>1. faults' = Append(faults, "add")
    BY <1>36 DEF PutAddRefFail, Fault
  <2>2. ~NoFault(FaultKinds)'
    BY <2>1, FaultSeen DEF StoreTypes, FaultKinds
  <2> QED BY <2>2 DEF DirtyInv
<1>37. ASSUME NEW p \in Clients, DeleteSubRefFail(p) PROVE DirtyInv'
  <2>1. faults' = Append(faults, "sub")
    BY <1>37 DEF DeleteSubRefFail, Fault
  <2>2. ~NoFault(FaultKinds)'
    BY <2>1, FaultSeen DEF StoreTypes, FaultKinds
  <2> QED BY <2>2 DEF DirtyInv
<1>38. ASSUME NEW p \in Clients, DeleteManifestFail(p) PROVE DirtyInv'
  <2>1. faults' = Append(faults, "remove")
    BY <1>38 DEF DeleteManifestFail, Fault
  <2>2. ~NoFault(FaultKinds)'
    BY <2>1, FaultSeen DEF StoreTypes, FaultKinds
  <2> QED BY <2>2 DEF DirtyInv
<1>39. ASSUME NEW p \in Clients, PersistFail(p) PROVE DirtyInv'
  <2>1. faults' = Append(faults, "save")
    BY <1>39 DEF PersistFail, Fault
  <2>2. ~NoFault(FaultKinds)'
    BY <2>1, FaultSeen DEF StoreTypes, FaultKinds
  <2> QED BY <2>2 DEF DirtyInv
<1>40. ASSUME NEW p \in Clients, GCFail(p) PROVE DirtyInv'
  <2>1. NoFault(FaultKinds)' => NoFault(FaultKinds)
    BY <1>40 DEF GCFail, NoFault
  <2>2. UNCHANGED <<refs, refsFile, journal>>
    BY <1>40 DEF GCFail, storeVars, diskVars
  <2>3. \A q \in Clients : OwesRefs(q) => OwesRefs(q)'
    BY <1>40 DEF GCFail, CallTypes, InObject, SavePCs, CallInv, ExclPCs, FencePCs, PutPCs,
       DeletePCs, GetPCs, ExclOps, SharedOps, Goto, OwesRefs
  <2>4. \A q \in Clients : OwesTruncate(q) => OwesTruncate(q)'
    BY <1>40 DEF GCFail, CallTypes, InObject, SavePCs, CallInv, ExclPCs, FencePCs, PutPCs,
       DeletePCs, GetPCs, ExclOps, SharedOps, Goto, OwesRefs, OwesTruncate
  <2> QED BY <2>1, <2>2, <2>3, <2>4, DirtyFrame DEF Typing, TypeOK
<1>41. ASSUME NEW p \in Clients, GCSkip(p) PROVE DirtyInv'
  <2>1. faults' = Append(faults, "fetch")
    BY <1>41 DEF GCSkip, Fault
  <2>2. ~NoFault(FaultKinds)'
    BY <2>1, FaultSeen DEF StoreTypes, FaultKinds
  <2> QED BY <2>2 DEF DirtyInv
<1>42. CASE UNCHANGED vars
    BY <1>42 DEF vars, storeVars, diskVars, lockVars, callVars, DirtyInv, NoFault, OwesRefs,
       OwesTruncate, InObject
<1> QED BY <1>1, <1>2, <1>3, <1>4, <1>5, <1>6, <1>7, <1>8, <1>9, <1>10, <1>11, <1>12, <1>13,
   <1>14, <1>15, <1>16, <1>17, <1>18, <1>19, <1>20, <1>21, <1>22, <1>23, <1>24, <1>25,
   <1>26, <1>27, <1>28, <1>29, <1>30, <1>31, <1>32, <1>33, <1>34, <1>35, <1>36, <1>37,
   <1>38, <1>39, <1>40, <1>41, <1>42 DEF Next, Call, Step, Failure, PutStep, DeleteStep,
   PersistStep, PersistBegin, GetStep, ExclStep

-----------------------------------------------------------------------------

DiskInv == StoreInv /\ LagInv /\ DirtyInv

\* A store just opened satisfies the invariant about files.
LEMMA DiskInvInit == Init => DiskInv
<1>1. Init => LagInv /\ DirtyInv
  BY DEF Init, LagInv, DirtyInv
<1> QED BY <1>1, StoreInvInit DEF DiskInv

\* Every step keeps the invariant about files.
LEMMA DiskInvStep == DiskInv /\ [Next]_vars => DiskInv'
BY StoreInvStep, LagStep, DirtyStep DEF DiskInv, StoreInv, Discipline, RefsInv

\* The use counts on disk are those in memory, except for an object some call
\* is just changing: what a caller was told succeeded is on disk (Put, Delete,
\* persist), unless a file operation has failed before.
THEOREM IndexDurable == Spec => []DurableIndex
<1>1. DiskInv => DurableIndex
  BY DEF DiskInv, LagInv, DurableIndex
<1> QED BY <1>1, DiskInvInit, DiskInvStep, PTL DEF Spec

\* Between calls the counts on disk are those in memory and the journal is
\* empty, so that a reopen applies nothing twice (persist, Journal.Truncate).
THEOREM QuietDurable == Spec => []DurableWhenQuiet
<1>1. DiskInv => DurableWhenQuiet
  <2> SUFFICES ASSUME DiskInv, ~Memory, NoFault(FaultKinds),
                      \A o \in Objects : objLock[o] = NoClient
               PROVE  refsFile = refs /\ journal = <<>>
    BY DEF DurableWhenQuiet
  <2>1. \A p \in Clients : ~InObject(p)
    BY OwnLock DEF DiskInv, StoreInv, Discipline
  <2> QED BY <2>1 DEF DiskInv, DirtyInv, OwesRefs, OwesTruncate
<1> QED BY <1>1, DiskInvInit, DiskInvStep, PTL DEF Spec

\* All of the above at once, the invariant the runs check.
THEOREM Safe == Spec => []SafetyInv
<1>1. DiskInv => SafetyInv
  BY DEF DiskInv, StoreInv, Discipline, RefsInv, ChunkInv, SafetyInv
<1> QED BY <1>1, DiskInvInit, DiskInvStep, PTL DEF Spec
=============================================================================
