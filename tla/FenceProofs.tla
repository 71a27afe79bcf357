----------------------------- MODULE FenceProofs -----------------------------
(* Proofs about Fence for every value of its constants. *)
EXTENDS Fence, TLAPS, FiniteSetTheorems

Typing ==
    /\ reads \in [Clients -> 0..MaxReads] /\ writer \in Clients \cup {NoClient}
    /\ active \in Int
    /\ objs \in [Objects -> Locks \cup {NoLock}]
    /\ waiters \in [Locks -> Int]
    /\ holder \in [Locks -> Clients \cup {NoClient}]
    /\ obj \in [Clients -> Objects \cup {NoObject}]
    /\ mine \in [Clients -> Locks \cup {NoLock}]
    /\ pc \in [Clients -> PCs]

\* Where a client is tells whether it has the read lock, and whether it can
\* still get another.
ReadersInv == \A p \in Clients :
    /\ pc[p] \in {"idle", "trying", "exclusive"} => reads[p] = 0
    /\ pc[p] \in {"counting", "inside", "leaving", "counted"} \cup LockPCs => reads[p] > 0
    /\ pc[p] \in {"rlock", "rwait"} => reads[p] < MaxReads

\* Readers wait for somebody, and the write lock excludes every reader.
WriterInv == \A p \in Clients :
    /\ pc[p] \in {"wwait", "exclusive"} <=> writer = p
    /\ pc[p] = "rwait" => writer # NoClient
    /\ pc[p] = "exclusive" => \A q \in Clients : reads[q] = 0

\* The read locks of a client that Fence.active counts, and all of them.
Counted(p) == IF pc[p] \in {"counting", "counted"} THEN reads[p] - 1 ELSE reads[p]
InFlight == {c \in Clients \X (1..MaxReads) : c[2] <= Counted(c[1])}

CountInv == active = Cardinality(InFlight)

\* The calls that have found lock l and not given it back.
Users(l) == {p \in Clients : mine[p] = l}

\* What a call found is what the map says, and the map says it for one object.
FoundInv ==
    /\ \A p \in Clients :
         /\ pc[p] \in LockPCs <=> obj[p] # NoObject
         /\ pc[p] \in LockPCs <=> mine[p] # NoLock
         /\ pc[p] \in LockPCs => objs[obj[p]] = mine[p]
    /\ \A o1, o2 \in Objects : objs[o1] = objs[o2] /\ objs[o1] # NoLock => o1 = o2

WaitersInv == \A l \in Locks : waiters[l] = Cardinality(Users(l))

HolderInv ==
    /\ \A l \in Locks : holder[l] # NoClient =>
         pc[holder[l]] = "holding" /\ mine[holder[l]] = l
    /\ \A p \in Clients : pc[p] = "holding" => holder[mine[p]] = p

FenceInv == /\ Typing /\ ReadersInv /\ WriterInv /\ CountInv
            /\ FoundInv /\ MapExact /\ WaitersInv /\ HolderInv

-----------------------------------------------------------------------------
(* Types and read locks *)

\* A fence nobody has used yet.
LEMMA TypingInit == Init => Typing /\ ReadersInv /\ WriterInv
  BY NoneAssumption, BoundsAssumption
     DEF Init, Typing, ReadersInv, WriterInv, PCs, LockPCs

\* Every step keeps the types, and the number of read locks fits the place.
LEMMA TypingStep == Typing /\ ReadersInv /\ [Next]_vars => Typing' /\ ReadersInv'
<1> SUFFICES ASSUME Typing, ReadersInv, [Next]_vars
             PROVE  Typing' /\ ReadersInv'
  OBVIOUS
<1> USE BoundsAssumption DEF Typing, ReadersInv, PCs, LockPCs, Goto
<1>1. ASSUME NEW p \in Clients, Call(p) PROVE Typing' /\ ReadersInv'
  BY <1>1 DEF Call, ioVars, mapVars
<1>2. ASSUME NEW p \in Clients, CallAgain(p) PROVE Typing' /\ ReadersInv'
  BY <1>2 DEF CallAgain, ioVars, mapVars
<1>3. ASSUME NEW p \in Clients, FindLock(p) PROVE Typing' /\ ReadersInv'
  BY <1>3 DEF FindLock, ioVars
<1>4. ASSUME NEW p \in Clients, RLock(p) PROVE Typing' /\ ReadersInv'
  BY <1>4 DEF RLock, mapVars
<1>5. ASSUME NEW p \in Clients, Count(p) PROVE Typing' /\ ReadersInv'
  BY <1>5 DEF Count, mapVars
<1>6. ASSUME NEW p \in Clients, Uncount(p) PROVE Typing' /\ ReadersInv'
  BY <1>6 DEF Uncount, mapVars
<1>7. ASSUME NEW p \in Clients, RUnlock(p) PROVE Typing' /\ ReadersInv'
  BY <1>7 DEF RUnlock, mapVars
<1>8. ASSUME NEW p \in Clients, TryExclusive(p) PROVE Typing' /\ ReadersInv'
  BY <1>8 DEF TryExclusive, ioVars, mapVars
<1>9. ASSUME NEW p \in Clients, WLockAnnounce(p) PROVE Typing' /\ ReadersInv'
  BY <1>9 DEF WLockAnnounce, mapVars
<1>10. ASSUME NEW p \in Clients, WLock(p) PROVE Typing' /\ ReadersInv'
  BY <1>10 DEF WLock, ioVars, mapVars
<1>11. ASSUME NEW p \in Clients, WUnlock(p) PROVE Typing' /\ ReadersInv'
  BY <1>11 DEF WUnlock, mapVars
<1>12. ASSUME NEW p \in Clients, Acquire(p) PROVE Typing' /\ ReadersInv'
  BY <1>12 DEF Acquire, ioVars
<1>13. ASSUME NEW p \in Clients, Release(p) PROVE Typing' /\ ReadersInv'
  BY <1>13 DEF Release, ioVars
<1>14. ASSUME NEW p \in Clients, ReturnLock(p) PROVE Typing' /\ ReadersInv'
  <2>1. waiters' \in [Locks -> Int]
    <3>1. ASSUME NEW l \in Locks
          PROVE  (IF l = mine[p] THEN waiters[mine[p]] - 1 ELSE waiters[l]) \in Int
      OBVIOUS
    <3> QED BY <1>14, <3>1 DEF ReturnLock
  <2>2. objs' \in [Objects -> Locks \cup {NoLock}]
    BY <1>14 DEF ReturnLock
  <2> QED BY <1>14, <2>1, <2>2 DEF ReturnLock, ioVars
<1>15. CASE UNCHANGED vars
  BY <1>15 DEF vars, ioVars, mapVars
<1> QED
  BY <1>1, <1>2, <1>3, <1>4, <1>5, <1>6, <1>7, <1>8, <1>9, <1>10, <1>11, <1>12, <1>13, <1>14, <1>15 DEF Next, Step

-----------------------------------------------------------------------------
(* The write lock *)

\* Every step keeps the writer alone with the lock it announced.
LEMMA WriterStep ==
    Typing /\ ReadersInv /\ WriterInv /\ [Next]_vars => WriterInv'
<1> SUFFICES ASSUME Typing, ReadersInv, WriterInv, [Next]_vars
             PROVE  WriterInv'
  OBVIOUS
<1> USE NoneAssumption DEF Typing, ReadersInv, WriterInv, PCs, LockPCs, Goto
<1>1. ASSUME NEW p \in Clients, Call(p) PROVE WriterInv'
  BY <1>1 DEF Call, ioVars
<1>2. ASSUME NEW p \in Clients, CallAgain(p) PROVE WriterInv'
  BY <1>2 DEF CallAgain, ioVars
<1>3. ASSUME NEW p \in Clients, FindLock(p) PROVE WriterInv'
  BY <1>3 DEF FindLock, ioVars
<1>4. ASSUME NEW p \in Clients, RLock(p) PROVE WriterInv'
  BY <1>4 DEF RLock, mapVars
<1>5. ASSUME NEW p \in Clients, Count(p) PROVE WriterInv'
  BY <1>5 DEF Count, mapVars
<1>6. ASSUME NEW p \in Clients, Uncount(p) PROVE WriterInv'
  BY <1>6 DEF Uncount, mapVars
<1>7. ASSUME NEW p \in Clients, RUnlock(p) PROVE WriterInv'
  BY <1>7 DEF RUnlock, mapVars
<1>8. ASSUME NEW p \in Clients, TryExclusive(p) PROVE WriterInv'
  BY <1>8 DEF TryExclusive, ioVars
<1>9. ASSUME NEW p \in Clients, WLockAnnounce(p) PROVE WriterInv'
  BY <1>9 DEF WLockAnnounce, mapVars
<1>10. ASSUME NEW p \in Clients, WLock(p) PROVE WriterInv'
  BY <1>10 DEF WLock, ioVars
<1>11. ASSUME NEW p \in Clients, WUnlock(p) PROVE WriterInv'
  BY <1>11 DEF WUnlock, mapVars
<1>12. ASSUME NEW p \in Clients, Acquire(p) PROVE WriterInv'
  BY <1>12 DEF Acquire, ioVars
<1>13. ASSUME NEW p \in Clients, Release(p) PROVE WriterInv'
  BY <1>13 DEF Release, ioVars
<1>14. ASSUME NEW p \in Clients, ReturnLock(p) PROVE WriterInv'
  BY <1>14 DEF ReturnLock, ioVars
<1>15. CASE UNCHANGED vars
  BY <1>15 DEF vars, ioVars
<1> QED
  BY <1>1, <1>2, <1>3, <1>4, <1>5, <1>6, <1>7, <1>8, <1>9, <1>10, <1>11, <1>12, <1>13, <1>14, <1>15 DEF Next, Step

-----------------------------------------------------------------------------
(* The count of calls in flight *)

\* There are finitely many read locks to count.
LEMMA InFlightFinite ==
    /\ IsFiniteSet(InFlight) /\ Cardinality(InFlight) \in Nat
    /\ Cardinality(InFlight) <= Cardinality(Clients) * MaxReads
<1>1. IsFiniteSet(1..MaxReads) /\ Cardinality(1..MaxReads) = MaxReads
  BY FS_Interval, BoundsAssumption
<1>2. /\ IsFiniteSet(Clients \X (1..MaxReads))
      /\ Cardinality(Clients \X (1..MaxReads)) = Cardinality(Clients) * Cardinality(1..MaxReads)
  BY <1>1, FS_Product, BoundsAssumption
<1>3. InFlight \in SUBSET (Clients \X (1..MaxReads))
  BY DEF InFlight
<1>4. IsFiniteSet(InFlight) /\ Cardinality(InFlight) <= Cardinality(Clients \X (1..MaxReads))
  BY <1>2, <1>3, FS_Subset
<1> QED BY <1>1, <1>2, <1>4, FS_CardinalityType

\* A step that leaves what is counted of every client leaves the set.
LEMMA InFlightSame ==
    ASSUME \A q \in Clients : Counted(q)' = Counted(q)
    PROVE  InFlight' = InFlight
  BY DEF InFlight

\* At first no call is in flight.
LEMMA CountInit == Init => CountInv
<1> SUFFICES ASSUME Init PROVE CountInv
  OBVIOUS
<1>1. InFlight = {}
  BY DEF Init, InFlight, Counted
<1> QED BY <1>1, FS_EmptySet DEF CountInv, Init

\* Fence.active counts the read locks that have been counted in and not out.
LEMMA CountStep ==
    Typing /\ ReadersInv /\ CountInv /\ [Next]_vars => CountInv'
<1> SUFFICES ASSUME Typing, ReadersInv, CountInv, [Next]_vars
             PROVE  CountInv'
  OBVIOUS
<1> USE DEF Typing, ReadersInv, PCs, LockPCs, Goto
<1>1. ASSUME NEW p \in Clients, Call(p) PROVE CountInv'
  <2>1. \A q \in Clients : Counted(q)' = Counted(q)
    BY <1>1 DEF Call, ioVars, Counted
  <2> QED BY <1>1, <2>1, InFlightSame DEF Call, ioVars, CountInv
<1>2. ASSUME NEW p \in Clients, CallAgain(p) PROVE CountInv'
  <2>1. \A q \in Clients : Counted(q)' = Counted(q)
    BY <1>2 DEF CallAgain, ioVars, Counted
  <2> QED BY <1>2, <2>1, InFlightSame DEF CallAgain, ioVars, CountInv
<1>3. ASSUME NEW p \in Clients, FindLock(p) PROVE CountInv'
  <2>1. \A q \in Clients : Counted(q)' = Counted(q)
    BY <1>3 DEF FindLock, ioVars, Counted
  <2> QED BY <1>3, <2>1, InFlightSame DEF FindLock, ioVars, CountInv
<1>4. ASSUME NEW p \in Clients, RLock(p) PROVE CountInv'
  <2>1. \A q \in Clients : Counted(q)' = Counted(q)
    BY <1>4 DEF RLock, mapVars, Counted
  <2> QED BY <1>4, <2>1, InFlightSame DEF RLock, mapVars, CountInv
<1>5. ASSUME NEW p \in Clients, Count(p) PROVE CountInv'
  <2> DEFINE new == <<p, reads[p]>>
  <2>1. reads[p] \in 1..MaxReads
    BY <1>5 DEF Count
  <2>2. /\ Counted(p) = reads[p] - 1 /\ Counted(p)' = reads[p]
        /\ \A q \in Clients \ {p} : Counted(q)' = Counted(q)
    BY <1>5 DEF Count, Counted
  <2>3. new \in Clients \X (1..MaxReads) /\ new \notin InFlight
    BY <2>1, <2>2 DEF InFlight
  <2>4. InFlight' = InFlight \cup {new}
    <3>1. ASSUME NEW q \in Clients, NEW i \in 1..MaxReads
          PROVE  i <= Counted(q)' <=> i <= Counted(q) \/ <<q, i>> = new
      <4>1. Counted(q) \in Int /\ Counted(q)' \in Int
        BY <1>5 DEF Count, Counted
      <4>2. CASE q = p
        BY <4>2, <2>1, <2>2
      <4>3. CASE q # p
        BY <4>3, <2>2
      <4> QED BY <4>2, <4>3
    <3> QED BY <2>3, <3>1 DEF InFlight
  <2>5. Cardinality(InFlight') = Cardinality(InFlight) + 1
    BY <2>3, <2>4, InFlightFinite, FS_AddElement
  <2> QED BY <1>5, <2>5 DEF Count, CountInv
<1>6. ASSUME NEW p \in Clients, Uncount(p) PROVE CountInv'
  <2> DEFINE new == <<p, reads[p]>>
  <2>1. reads[p] \in 1..MaxReads
    BY <1>6 DEF Uncount
  <2>2. /\ Counted(p) = reads[p] /\ Counted(p)' = reads[p] - 1
        /\ \A q \in Clients \ {p} : Counted(q)' = Counted(q)
    BY <1>6 DEF Uncount, Counted
  <2>3. new \in Clients \X (1..MaxReads) /\ new \in InFlight
    BY <2>1, <2>2 DEF InFlight
  <2>4. InFlight' = InFlight \ {new}
    <3>1. ASSUME NEW q \in Clients, NEW i \in 1..MaxReads
          PROVE  i <= Counted(q)' <=> i <= Counted(q) /\ <<q, i>> # new
      <4>1. Counted(q) \in Int /\ Counted(q)' \in Int
        BY <1>6 DEF Uncount, Counted
      <4>2. CASE q = p
        BY <4>2, <2>1, <2>2
      <4>3. CASE q # p
        BY <4>3, <2>2
      <4> QED BY <4>2, <4>3
    <3> QED BY <2>3, <3>1 DEF InFlight
  <2>5. Cardinality(InFlight') = Cardinality(InFlight) - 1
    BY <2>3, <2>4, InFlightFinite, FS_RemoveElement
  <2> QED BY <1>6, <2>5 DEF Uncount, CountInv
<1>7. ASSUME NEW p \in Clients, RUnlock(p) PROVE CountInv'
  <2>1. \A q \in Clients : Counted(q)' = Counted(q)
    BY <1>7 DEF RUnlock, mapVars, Counted
  <2> QED BY <1>7, <2>1, InFlightSame DEF RUnlock, mapVars, CountInv
<1>8. ASSUME NEW p \in Clients, TryExclusive(p) PROVE CountInv'
  <2>1. \A q \in Clients : Counted(q)' = Counted(q)
    BY <1>8 DEF TryExclusive, ioVars, Counted
  <2> QED BY <1>8, <2>1, InFlightSame DEF TryExclusive, ioVars, CountInv
<1>9. ASSUME NEW p \in Clients, WLockAnnounce(p) PROVE CountInv'
  <2>1. \A q \in Clients : Counted(q)' = Counted(q)
    BY <1>9 DEF WLockAnnounce, mapVars, Counted
  <2> QED BY <1>9, <2>1, InFlightSame DEF WLockAnnounce, mapVars, CountInv
<1>10. ASSUME NEW p \in Clients, WLock(p) PROVE CountInv'
  <2>1. \A q \in Clients : Counted(q)' = Counted(q)
    BY <1>10 DEF WLock, ioVars, Counted
  <2> QED BY <1>10, <2>1, InFlightSame DEF WLock, ioVars, CountInv
<1>11. ASSUME NEW p \in Clients, WUnlock(p) PROVE CountInv'
  <2>1. \A q \in Clients : Counted(q)' = Counted(q)
    BY <1>11 DEF WUnlock, mapVars, Counted
  <2> QED BY <1>11, <2>1, InFlightSame DEF WUnlock, mapVars, CountInv
<1>12. ASSUME NEW p \in Clients, Acquire(p) PROVE CountInv'
  <2>1. \A q \in Clients : Counted(q)' = Counted(q)
    BY <1>12 DEF Acquire, ioVars, Counted
  <2> QED BY <1>12, <2>1, InFlightSame DEF Acquire, ioVars, CountInv
<1>13. ASSUME NEW p \in Clients, Release(p) PROVE CountInv'
  <2>1. \A q \in Clients : Counted(q)' = Counted(q)
    BY <1>13 DEF Release, ioVars, Counted
  <2> QED BY <1>13, <2>1, InFlightSame DEF Release, ioVars, CountInv
<1>14. ASSUME NEW p \in Clients, ReturnLock(p) PROVE CountInv'
  <2>1. \A q \in Clients : Counted(q)' = Counted(q)
    BY <1>14 DEF ReturnLock, ioVars, Counted
  <2> QED BY <1>14, <2>1, InFlightSame DEF ReturnLock, ioVars, CountInv
<1>15. CASE UNCHANGED vars
  <2>1. \A q \in Clients : Counted(q)' = Counted(q)
    BY <1>15 DEF vars, ioVars, Counted
  <2> QED BY <1>15, <2>1, InFlightSame DEF vars, ioVars, CountInv
<1> QED
  BY <1>1, <1>2, <1>3, <1>4, <1>5, <1>6, <1>7, <1>8, <1>9, <1>10, <1>11, <1>12, <1>13, <1>14, <1>15 DEF Next, Step

-----------------------------------------------------------------------------
(* The map of object locks *)

\* At first the map is empty and every lock free.
LEMMA MapInit == Init => FoundInv /\ MapExact /\ WaitersInv /\ HolderInv
<1> SUFFICES ASSUME Init PROVE FoundInv /\ MapExact /\ WaitersInv /\ HolderInv
  OBVIOUS
<1>1. FoundInv /\ MapExact /\ HolderInv
  BY NoneAssumption DEF Init, FoundInv, MapExact, HolderInv, LockPCs
<1>2. \A l \in Locks : Users(l) = {}
  BY NoneAssumption DEF Init, Users
<1> QED BY <1>1, <1>2, FS_EmptySet DEF Init, WaitersInv

\* There are finitely many calls to wait for a lock.
LEMMA UsersFinite ==
    ASSUME NEW l
    PROVE  /\ IsFiniteSet(Users(l)) /\ Cardinality(Users(l)) \in Nat
           /\ Cardinality(Users(l)) <= Cardinality(Clients)
<1>1. Users(l) \in SUBSET Clients
  BY DEF Users
<1> QED BY <1>1, FS_Subset, FS_CardinalityType, BoundsAssumption

\* The count of a lock is 1 exactly when the call that looks is its only one.
LEMMA OnlyUser ==
    ASSUME Typing, WaitersInv, NEW p \in Clients, mine[p] \in Locks
    PROVE  waiters[mine[p]] = 1 <=> \A q \in Clients : mine[q] = mine[p] => q = p
<1>1. p \in Users(mine[p])
  BY DEF Users
<1>2. waiters[mine[p]] = 1 <=> \E x : Users(mine[p]) = {x}
  BY UsersFinite, FS_Singleton DEF WaitersInv
<1>3. (\E x : Users(mine[p]) = {x}) <=> Users(mine[p]) = {p}
  BY <1>1
<1>4. Users(mine[p]) = {p} <=> \A q \in Clients : mine[q] = mine[p] => q = p
  BY DEF Users
<1> QED BY <1>2, <1>3, <1>4

\* A call that has found a lock shares it with the calls for the same object,
\* and with no others.
LEMMA SameLock ==
    ASSUME Typing, FoundInv, NEW p \in Clients, pc[p] \in LockPCs
    PROVE  /\ obj[p] \in Objects /\ mine[p] \in Locks /\ objs[obj[p]] = mine[p]
           /\ \A q \in Clients : mine[q] = mine[p] <=> obj[q] = obj[p]
<1>1. obj[p] \in Objects /\ mine[p] \in Locks /\ objs[obj[p]] = mine[p]
  BY DEF Typing, FoundInv
<1>2. ASSUME NEW q \in Clients, mine[q] = mine[p]
      PROVE  obj[q] = obj[p]
  <2>1. pc[q] \in LockPCs /\ obj[q] \in Objects /\ objs[obj[q]] = mine[q]
    BY <1>1, <1>2, NoneAssumption DEF Typing, FoundInv
  <2> QED BY <1>1, <1>2, <2>1, NoneAssumption DEF FoundInv
<1>3. ASSUME NEW q \in Clients, obj[q] = obj[p]
      PROVE  mine[q] = mine[p]
  BY <1>1, <1>3, NoneAssumption DEF FoundInv
<1> QED BY <1>1, <1>2, <1>3

\* Every step keeps what calls have found in the map in it, each lock under
\* one object, and the map without locks nobody uses.
LEMMA FoundStep ==
    Typing /\ FoundInv /\ MapExact /\ WaitersInv /\ [Next]_vars => FoundInv' /\ MapExact'
<1> SUFFICES ASSUME Typing, FoundInv, MapExact, WaitersInv, [Next]_vars
             PROVE  FoundInv' /\ MapExact'
  OBVIOUS
<1> USE NoneAssumption DEF Typing, FoundInv, MapExact, LockPCs, Goto
<1>1. ASSUME NEW p \in Clients, Call(p) PROVE FoundInv' /\ MapExact'
  BY <1>1 DEF Call, mapVars
<1>2. ASSUME NEW p \in Clients, CallAgain(p) PROVE FoundInv' /\ MapExact'
  BY <1>2 DEF CallAgain, mapVars
<1>3. ASSUME NEW p \in Clients, FindLock(p) PROVE FoundInv' /\ MapExact'
  <2> PICK o \in Objects, l \in Locks :
        /\ IF objs[o] = NoLock THEN l \in Unused ELSE l = objs[o]
        /\ objs' = [objs EXCEPT ![o] = l]
        /\ waiters' = [waiters EXCEPT ![l] = IF objs[o] = NoLock THEN 1 ELSE waiters[l] + 1]
        /\ obj' = [obj EXCEPT ![p] = o]
        /\ mine' = [mine EXCEPT ![p] = l]
    BY <1>3 DEF FindLock
  <2>1. pc[p] = "inside" /\ pc' = [pc EXCEPT ![p] = "waiting"] /\ holder' = holder
    BY <1>3 DEF FindLock
  <2>2. \A x \in Objects : objs[x] = l => x = o
    BY DEF Unused
  <2>3. obj[p] = NoObject /\ mine[p] = NoLock
    BY <2>1
  <2>4. \A x \in Objects : objs'[x] = IF x = o THEN l ELSE objs[x]
    OBVIOUS
  <2>5. \A q \in Clients : /\ obj'[q] = IF q = p THEN o ELSE obj[q]
                           /\ mine'[q] = IF q = p THEN l ELSE mine[q]
                           /\ pc'[q] = IF q = p THEN "waiting" ELSE pc[q]
    BY <2>1
  <2>6. FoundInv'
    BY <2>2, <2>3, <2>4, <2>5
  <2>7. MapExact'
    BY <2>3, <2>4, <2>5
  <2> QED BY <2>6, <2>7
<1>4. ASSUME NEW p \in Clients, RLock(p) PROVE FoundInv' /\ MapExact'
  BY <1>4 DEF RLock, mapVars
<1>5. ASSUME NEW p \in Clients, Count(p) PROVE FoundInv' /\ MapExact'
  BY <1>5 DEF Count, mapVars
<1>6. ASSUME NEW p \in Clients, Uncount(p) PROVE FoundInv' /\ MapExact'
  BY <1>6 DEF Uncount, mapVars
<1>7. ASSUME NEW p \in Clients, RUnlock(p) PROVE FoundInv' /\ MapExact'
  BY <1>7 DEF RUnlock, mapVars
<1>8. ASSUME NEW p \in Clients, TryExclusive(p) PROVE FoundInv' /\ MapExact'
  BY <1>8 DEF TryExclusive, mapVars
<1>9. ASSUME NEW p \in Clients, WLockAnnounce(p) PROVE FoundInv' /\ MapExact'
  BY <1>9 DEF WLockAnnounce, mapVars
<1>10. ASSUME NEW p \in Clients, WLock(p) PROVE FoundInv' /\ MapExact'
  BY <1>10 DEF WLock, mapVars
<1>11. ASSUME NEW p \in Clients, WUnlock(p) PROVE FoundInv' /\ MapExact'
  BY <1>11 DEF WUnlock, mapVars
<1>12. ASSUME NEW p \in Clients, Acquire(p) PROVE FoundInv' /\ MapExact'
  BY <1>12 DEF Acquire, ioVars
<1>13. ASSUME NEW p \in Clients, Release(p) PROVE FoundInv' /\ MapExact'
  BY <1>13 DEF Release, ioVars
<1>14. ASSUME NEW p \in Clients, ReturnLock(p) PROVE FoundInv' /\ MapExact'
  <2>1. pc[p] = "returning"
    BY <1>14 DEF ReturnLock
  <2>2. /\ obj[p] \in Objects /\ mine[p] \in Locks /\ objs[obj[p]] = mine[p]
        /\ \A q \in Clients : mine[q] = mine[p] <=> obj[q] = obj[p]
    BY <2>1, SameLock DEF LockPCs
  <2>3. waiters[mine[p]] = 1 <=> \A q \in Clients : obj[q] = obj[p] => q = p
    BY <2>2, OnlyUser
  <2>4. \A x \in Objects : objs'[x] =
          IF x = obj[p] /\ waiters[mine[p]] = 1 THEN NoLock ELSE objs[x]
    BY <2>2, <1>14 DEF ReturnLock
  <2>5. \A q \in Clients : /\ obj'[q] = IF q = p THEN NoObject ELSE obj[q]
                           /\ mine'[q] = IF q = p THEN NoLock ELSE mine[q]
                           /\ pc'[q] = IF q = p THEN "leaving" ELSE pc[q]
    BY <1>14 DEF ReturnLock
  <2>6. FoundInv'
    BY <2>2, <2>3, <2>4, <2>5
  <2>7. MapExact'
    BY <2>2, <2>3, <2>4, <2>5
  <2> QED BY <2>6, <2>7
<1>15. CASE UNCHANGED vars
  BY <1>15 DEF vars, mapVars
<1> QED
  BY <1>1, <1>2, <1>3, <1>4, <1>5, <1>6, <1>7, <1>8, <1>9, <1>10, <1>11, <1>12, <1>13, <1>14, <1>15 DEF Next, Step

\* Every step keeps the count of a lock the number of the calls that use it.
LEMMA WaitersStep ==
    Typing /\ FoundInv /\ WaitersInv /\ [Next]_vars => WaitersInv'
<1> SUFFICES ASSUME Typing, FoundInv, WaitersInv, [Next]_vars
             PROVE  WaitersInv'
  OBVIOUS
<1> USE DEF WaitersInv, Goto
<1>1. ASSUME NEW p \in Clients, Call(p) PROVE WaitersInv'
  BY <1>1 DEF Call, mapVars, Users
<1>2. ASSUME NEW p \in Clients, CallAgain(p) PROVE WaitersInv'
  BY <1>2 DEF CallAgain, mapVars, Users
<1>3. ASSUME NEW p \in Clients, FindLock(p) PROVE WaitersInv'
  <2> PICK o \in Objects, l \in Locks :
        /\ IF objs[o] = NoLock THEN l \in Unused ELSE l = objs[o]
        /\ objs' = [objs EXCEPT ![o] = l]
        /\ waiters' = [waiters EXCEPT ![l] = IF objs[o] = NoLock THEN 1 ELSE waiters[l] + 1]
        /\ obj' = [obj EXCEPT ![p] = o]
        /\ mine' = [mine EXCEPT ![p] = l]
    BY <1>3 DEF FindLock
  <2>1. pc[p] = "inside" /\ pc' = [pc EXCEPT ![p] = "waiting"] /\ holder' = holder
    BY <1>3 DEF FindLock
  <2>2. mine[p] = NoLock
    BY <2>1, NoneAssumption DEF FoundInv, LockPCs
  <2>3. Users(l)' = Users(l) \cup {p} /\ p \notin Users(l)
    BY <2>2, NoneAssumption DEF Users, Typing
  <2>4. \A x \in Locks \ {l} : Users(x)' = Users(x)
    BY <2>2, NoneAssumption DEF Users, Typing
  <2>5. Cardinality(Users(l)') = Cardinality(Users(l)) + 1
    BY <2>3, UsersFinite, FS_AddElement
  <2>6. objs[o] = NoLock => waiters[l] = 0
    BY UsersFinite, FS_EmptySet DEF Unused, Users
  <2>7. waiters'[l] = waiters[l] + 1
    BY <2>6 DEF Typing
  <2>8. \A x \in Locks \ {l} : waiters'[x] = waiters[x]
    BY DEF Typing
  <2> QED BY <2>4, <2>5, <2>7, <2>8
<1>4. ASSUME NEW p \in Clients, RLock(p) PROVE WaitersInv'
  BY <1>4 DEF RLock, mapVars, Users
<1>5. ASSUME NEW p \in Clients, Count(p) PROVE WaitersInv'
  BY <1>5 DEF Count, mapVars, Users
<1>6. ASSUME NEW p \in Clients, Uncount(p) PROVE WaitersInv'
  BY <1>6 DEF Uncount, mapVars, Users
<1>7. ASSUME NEW p \in Clients, RUnlock(p) PROVE WaitersInv'
  BY <1>7 DEF RUnlock, mapVars, Users
<1>8. ASSUME NEW p \in Clients, TryExclusive(p) PROVE WaitersInv'
  BY <1>8 DEF TryExclusive, mapVars, Users
<1>9. ASSUME NEW p \in Clients, WLockAnnounce(p) PROVE WaitersInv'
  BY <1>9 DEF WLockAnnounce, mapVars, Users
<1>10. ASSUME NEW p \in Clients, WLock(p) PROVE WaitersInv'
  BY <1>10 DEF WLock, mapVars, Users
<1>11. ASSUME NEW p \in Clients, WUnlock(p) PROVE WaitersInv'
  BY <1>11 DEF WUnlock, mapVars, Users
<1>12. ASSUME NEW p \in Clients, Acquire(p) PROVE WaitersInv'
  BY <1>12 DEF Acquire, ioVars, Users
<1>13. ASSUME NEW p \in Clients, Release(p) PROVE WaitersInv'
  BY <1>13 DEF Release, ioVars, Users
<1>14. ASSUME NEW p \in Clients, ReturnLock(p) PROVE WaitersInv'
  <2>1. PICK l \in Locks : l = mine[p]
    BY <1>14, SameLock DEF ReturnLock, LockPCs
  <2>2. mine' = [mine EXCEPT ![p] = NoLock]
    BY <1>14 DEF ReturnLock
  <2>3. Users(l)' = Users(l) \ {p} /\ p \in Users(l)
    <3>1. \A q \in Clients : mine'[q] = l <=> mine[q] = l /\ q # p
      BY <2>1, <2>2, NoneAssumption DEF Typing
    <3> QED BY <2>1, <3>1 DEF Users
  <2>4. \A x \in Locks \ {l} : Users(x)' = Users(x)
    BY <2>1, <2>2, NoneAssumption DEF Users, Typing
  <2>5. Cardinality(Users(l)') = Cardinality(Users(l)) - 1
    BY <2>3, UsersFinite, FS_RemoveElement
  <2>6. /\ waiters'[l] = waiters[l] - 1
        /\ \A x \in Locks \ {l} : waiters'[x] = waiters[x]
    BY <1>14, <2>1 DEF ReturnLock, Typing
  <2> QED BY <2>4, <2>5, <2>6
<1>15. CASE UNCHANGED vars
  BY <1>15 DEF vars, mapVars, Users
<1> QED
  BY <1>1, <1>2, <1>3, <1>4, <1>5, <1>6, <1>7, <1>8, <1>9, <1>10, <1>11, <1>12, <1>13, <1>14, <1>15 DEF Next, Step

\* Every step keeps each lock with the one call that holds it.
LEMMA HolderStep ==
    Typing /\ FoundInv /\ HolderInv /\ [Next]_vars => HolderInv'
<1> SUFFICES ASSUME Typing, FoundInv, HolderInv, [Next]_vars
             PROVE  HolderInv'
  OBVIOUS
<1> USE NoneAssumption DEF Typing, HolderInv, FoundInv, LockPCs, Goto
<1>1. ASSUME NEW p \in Clients, Call(p) PROVE HolderInv'
  BY <1>1 DEF Call, mapVars
<1>2. ASSUME NEW p \in Clients, CallAgain(p) PROVE HolderInv'
  BY <1>2 DEF CallAgain, mapVars
<1>3. ASSUME NEW p \in Clients, FindLock(p) PROVE HolderInv'
  BY <1>3 DEF FindLock, ioVars
<1>4. ASSUME NEW p \in Clients, RLock(p) PROVE HolderInv'
  BY <1>4 DEF RLock, mapVars
<1>5. ASSUME NEW p \in Clients, Count(p) PROVE HolderInv'
  BY <1>5 DEF Count, mapVars
<1>6. ASSUME NEW p \in Clients, Uncount(p) PROVE HolderInv'
  BY <1>6 DEF Uncount, mapVars
<1>7. ASSUME NEW p \in Clients, RUnlock(p) PROVE HolderInv'
  BY <1>7 DEF RUnlock, mapVars
<1>8. ASSUME NEW p \in Clients, TryExclusive(p) PROVE HolderInv'
  BY <1>8 DEF TryExclusive, mapVars
<1>9. ASSUME NEW p \in Clients, WLockAnnounce(p) PROVE HolderInv'
  BY <1>9 DEF WLockAnnounce, mapVars
<1>10. ASSUME NEW p \in Clients, WLock(p) PROVE HolderInv'
  BY <1>10 DEF WLock, mapVars
<1>11. ASSUME NEW p \in Clients, WUnlock(p) PROVE HolderInv'
  BY <1>11 DEF WUnlock, mapVars
<1>12. ASSUME NEW p \in Clients, Acquire(p) PROVE HolderInv'
  BY <1>12 DEF Acquire, ioVars
<1>13. ASSUME NEW p \in Clients, Release(p) PROVE HolderInv'
  BY <1>13 DEF Release, ioVars
<1>14. ASSUME NEW p \in Clients, ReturnLock(p) PROVE HolderInv'
  BY <1>14 DEF ReturnLock, ioVars
<1>15. CASE UNCHANGED vars
  BY <1>15 DEF vars, mapVars
<1> QED
  BY <1>1, <1>2, <1>3, <1>4, <1>5, <1>6, <1>7, <1>8, <1>9, <1>10, <1>11, <1>12, <1>13, <1>14, <1>15 DEF Next, Step

-----------------------------------------------------------------------------
(* What the fence promises *)

\* The invariant holds of a new fence, and every step keeps it.
LEMMA FenceInvHolds == Spec => []FenceInv
<1>1. Init => FenceInv
  BY TypingInit, CountInit, MapInit DEF FenceInv
<1>2. FenceInv /\ [Next]_vars => FenceInv'
  BY TypingStep, WriterStep, CountStep, FoundStep, WaitersStep, HolderStep DEF FenceInv
<1> QED BY <1>1, <1>2, PTL DEF Spec

\* Two calls never hold the lock of one object: the map gives both the same
\* mutex, however often it was made and removed in between (LockObject).
THEOREM ObjectsLockedByOne == Spec => []ObjectExclusive
<1>1. FenceInv => ObjectExclusive
  <2> SUFFICES ASSUME FenceInv, NEW p \in Clients, NEW q \in Clients,
                      pc[p] = "holding", pc[q] = "holding", obj[p] = obj[q]
               PROVE  p = q
    BY DEF ObjectExclusive
  <2>1. mine[p] = mine[q]
    BY SameLock DEF FenceInv, LockPCs
  <2> QED BY <2>1 DEF FenceInv, HolderInv
<1> QED BY <1>1, FenceInvHolds, PTL

\* The map never grows beyond the objects that a call locks, waits for or gives
\* back, and never loses the lock of one (LockObject and its release).
THEOREM MapFollowsUse == Spec => []MapExact
<1>1. FenceInv => MapExact
  BY DEF FenceInv
<1> QED BY <1>1, FenceInvHolds, PTL

\* GC and Close run alone: no read lock is held, nobody else has the exclusive
\* side, and no call is in flight (BeginExclusive, TryExclusive, InFlight).
THEOREM ExclusiveRunsAlone == Spec => []ExclusiveAlone
<1>1. FenceInv => ExclusiveAlone
  <2> SUFFICES ASSUME FenceInv PROVE ExclusiveAlone
    OBVIOUS
  <2>1. ASSUME NEW p \in Clients, pc[p] = "exclusive"
        PROVE  active = 0 /\ \A q \in Clients : reads[q] = 0 /\ (pc[q] = "exclusive" => p = q)
    <3>1. \A q \in Clients : reads[q] = 0 /\ (pc[q] = "exclusive" => p = q)
      BY <2>1 DEF FenceInv, WriterInv
    <3>2. \A q \in Clients : Counted(q) \in Int /\ Counted(q) <= 0
      BY <3>1 DEF Counted
    <3>3. InFlight = {}
      BY <3>2 DEF InFlight
    <3> QED BY <3>1, <3>3, FS_EmptySet DEF FenceInv, CountInv
  <2> QED BY <2>1 DEF ExclusiveAlone
<1> QED BY <1>1, FenceInvHolds, PTL

\* The counts of calls in flight and of calls for a lock are never negative,
\* nor more than the clients can account for.
THEOREM CountsBounded == Spec => []TypeOK
<1>1. FenceInv => TypeOK
  <2> SUFFICES ASSUME FenceInv PROVE TypeOK
    OBVIOUS
  <2>1. Cardinality(Clients) \in Nat
    BY FS_CardinalityType, BoundsAssumption
  <2>2. active \in 0..MaxReads * Cardinality(Clients)
    BY <2>1, InFlightFinite, BoundsAssumption DEF FenceInv, CountInv
  <2>3. ASSUME NEW l \in Locks
        PROVE  waiters[l] \in 0..Cardinality(Clients)
    BY <2>1, UsersFinite DEF FenceInv, WaitersInv
  <2> QED BY <2>2, <2>3 DEF FenceInv, Typing, TypeOK
<1> QED BY <1>1, FenceInvHolds, PTL

\* The locks of a store deadlock only when a goroutine calls the store with a
\* reader from Get open, because a writer may stand between its two read locks.
THEOREM OnlyNestingDeadlocks == Spec => []StuckOnlyByNesting
<1>1. FenceInv => StuckOnlyByNesting
  <2> SUFFICES ASSUME FenceInv,
                      \E p \in Clients : Blocked(p),
                      \A p \in Clients : pc[p] = "idle" \/ Blocked(p)
               PROVE  \E p \in Clients : Nested(p)
    BY DEF StuckOnlyByNesting
  <2>1. ASSUME NEW p \in Clients
        PROVE  pc[p] \in {"idle", "rwait", "wlock", "wwait"}
    <3>1. pc[p] # "holding" /\ pc[p] # "exclusive"
      BY DEF Blocked
    <3>2. pc[p] # "waiting"
      <4> SUFFICES ASSUME pc[p] = "waiting" PROVE FALSE
        OBVIOUS
      <4>1. mine[p] \in Locks /\ holder[mine[p]] # NoClient
        BY SameLock DEF FenceInv, LockPCs, Blocked
      <4> DEFINE q == holder[mine[p]]
      <4>2. q \in Clients /\ pc[q] = "holding"
        BY <4>1 DEF FenceInv, HolderInv, Typing
      <4> QED BY <4>2 DEF Blocked
    <3> QED BY <3>1, <3>2 DEF Blocked
  <2>2. writer \in Clients /\ pc[writer] = "wwait"
    BY <2>1, NoneAssumption DEF FenceInv, WriterInv, Blocked, Typing
  <2>3. PICK q \in Clients : reads[q] > 0
    BY <2>2 DEF Blocked
  <2>4. pc[q] # "idle"
    BY <2>3 DEF FenceInv, ReadersInv, Typing
  <2> QED BY <2>1, <2>3, <2>4 DEF Nested
<1> QED BY <1>1, FenceInvHolds, PTL

-----------------------------------------------------------------------------
(* The fence implements the locks ShardStore uses *)

\* What Owners stands for.
OwnersOf ==
    /\ Owners \in [Objects -> Clients \cup {NoClient}]
    /\ \A o \in Objects, p \in Clients : Owners[o] = p <=> pc[p] = "holding" /\ obj[p] = o

\* No object's lock has two holders, so that Owners names the one it has.
LEMMA OwnersAre == FenceInv => OwnersOf
<1> SUFFICES ASSUME FenceInv PROVE OwnersOf
  OBVIOUS
<1>1. ASSUME NEW o \in Objects
      PROVE  /\ Owners[o] \in Clients \cup {NoClient}
             /\ \A p \in Clients : Owners[o] = p <=> pc[p] = "holding" /\ obj[p] = o
  <2>1. CASE \E p \in Clients : pc[p] = "holding" /\ obj[p] = o
    <3>1. PICK q \in Clients : pc[q] = "holding" /\ obj[q] = o
      BY <2>1
    <3>2. ASSUME NEW p \in Clients, pc[p] = "holding", obj[p] = o
          PROVE  p = q
      <4>1. mine[p] = mine[q]
        BY <3>1, <3>2, SameLock DEF FenceInv, LockPCs
      <4> QED BY <3>1, <3>2, <4>1 DEF FenceInv, HolderInv
    <3>3. Owners[o] = q
      BY <3>1, <3>2 DEF Owners
    <3> QED BY <3>1, <3>2, <3>3
  <2>2. CASE ~ \E p \in Clients : pc[p] = "holding" /\ obj[p] = o
    BY <2>2, NoneAssumption DEF Owners
  <2> QED BY <2>1, <2>2
<1> QED BY <1>1 DEF OwnersOf, Owners

\* The same of the state a step leads to.
LEMMA OwnersAreNext == FenceInv' => OwnersOf'
  BY OwnersAre, PTL

\* A step that nobody takes or gives back an object's lock by.
LEMMA OwnersSame ==
    ASSUME OwnersOf, OwnersOf',
           \A p \in Clients : /\ (pc[p] = "holding") <=> (pc'[p] = "holding")
                              /\ pc[p] = "holding" => obj'[p] = obj[p]
    PROVE  Owners' = Owners
<1>1. ASSUME NEW o \in Objects
      PROVE  Owners'[o] = Owners[o]
  <2>1. \A p \in Clients : Owners'[o] = p <=> Owners[o] = p
    BY DEF OwnersOf
  <2> QED BY <2>1 DEF OwnersOf
<1> QED BY <1>1 DEF OwnersOf

\* The fence with its counter and its changing map of mutexes gives a store
\* what it relies on: one lock per object, readers held up by an announced
\* writer and let in by it, and a writer alone.
THEOREM FenceGivesLocks == Spec => ImplementsStoreLocks
<1>1. Init => AsStoreLocks!LocksInit
  <2> SUFFICES ASSUME Init PROVE AsStoreLocks!LocksInit
    OBVIOUS
  <2>1. Owners = [o \in Objects |-> NoClient]
    BY DEF Init, Owners
  <2> QED BY <2>1, NoneAssumption DEF Init, AsStoreLocks!LocksInit
<1>2. FenceInv /\ FenceInv' /\ [Next]_vars
        => [AsStoreLocks!LocksNext]_(AsStoreLocks!lockVars)
  <2> SUFFICES ASSUME FenceInv, FenceInv', [Next]_vars
               PROVE  AsStoreLocks!LocksNext \/ UNCHANGED AsStoreLocks!lockVars
    OBVIOUS
  <2> USE NoneAssumption DEF FenceInv, Typing, Goto, PCs, LockPCs
  <2>0. OwnersOf /\ OwnersOf'
    BY OwnersAre, OwnersAreNext
  <2>1. ASSUME NEW p \in Clients, Call(p) PROVE UNCHANGED AsStoreLocks!lockVars
    <3>1. Owners' = Owners
      BY <2>0, <2>1, OwnersSame DEF Call, mapVars, ioVars
    <3> QED BY <2>1, <3>1 DEF Call, mapVars, ioVars, AsStoreLocks!lockVars
  <2>2. ASSUME NEW p \in Clients, CallAgain(p) PROVE UNCHANGED AsStoreLocks!lockVars
    <3>1. Owners' = Owners
      BY <2>0, <2>2, OwnersSame DEF CallAgain, mapVars, ioVars
    <3> QED BY <2>2, <3>1 DEF CallAgain, mapVars, ioVars, AsStoreLocks!lockVars
  <2>3. ASSUME NEW p \in Clients, FindLock(p) PROVE UNCHANGED AsStoreLocks!lockVars
    <3>1. Owners' = Owners
      BY <2>0, <2>3, OwnersSame DEF FindLock, ioVars
    <3> QED BY <2>3, <3>1 DEF FindLock, ioVars, AsStoreLocks!lockVars
  <2>4. ASSUME NEW p \in Clients, RLock(p) PROVE AsStoreLocks!LocksNext
    <3>1. Owners' = Owners
      BY <2>0, <2>4, OwnersSame DEF RLock, mapVars
    <3>2. CASE writer = NoClient
      <4>1. {q \in Clients : reads'[q] > 0} = {q \in Clients : reads[q] > 0} \cup {p}
        BY <2>4, <3>2 DEF RLock
      <4>2. {q \in Clients : pc'[q] = "rwait"} = {q \in Clients : pc[q] = "rwait"}
        BY <2>4, <3>2 DEF RLock
      <4>3. (\E q \in Clients : pc'[q] = "exclusive") <=> (\E q \in Clients : pc[q] = "exclusive")
        BY <2>4, <3>2 DEF RLock
      <4>4. AsStoreLocks!Admit(p)
        BY <2>4, <3>1, <3>2, <4>1, <4>2, <4>3 DEF RLock, AsStoreLocks!Admit
      <4> QED BY <4>4 DEF AsStoreLocks!LocksNext
    <3>3. CASE writer # NoClient
      <4>1. {q \in Clients : reads'[q] > 0} = {q \in Clients : reads[q] > 0}
        BY <2>4, <3>3 DEF RLock
      <4>2. {q \in Clients : pc'[q] = "rwait"} = {q \in Clients : pc[q] = "rwait"} \cup {p}
        BY <2>4, <3>3 DEF RLock
      <4>3. (\E q \in Clients : pc'[q] = "exclusive") <=> (\E q \in Clients : pc[q] = "exclusive")
        BY <2>4, <3>3 DEF RLock
      <4>4. AsStoreLocks!HoldUp(p)
        BY <2>4, <3>1, <3>3, <4>1, <4>2, <4>3 DEF RLock, AsStoreLocks!HoldUp
      <4> QED BY <4>4 DEF AsStoreLocks!LocksNext
    <3> QED BY <3>2, <3>3
  <2>5. ASSUME NEW p \in Clients, Count(p) PROVE UNCHANGED AsStoreLocks!lockVars
    <3>1. Owners' = Owners
      BY <2>0, <2>5, OwnersSame DEF Count, mapVars
    <3> QED BY <2>5, <3>1 DEF Count, mapVars, AsStoreLocks!lockVars
  <2>6. ASSUME NEW p \in Clients, Uncount(p) PROVE UNCHANGED AsStoreLocks!lockVars
    <3>1. Owners' = Owners
      BY <2>0, <2>6, OwnersSame DEF Uncount, mapVars
    <3> QED BY <2>6, <3>1 DEF Uncount, mapVars, AsStoreLocks!lockVars
  <2>7. ASSUME NEW p \in Clients, RUnlock(p) PROVE AsStoreLocks!LocksNext \/ UNCHANGED AsStoreLocks!lockVars
    <3>1. Owners' = Owners
      BY <2>0, <2>7, OwnersSame DEF RUnlock, mapVars
    <3>2. {q \in Clients : pc'[q] = "rwait"} = {q \in Clients : pc[q] = "rwait"}
      BY <2>7 DEF RUnlock
    <3>3. (\E q \in Clients : pc'[q] = "exclusive") <=> (\E q \in Clients : pc[q] = "exclusive")
      BY <2>7 DEF RUnlock
    <3>4. reads[p] > 0
      BY <2>7 DEF RUnlock, ReadersInv
    <3>5. CASE reads[p] = 1
      <4>1. {q \in Clients : reads'[q] > 0} = {q \in Clients : reads[q] > 0} \ {p}
        BY <2>7, <3>5 DEF RUnlock
      <4>2. \A o \in Objects : Owners[o] # p
        BY <2>0, <2>7 DEF OwnersOf, RUnlock
      <4>3. Owners = [o \in Objects |-> IF Owners[o] = p THEN NoClient ELSE Owners[o]]
        BY <2>0, <4>2 DEF OwnersOf
      <4>4. AsStoreLocks!Leave(p)
        BY <2>7, <3>1, <3>2, <3>3, <3>4, <4>1, <4>3
           DEF RUnlock, AsStoreLocks!Leave, AsStoreLocks!Without
      <4> QED BY <4>4 DEF AsStoreLocks!LocksNext
    <3>6. CASE reads[p] # 1
      <4>1. {q \in Clients : reads'[q] > 0} = {q \in Clients : reads[q] > 0}
        BY <2>7, <3>4, <3>6 DEF RUnlock
      <4> QED BY <2>7, <3>1, <3>2, <3>3, <4>1 DEF RUnlock, AsStoreLocks!lockVars
    <3> QED BY <3>5, <3>6
  <2>8. ASSUME NEW p \in Clients, TryExclusive(p) PROVE UNCHANGED AsStoreLocks!lockVars
    <3>1. Owners' = Owners
      BY <2>0, <2>8, OwnersSame DEF TryExclusive, mapVars, ioVars
    <3> QED BY <2>8, <3>1 DEF TryExclusive, mapVars, ioVars, AsStoreLocks!lockVars
  <2>9. ASSUME NEW p \in Clients, WLockAnnounce(p) PROVE AsStoreLocks!LocksNext
    <3>1. Owners' = Owners
      BY <2>0, <2>9, OwnersSame DEF WLockAnnounce, mapVars
    <3>2. {q \in Clients : pc'[q] = "rwait"} = {q \in Clients : pc[q] = "rwait"}
      BY <2>9 DEF WLockAnnounce
    <3>3. (\E q \in Clients : pc'[q] = "exclusive") <=> (\E q \in Clients : pc[q] = "exclusive")
      BY <2>9 DEF WLockAnnounce
    <3>4. AsStoreLocks!Announce(p)
      BY <2>9, <3>1, <3>2, <3>3 DEF WLockAnnounce, AsStoreLocks!Announce
    <3> QED BY <3>4 DEF AsStoreLocks!LocksNext
  <2>10. ASSUME NEW p \in Clients, WLock(p) PROVE AsStoreLocks!LocksNext
    <3>1. Owners' = Owners
      BY <2>0, <2>10, OwnersSame DEF WLock, mapVars, ioVars
    <3>2. {q \in Clients : pc'[q] = "rwait"} = {q \in Clients : pc[q] = "rwait"}
      BY <2>10 DEF WLock
    <3>3. \E q \in Clients : pc'[q] = "exclusive"
      BY <2>10 DEF WLock
    <3>4. {q \in Clients : reads[q] > 0} = {}
      BY <2>10 DEF WLock
    <3>5. writer # NoClient
      BY <2>10 DEF WLock, WriterInv
    <3>6. AsStoreLocks!Exclude
      BY <2>10, <3>1, <3>2, <3>3, <3>4, <3>5 DEF WLock, mapVars, ioVars, AsStoreLocks!Exclude
    <3> QED BY <3>6 DEF AsStoreLocks!LocksNext
  <2>11. ASSUME NEW p \in Clients, WUnlock(p) PROVE AsStoreLocks!LocksNext
    <3>1. Owners' = Owners
      BY <2>0, <2>11, OwnersSame DEF WUnlock, mapVars
    <3>2. \A q \in Clients : reads[q] = 0
      BY <2>11 DEF WUnlock, WriterInv
    <3>3. {q \in Clients : reads'[q] > 0} = {q \in Clients : pc[q] = "rwait"}
      BY <2>11, <3>2 DEF WUnlock
    <3>4. {q \in Clients : pc'[q] = "rwait"} = {}
      BY <2>11 DEF WUnlock
    <3>5. ~ \E q \in Clients : pc'[q] = "exclusive"
      BY <2>11 DEF WUnlock, WriterInv
    <3>6. AsStoreLocks!Readmit
      BY <2>11, <3>1, <3>3, <3>4, <3>5 DEF WUnlock, AsStoreLocks!Readmit
    <3> QED BY <3>6 DEF AsStoreLocks!LocksNext
  <2>12. ASSUME NEW p \in Clients, Acquire(p) PROVE AsStoreLocks!LocksNext
    <3>1. obj[p] \in Objects /\ mine[p] \in Locks
      BY <2>12, SameLock DEF Acquire
    <3>2. ASSUME NEW q \in Clients
          PROVE  pc[q] = "holding" => obj[q] # obj[p]
      BY <2>12, <3>1, SameLock DEF Acquire, HolderInv
    <3>3. Owners[obj[p]] = NoClient
      BY <2>0, <3>1, <3>2 DEF OwnersOf
    <3>4. ASSUME NEW o \in Objects
          PROVE  Owners'[o] = IF o = obj[p] THEN p ELSE Owners[o]
      <4>1. \A q \in Clients : (pc'[q] = "holding" /\ obj'[q] = o) <=>
              ((pc[q] = "holding" /\ obj[q] = o) \/ (q = p /\ o = obj[p]))
        BY <2>12 DEF Acquire
      <4> QED BY <2>0, <3>2, <4>1 DEF OwnersOf
    <3>5. Owners' = [Owners EXCEPT ![obj[p]] = p]
      BY <2>0, <3>1, <3>4 DEF OwnersOf
    <3>6. reads[p] > 0
      BY <2>12 DEF Acquire, ReadersInv
    <3>7. {q \in Clients : pc'[q] = "rwait"} = {q \in Clients : pc[q] = "rwait"}
      BY <2>12 DEF Acquire
    <3>8. (\E q \in Clients : pc'[q] = "exclusive") <=> (\E q \in Clients : pc[q] = "exclusive")
      BY <2>12 DEF Acquire
    <3>9. AsStoreLocks!LockObject(p, obj[p])
      BY <2>12, <3>3, <3>5, <3>6, <3>7, <3>8 DEF Acquire, ioVars, AsStoreLocks!LockObject
    <3> QED BY <3>1, <3>9 DEF AsStoreLocks!LocksNext
  <2>13. ASSUME NEW p \in Clients, Release(p) PROVE AsStoreLocks!LocksNext
    <3>1. ASSUME NEW o \in Objects
          PROVE  Owners'[o] = IF Owners[o] = p THEN NoClient ELSE Owners[o]
      <4>1. \A q \in Clients : (pc'[q] = "holding" /\ obj'[q] = o) <=>
              (pc[q] = "holding" /\ obj[q] = o /\ q # p)
        BY <2>13 DEF Release
      <4>2. \A q \in Clients : Owners'[o] = q <=> (Owners[o] = q /\ q # p)
        BY <2>0, <4>1 DEF OwnersOf
      <4> QED BY <2>0, <4>2 DEF OwnersOf
    <3>2. Owners' = [o \in Objects |-> IF Owners[o] = p THEN NoClient ELSE Owners[o]]
      BY <2>0, <3>1 DEF OwnersOf
    <3>3. reads[p] > 0
      BY <2>13 DEF Release, ReadersInv
    <3>4. {q \in Clients : pc'[q] = "rwait"} = {q \in Clients : pc[q] = "rwait"}
      BY <2>13 DEF Release
    <3>5. (\E q \in Clients : pc'[q] = "exclusive") <=> (\E q \in Clients : pc[q] = "exclusive")
      BY <2>13 DEF Release
    <3>6. AsStoreLocks!UnlockObject(p)
      BY <2>13, <3>2, <3>3, <3>4, <3>5 DEF Release, ioVars, AsStoreLocks!UnlockObject, AsStoreLocks!Without
    <3> QED BY <3>6 DEF AsStoreLocks!LocksNext
  <2>14. ASSUME NEW p \in Clients, ReturnLock(p) PROVE UNCHANGED AsStoreLocks!lockVars
    <3>1. Owners' = Owners
      BY <2>0, <2>14, OwnersSame DEF ReturnLock, ioVars
    <3> QED BY <2>14, <3>1 DEF ReturnLock, ioVars, AsStoreLocks!lockVars
  <2>15. CASE UNCHANGED vars
    BY <2>15 DEF vars, ioVars, mapVars, Owners, AsStoreLocks!lockVars
  <2> QED
    BY <2>1, <2>2, <2>3, <2>4, <2>5, <2>6, <2>7, <2>8, <2>9, <2>10, <2>11, <2>12, <2>13, <2>14, <2>15 DEF Next, Step
<1> QED BY <1>1, <1>2, FenceInvHolds, PTL DEF Spec, ImplementsStoreLocks, AsStoreLocks!LocksSpec
=============================================================================
