------------------------------- MODULE Fence -------------------------------
(***************************************************************************)
(* The fence of a Store in detail (internal/iofence): the read-write lock  *)
(* with its count of calls in flight, and the map of object locks, which   *)
(* are made when a call first asks for one and removed by the last call    *)
(* that gives it back.  ShardStore has one lock per object and no count.   *)
(*                                                                         *)
(* A goroutine that has a reader from Get open is inside the fence and may *)
(* call the store again; the read lock is not recursive.                   *)
(*                                                                         *)
(* One action is one operation on a mutex or on the counter, or one        *)
(* critical section of the map's own mutex Fence.om.                       *)
(***************************************************************************)
EXTENDS Integers, FiniteSets

CONSTANTS
    Clients,    \* goroutines that use the fence
    Objects,    \* object IDs
    Locks,      \* objLock values (cells of the heap)
    NoClient,   \* "nobody" as the holder of a lock
    NoObject,   \* "no object"
    NoLock,     \* nil
    MaxReads    \* bound on the read locks of one goroutine

ASSUME NoneAssumption == NoClient \notin Clients /\ NoObject \notin Objects /\ NoLock \notin Locks

\* A process has finitely many goroutines; one that opens a reader has a read lock.
ASSUME BoundsAssumption == IsFiniteSet(Clients) /\ MaxReads \in Nat \ {0}

VARIABLES
    reads,      \* the read locks of Fence.io that a client holds
    writer,     \* the client that announced or holds its write lock
    active,     \* Fence.active
    objs,       \* Fence.objs
    waiters,    \* objLock.waiters
    holder,     \* the holder of objLock.mu
    obj,        \* the object a client has asked to lock
    mine,       \* the objLock it found (the variable ol)
    pc

ioVars  == <<reads, writer, active>>
mapVars == <<objs, waiters, holder, obj, mine>>
vars == <<ioVars, mapVars, pc>>

\* "counting": between RLock and Add(1); "inside": between BeginShared and its
\* release, "leaving" when an object's lock has been taken and given back there;
\* "counted": between Add(-1) and RUnlock.  "waiting", "holding" and "returning"
\* are the steps of a client with an object's lock.
LockPCs == {"waiting", "holding", "returning"}
PCs == {"idle", "rlock", "rwait", "counting", "inside", "leaving", "counted",
        "trying", "wlock", "wwait", "exclusive"} \cup LockPCs

Goto(p, l) == pc' = [pc EXCEPT ![p] = l]

Init ==
    /\ reads = [p \in Clients |-> 0] /\ writer = NoClient /\ active = 0
    /\ objs = [o \in Objects |-> NoLock]
    /\ waiters = [l \in Locks |-> 0]
    /\ holder = [l \in Locks |-> NoClient]
    /\ obj = [p \in Clients |-> NoObject]
    /\ mine = [p \in Clients |-> NoLock]
    /\ pc = [p \in Clients |-> "idle"]

Call(p) ==
    /\ pc[p] = "idle"
    /\ \E l \in {"rlock", "wlock", "trying"} : Goto(p, l)
    /\ UNCHANGED <<ioVars, mapVars>>

\* A call of a goroutine that has a reader open.
CallAgain(p) ==
    /\ pc[p] = "inside" /\ reads[p] < MaxReads
    /\ \E l \in {"rlock", "wlock"} : Goto(p, l)
    /\ UNCHANGED <<ioVars, mapVars>>

-----------------------------------------------------------------------------
(* BeginShared and its release *)

\* Mutant: a reader that overtakes a waiting writer.
RLockOvertaking(p) ==
    /\ pc[p] = "rlock"
    /\ IF \A q \in Clients : pc[q] # "exclusive"
         THEN reads' = [reads EXCEPT ![p] = @ + 1] /\ Goto(p, "counting")
         ELSE reads' = reads /\ Goto(p, "rwait")
    /\ UNCHANGED <<writer, active, mapVars>>

RLock(p) ==
    /\ pc[p] = "rlock"
    /\ IF writer = NoClient
         THEN reads' = [reads EXCEPT ![p] = @ + 1] /\ Goto(p, "counting")
         ELSE reads' = reads /\ Goto(p, "rwait")
    /\ UNCHANGED <<writer, active, mapVars>>

Count(p) ==
    /\ pc[p] = "counting"
    /\ active' = active + 1
    /\ Goto(p, "inside")
    /\ UNCHANGED <<reads, writer, mapVars>>

\* Mutant: the call is not counted out.
UncountForgotten(p) ==
    /\ pc[p] \in {"inside", "leaving"}
    /\ Goto(p, "counted")
    /\ UNCHANGED <<ioVars, mapVars>>

Uncount(p) ==
    /\ pc[p] \in {"inside", "leaving"}
    /\ active' = active - 1
    /\ Goto(p, "counted")
    /\ UNCHANGED <<reads, writer, mapVars>>

RUnlock(p) ==
    /\ pc[p] = "counted"
    /\ reads' = [reads EXCEPT ![p] = @ - 1]
    /\ Goto(p, IF reads[p] = 1 THEN "idle" ELSE "inside")
    /\ UNCHANGED <<writer, active, mapVars>>

-----------------------------------------------------------------------------
(* BeginExclusive, TryExclusive and their release *)

\* Mutant: no readers counted is taken for the lock.
TryExclusiveUnlocked(p) ==
    /\ pc[p] = "trying"
    /\ Goto(p, IF active # 0 THEN "idle" ELSE "exclusive")
    /\ UNCHANGED <<ioVars, mapVars>>

\* TryExclusive gives up when a call is in flight, and else locks as
\* BeginExclusive does.
TryExclusive(p) ==
    /\ pc[p] = "trying"
    /\ Goto(p, IF active # 0 THEN "idle" ELSE "wlock")
    /\ UNCHANGED <<ioVars, mapVars>>

WLockAnnounce(p) ==
    /\ pc[p] = "wlock" /\ writer = NoClient
    /\ writer' = p
    /\ Goto(p, "wwait")
    /\ UNCHANGED <<reads, active, mapVars>>

WLock(p) ==
    /\ pc[p] = "wwait" /\ \A q \in Clients : reads[q] = 0
    /\ Goto(p, "exclusive")
    /\ UNCHANGED <<ioVars, mapVars>>

\* Mutant: a writer that wakes no reader.
WUnlockSilently(p) ==
    /\ pc[p] = "exclusive"
    /\ writer' = NoClient
    /\ Goto(p, "idle")
    /\ UNCHANGED <<reads, active, mapVars>>

\* Readers that waited for the writer get the read lock from it.
WUnlock(p) ==
    /\ pc[p] = "exclusive"
    /\ writer' = NoClient
    /\ reads' = [q \in Clients |-> IF pc[q] = "rwait" THEN reads[q] + 1 ELSE reads[q]]
    /\ pc' = [q \in Clients |-> IF q = p THEN "idle"
                                ELSE IF pc[q] = "rwait" THEN "counting" ELSE pc[q]]
    /\ UNCHANGED <<active, mapVars>>

-----------------------------------------------------------------------------
(* LockObject, which Put and Delete call once inside BeginShared, and its *)
(* release, which comes first.                                            *)

\* A new objLock is a cell nobody refers to any more.
Unused == {l \in Locks : /\ \A o \in Objects : objs[o] # l
                         /\ \A p \in Clients : mine[p] # l}

\* Mutant: a call counts itself only when it is the first.
FindLockUncounted(p) ==
    /\ pc[p] = "inside"
    /\ \E o \in Objects, l \in Locks :
          /\ IF objs[o] = NoLock THEN l \in Unused ELSE l = objs[o]
          /\ objs' = [objs EXCEPT ![o] = l]
          /\ waiters' = [waiters EXCEPT ![l] = 1]
          /\ obj' = [obj EXCEPT ![p] = o]
          /\ mine' = [mine EXCEPT ![p] = l]
    /\ Goto(p, "waiting")
    /\ UNCHANGED <<ioVars, holder>>

\* The first critical section of om: find the object's lock or make it, and
\* count oneself in.
FindLock(p) ==
    /\ pc[p] = "inside"
    /\ \E o \in Objects, l \in Locks :
          /\ IF objs[o] = NoLock THEN l \in Unused ELSE l = objs[o]
          /\ objs' = [objs EXCEPT ![o] = l]
          /\ waiters' = [waiters EXCEPT ![l] = IF objs[o] = NoLock THEN 1 ELSE @ + 1]
          /\ obj' = [obj EXCEPT ![p] = o]
          /\ mine' = [mine EXCEPT ![p] = l]
    /\ Goto(p, "waiting")
    /\ UNCHANGED <<ioVars, holder>>

Acquire(p) ==
    /\ pc[p] = "waiting" /\ holder[mine[p]] = NoClient
    /\ holder' = [holder EXCEPT ![mine[p]] = p]
    /\ Goto(p, "holding")
    /\ UNCHANGED <<ioVars, objs, waiters, obj, mine>>

\* Mutant: the lock is given back only when no one waits for it.
ReleaseWhenAlone(p) ==
    /\ pc[p] = "holding" /\ waiters[mine[p]] = 1
    /\ holder' = [holder EXCEPT ![mine[p]] = NoClient]
    /\ Goto(p, "returning")
    /\ UNCHANGED <<ioVars, objs, waiters, obj, mine>>

Release(p) ==
    /\ pc[p] = "holding"
    /\ holder' = [holder EXCEPT ![mine[p]] = NoClient]
    /\ Goto(p, "returning")
    /\ UNCHANGED <<ioVars, objs, waiters, obj, mine>>

\* Mutant: the lock leaves the map one call too late, that is never.
ReturnLockOffByOne(p) ==
    /\ pc[p] = "returning"
    /\ waiters' = [waiters EXCEPT ![mine[p]] = @ - 1]
    /\ objs' = [objs EXCEPT ![obj[p]] = IF waiters[mine[p]] = 0 THEN NoLock ELSE @]
    /\ obj' = [obj EXCEPT ![p] = NoObject]
    /\ mine' = [mine EXCEPT ![p] = NoLock]
    /\ Goto(p, "leaving")
    /\ UNCHANGED <<ioVars, holder>>

\* Mutant: the lock leaves the map with every call that gives it back.
ReturnLockAlways(p) ==
    /\ pc[p] = "returning"
    /\ waiters' = [waiters EXCEPT ![mine[p]] = @ - 1]
    /\ objs' = [objs EXCEPT ![obj[p]] = NoLock]
    /\ obj' = [obj EXCEPT ![p] = NoObject]
    /\ mine' = [mine EXCEPT ![p] = NoLock]
    /\ Goto(p, "leaving")
    /\ UNCHANGED <<ioVars, holder>>

\* The second critical section of om: the last one out removes the lock.
ReturnLock(p) ==
    /\ pc[p] = "returning"
    /\ waiters' = [waiters EXCEPT ![mine[p]] = @ - 1]
    /\ objs' = [objs EXCEPT ![obj[p]] = IF waiters[mine[p]] = 1 THEN NoLock ELSE @]
    /\ obj' = [obj EXCEPT ![p] = NoObject]
    /\ mine' = [mine EXCEPT ![p] = NoLock]
    /\ Goto(p, "leaving")
    /\ UNCHANGED <<ioVars, holder>>

-----------------------------------------------------------------------------

\* What a client does to give back what it has and to get what it waits for.
Step(p) ==
    \/ RLock(p) \/ Count(p) \/ Uncount(p) \/ RUnlock(p)
    \/ TryExclusive(p) \/ WLockAnnounce(p) \/ WLock(p) \/ WUnlock(p)
    \/ Acquire(p) \/ Release(p) \/ ReturnLock(p)

Next == \E p \in Clients : Call(p) \/ CallAgain(p) \/ FindLock(p) \/ Step(p)

Spec == Init /\ [][Next]_vars

\* Goroutines are scheduled and their calls end (WF), and a mutex is handed to
\* one that has waited long enough (SF).
Fairness == \A p \in Clients :
    WF_vars(Step(p)) /\ SF_vars(Acquire(p)) /\ SF_vars(WLockAnnounce(p))

FairSpec == Spec /\ Fairness

-----------------------------------------------------------------------------
(* Properties *)

\* Every variable keeps to its domain; the count of calls in flight and the
\* counts of the locks do not go below zero.
TypeOK ==
    /\ reads \in [Clients -> 0..MaxReads] /\ writer \in Clients \cup {NoClient}
    /\ active \in 0..MaxReads * Cardinality(Clients)
    /\ objs \in [Objects -> Locks \cup {NoLock}]
    /\ waiters \in [Locks -> 0..Cardinality(Clients)]
    /\ holder \in [Locks -> Clients \cup {NoClient}]
    /\ obj \in [Clients -> Objects \cup {NoObject}]
    /\ mine \in [Clients -> Locks \cup {NoLock}]
    /\ pc \in [Clients -> PCs]

\* Two calls never hold the lock of the same object, whatever locks were made
\* and removed for it in the meantime.
ObjectExclusive ==
    \A p, q \in Clients :
        pc[p] = "holding" /\ pc[q] = "holding" /\ obj[p] = obj[q] => p = q

\* The map has a lock for exactly the objects that some call locks, waits for
\* or is giving back: locks do not pile up, and none is removed in use.
MapExact ==
    \A o \in Objects : objs[o] # NoLock <=> \E p \in Clients : obj[p] = o

\* Whoever has the exclusive side, by BeginExclusive or TryExclusive, has it
\* alone, and InFlight reads 0 as long as it does.
ExclusiveAlone ==
    \A p \in Clients :
        pc[p] = "exclusive" =>
            /\ active = 0
            /\ \A q \in Clients : reads[q] = 0 /\ (pc[q] = "exclusive" => p = q)

\* A goroutine that asks for the fence while it holds its read lock.
Nested(p) == reads[p] > 0 /\ pc[p] \in {"rwait", "wlock", "wwait"}

Blocked(p) ==
    \/ pc[p] = "rwait"
    \/ pc[p] = "wlock" /\ writer # NoClient
    \/ pc[p] = "wwait" /\ \E q \in Clients : reads[q] > 0
    \/ pc[p] = "waiting" /\ holder[mine[p]] # NoClient

\* The fence, its writers and the locks of objects never block one another for
\* good: when no call under way can move, a goroutine has called the store
\* with a reader open (get.go: the reader keeps the read lock until Close).
StuckOnlyByNesting ==
    (\E p \in Clients : Blocked(p)) /\ (\A p \in Clients : pc[p] = "idle" \/ Blocked(p))
        => \E p \in Clients : Nested(p)

\* A call that waits for an object's lock gets it, even then.
ObjectLockGranted == \A p \in Clients : pc[p] = "waiting" ~> pc[p] = "holding"

\* A GC or Close that waits for the calls in flight gets its turn, unless one
\* of them waits behind it.
ExclusiveGranted ==
    \A p \in Clients :
        pc[p] = "wlock" ~> pc[p] = "exclusive" \/ \E q \in Clients : Nested(q)

\* Who has the lock of each object, whichever mutex that is at the moment.
Owners == [o \in Objects |->
             IF \E p \in Clients : pc[p] = "holding" /\ obj[p] = o
             THEN CHOOSE p \in Clients : pc[p] = "holding" /\ obj[p] = o
             ELSE NoClient]

AsStoreLocks == INSTANCE StoreLocks WITH
    shared  <- {p \in Clients : reads[p] > 0},
    waiting <- {p \in Clients : pc[p] = "rwait"},
    alone   <- \E p \in Clients : pc[p] = "exclusive",
    objLock <- Owners

\* The fence with its counter and its changing map of locks gives what
\* ShardStore takes for granted.
ImplementsStoreLocks == AsStoreLocks!LocksSpec
=============================================================================
