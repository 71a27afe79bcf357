---------------------------- MODULE Verification ----------------------------
(***************************************************************************)
(* The calls that only look, on a memory store: Verify and VerifyAll       *)
(* (verify.go, internal/verify), Stat and Has, beside the Puts, Deletes,   *)
(* Gets, GCs and Closes of ShardStore, and the checks of internal/gc that  *)
(* relate counts, chunks and manifests.                                    *)
(*                                                                         *)
(* They hold the fence's read lock and no object's lock, so an object may  *)
(* be deleted between any two of their steps.  Contents have the digests   *)
(* they were stored under: on a memory store nothing else can change them. *)
(***************************************************************************)
EXTENDS StoreRefinement

CONSTANT Lookers    \* the clients that make these calls, and no others

ASSUME MemoryAssumption == Memory
ASSUME LookersAssumption == Lookers \subseteq Clients

VARIABLE listed     \* the objects a VerifyAll has still to check

lookVars == <<vars, listed>>

LookInit == Init /\ listed = [p \in Clients |-> {}]

CallLook(p) ==
    /\ pc[p] = "idle" /\ p \in Lookers
    /\ \/ \E k \in {"stat", "verify"}, o \in Objects :
             /\ op' = [op EXCEPT ![p] = k]
             /\ obj' = [obj EXCEPT ![p] = o]
       \/ op' = [op EXCEPT ![p] = "verifyall"] /\ UNCHANGED obj
    /\ Goto(p, "rlock")
    /\ UNCHANGED <<storeVars, fileVars, diskVars, lockVars, pos, seen, out, todo, faults, listed>>

EnterLook(p) ==
    /\ pc[p] = "enter" /\ p \in Lookers /\ ~closed
    /\ Goto(p, IF op[p] = "verifyall" THEN "list" ELSE "look")
    /\ UNCHANGED <<storeVars, fileVars, diskVars, lockVars, callVars, todo, faults, listed>>

Conclude(p, r) == Answer(p, r) /\ Goto(p, "finish")

\* idx.Get: all there is to Stat and Has, and the beginning of Verify.
Look(p) ==
    /\ pc[p] = "look"
    /\ CASE idx[obj[p]] = 0                     -> Conclude(p, "notfound")
         [] idx[obj[p]] > 0 /\ op[p] = "stat"   -> Conclude(p, "ok")
         [] idx[obj[p]] > 0 /\ op[p] = "verify" -> out' = out /\ Goto(p, "load")
    /\ UNCHANGED <<storeVars, fileVars, diskVars, lockVars, op, obj, pos, seen,
                   todo, faults, listed>>

\* Mutant: an object without a manifest is reported as damaged.
LoadBlaming(p) ==
    /\ pc[p] = "load"
    /\ IF obj[p] \in manifests THEN out' = out /\ Goto(p, "check") ELSE Conclude(p, "corrupt")
    /\ pos' = [pos EXCEPT ![p] = 1]
    /\ UNCHANGED <<storeVars, fileVars, diskVars, lockVars, op, obj, seen, todo, faults, listed>>

\* memManifest; Verify returns its error as it is.
Load(p) ==
    /\ pc[p] = "load"
    /\ IF obj[p] \in manifests THEN out' = out /\ Goto(p, "check") ELSE Conclude(p, "notfound")
    /\ pos' = [pos EXCEPT ![p] = 1]
    /\ UNCHANGED <<storeVars, fileVars, diskVars, lockVars, op, obj, seen, todo, faults, listed>>

\* verify.Object fetches the next chunk; a missing one is a fault, and it goes
\* on with the others.
CheckChunk(p) ==
    /\ pc[p] = "check" /\ pos[p] <= NEntries(obj[p])
    /\ pos' = [pos EXCEPT ![p] = @ + 1]
    /\ IF Slot(obj[p], pos[p]) \in blobs THEN out' = out ELSE Answer(p, "corrupt")
    /\ UNCHANGED <<storeVars, fileVars, diskVars, lockVars, pc, op, obj, seen,
                   todo, faults, listed>>

\* The report: Verify and VerifyAll end with its faults, and VerifyAll goes on
\* to the next object if there are none.
Report(p) ==
    /\ pc[p] = "check" /\ pos[p] = NEntries(obj[p]) + 1
    /\ CASE out[p] = "corrupt"                       -> out' = out /\ Goto(p, "finish")
         [] out[p] = "none" /\ op[p] = "verify"      -> Conclude(p, "ok")
         [] out[p] = "none" /\ op[p] = "verifyall"   -> out' = out /\ Goto(p, "next")
    /\ listed' = [listed EXCEPT ![p] = IF out[p] = "corrupt" THEN {} ELSE @ \ {obj[p]}]
    /\ UNCHANGED <<storeVars, fileVars, diskVars, lockVars, op, obj, pos, seen, todo, faults>>

\* VerifyAll: idx.List, then the manifest of one object after another, in any
\* order.  One without a manifest ends it.
List(p) ==
    /\ pc[p] = "list"
    /\ listed' = [listed EXCEPT ![p] = {o \in Objects : idx[o] > 0}]
    /\ Goto(p, "next")
    /\ UNCHANGED <<storeVars, fileVars, diskVars, lockVars, callVars, todo, faults>>

LoadNext(p) ==
    /\ pc[p] = "next"
    /\ \E o \in listed[p] :
          /\ obj' = [obj EXCEPT ![p] = o]
          /\ IF o \in manifests
               THEN out' = out /\ Goto(p, "check") /\ UNCHANGED listed
               ELSE Conclude(p, "gone") /\ listed' = [listed EXCEPT ![p] = {}]
    /\ pos' = [pos EXCEPT ![p] = 1]
    /\ UNCHANGED <<storeVars, fileVars, diskVars, lockVars, op, seen, todo, faults>>

AllChecked(p) ==
    /\ pc[p] = "next" /\ listed[p] = {}
    /\ Conclude(p, "ok")
    /\ UNCHANGED <<storeVars, fileVars, diskVars, lockVars, op, obj, pos, seen,
                   todo, faults, listed>>

LookStep(p) == \/ EnterLook(p) \/ Look(p) \/ Load(p) \/ CheckChunk(p) \/ Report(p)
               \/ List(p) \/ LoadNext(p) \/ AllChecked(p)

LookNext == \E p \in Clients :
    \/ /\ p \notin Lookers
       /\ Call(p) \/ Step(p) \/ Failure(p)
       /\ UNCHANGED listed
    \/ /\ p \in Lookers
       /\ RLock(p) \/ EnterClosed(p) \/ Finish(p)
       /\ UNCHANGED listed
    \/ CallLook(p) \/ LookStep(p)

LookSpec == LookInit /\ [][LookNext]_lookVars

-----------------------------------------------------------------------------
(* The helpers of internal/gc *)

\* AssertSafe: the backend has every chunk with a reference.
Live == {c \in Chunks : refs[c] > 0}
Safe == Live \subseteq blobs

\* Orphans: the chunks without one.
Orphans == {c \in blobs : refs[c] = 0}

\* MarkLive: the counts with those of reachable chunks raised to 1 at least.
Reachable == UNION {ChunksOf(o) : o \in {o \in Objects : idx[o] > 0}}
Marked == [c \in Chunks |-> IF refs[c] = 0 /\ c \in Reachable THEN 1 ELSE refs[c]]

-----------------------------------------------------------------------------
(* Properties *)

LookPhase(p) ==
    IF op[p] = "none" THEN "idle"
    ELSE IF out[p] # "none"
      THEN CASE out[p] = "corrupt" -> "broken"
             [] out[p] = "gone"    -> "missed"
             [] out[p] \in {"ok", "closed", "notfound"} -> AnswerPhase(out[p])
      ELSE CASE pc[p] = "load" -> "sighted"
             [] pc[p] \in {"check", "next"} -> "open"
             [] OTHER -> "pending"

WithLooks == INSTANCE ObjectStore WITH
    uses   <- idx,
    shut   <- closed,
    call   <- [p \in Clients |-> IF p \in Lookers THEN op[p] ELSE CallOf(p)],
    target <- [p \in Clients |-> IF op[p] = "verifyall" THEN NoObject ELSE obj[p]],
    phase  <- [p \in Clients |-> IF p \in Lookers THEN LookPhase(p) ELSE Phase(p)]

\* Verify and VerifyAll never find a fault in a store nobody has damaged,
\* whatever Puts, Deletes and GCs run beside them, except that VerifyAll may
\* meet an object that is no longer indexed by then; and all other calls keep
\* their contract (verify.go, ObjectStore).
LooksImplementObjectStore == WithLooks!AbsSpec

\* Every chunk with a reference is in the backend, at every moment (AssertSafe,
\* README invariant 3: GC must not delete a chunk whose count is above zero).
ReferencedPresent == Safe

\* With no call in an object's critical section the counts have not drifted:
\* MarkLive would find nothing to repair, so no orphan is a chunk that an
\* indexed object needs.
NothingToRepair ==
    (\A o \in Objects : objLock[o] = NoClient) =>
        Marked = refs /\ Orphans \cap Reachable = {}
=============================================================================
