---------------------------- MODULE ObjectStore ----------------------------
(***************************************************************************)
(* What the store promises its callers, whatever it does with chunks,      *)
(* files, locks and GC: every object has a use count, and every call takes *)
(* effect once, at one moment between its call and its return.             *)
(*                                                                         *)
(*   Put      raises the count, or fails; having failed it may have left   *)
(*            the count raised, but has not made an object vanish          *)
(*   Delete   lowers the count, or finds no object at that moment, or      *)
(*            fails, before or after it took effect                        *)
(*   Get      sees the object at some moment, and then hands out a reader  *)
(*            unless the object is gone at a later moment, or it fails     *)
(*   Stat     sees the object, or finds none, at one moment (Has, too)     *)
(*   Verify   is to Get what checking is to reading: whatever else runs,   *)
(*            an object it saw and could open is never found damaged       *)
(*   VerifyAll  checks the objects of one moment, and complains only of    *)
(*            one that is gone when it comes to it                         *)
(*   Close    makes every call that starts afterwards be refused           *)
(***************************************************************************)
EXTENDS Naturals

CONSTANTS Clients, Objects, NoObject

VARIABLES
    uses,       \* use count of every object
    shut,       \* the store is closed
    call,       \* the pending call of every client
    target,     \* the object it is about
    phase,      \* how far it is
    listed      \* the objects a VerifyAll has still to check

absVars == <<uses, shut, call, target, phase, listed>>

Calls  == {"put", "delete", "get", "stat", "verify"}
\* done, missed, failed, refused: the answer is decided; sighted: Get has seen
\* the object; open: the caller holds a reader, or the object is being checked.
Phases == {"idle", "pending", "sighted", "open", "done", "missed", "failed", "refused"}

AbsInit ==
    /\ uses = [o \in Objects |-> 0]
    /\ shut = FALSE
    /\ call = [p \in Clients |-> "none"]
    /\ target = [p \in Clients |-> NoObject]
    /\ phase = [p \in Clients |-> "idle"]
    /\ listed = [p \in Clients |-> {}]

Move(p, from, to) ==
    /\ phase[p] \in from
    /\ phase' = [phase EXCEPT ![p] = to]

Start(p) ==
    /\ Move(p, {"idle"}, "pending")
    /\ \/ \E k \in Calls, o \in Objects :
             /\ call' = [call EXCEPT ![p] = k]
             /\ target' = [target EXCEPT ![p] = o]
       \/ call' = [call EXCEPT ![p] = "verifyall"] /\ UNCHANGED target
    /\ UNCHANGED <<uses, shut, listed>>

\* A Put or Delete takes effect.
PutEffect(p) ==
    /\ call[p] = "put"
    /\ Move(p, {"pending"}, "done")
    /\ uses' = [uses EXCEPT ![target[p]] = @ + 1]
    /\ UNCHANGED <<shut, call, target, listed>>

DeleteEffect(p) ==
    /\ call[p] = "delete" /\ uses[target[p]] > 0
    /\ Move(p, {"pending"}, "done")
    /\ uses' = [uses EXCEPT ![target[p]] = @ - 1]
    /\ UNCHANGED <<shut, call, target, listed>>

\* A Get or Verify sees the object, and may hand out a reader, or check it,
\* although the object is deleted meanwhile.
Sight(p) ==
    /\ call[p] \in {"get", "verify"} /\ uses[target[p]] > 0
    /\ Move(p, {"pending"}, "sighted")
    /\ UNCHANGED <<uses, shut, call, target, listed>>

OpenReader(p) ==
    /\ Move(p, {"sighted"}, "open")
    /\ UNCHANGED <<uses, shut, call, target, listed>>

CloseHandle(p) ==
    /\ listed[p] = {}
    /\ Move(p, {"open"}, "done")
    /\ UNCHANGED <<uses, shut, call, target, listed>>

Look(p) ==
    /\ call[p] = "stat" /\ uses[target[p]] > 0
    /\ Move(p, {"pending"}, "done")
    /\ UNCHANGED <<uses, shut, call, target, listed>>

\* A VerifyAll takes its list, checks an object of it, or finds one gone.
ListAll(p) ==
    /\ call[p] = "verifyall"
    /\ Move(p, {"pending"}, "open")
    /\ listed' = [listed EXCEPT ![p] = {o \in Objects : uses[o] > 0}]
    /\ UNCHANGED <<uses, shut, call, target>>

Checked(p) ==
    /\ phase[p] = "open"
    /\ \E o \in listed[p] : listed' = [listed EXCEPT ![p] = @ \ {o}]
    /\ UNCHANGED <<uses, shut, call, target, phase>>

Complain(p) ==
    /\ \E o \in listed[p] : uses[o] = 0
    /\ Move(p, {"open"}, "missed")
    /\ listed' = [listed EXCEPT ![p] = {}]
    /\ UNCHANGED <<uses, shut, call, target>>

\* The object does not exist at this moment (ErrNotFound, or ErrIncomplete
\* when Get had seen it before).
Miss(p) ==
    /\ call[p] \in Calls \ {"put"} /\ uses[target[p]] = 0
    /\ Move(p, {"pending", "sighted"}, "missed")
    /\ UNCHANGED <<uses, shut, call, target, listed>>

\* A call fails without effect; or a Put or Delete, or the GC that ends a
\* Delete, fails in spite of its effect.
Fail(p) ==
    /\ \/ call[p] \in {"put", "delete"} /\ Move(p, {"pending", "done"}, "failed")
       \/ call[p] \in {"get", "verify"} /\ Move(p, {"sighted"}, "failed")
    /\ UNCHANGED <<uses, shut, call, target, listed>>

\* A Put that cannot be saved takes its use back; others still use the object.
TakeBack(p) ==
    /\ call[p] = "put" /\ uses[target[p]] > 1
    /\ Move(p, {"done"}, "failed")
    /\ uses' = [uses EXCEPT ![target[p]] = @ - 1]
    /\ UNCHANGED <<shut, call, target, listed>>

\* The store is closed before the call starts its work, or before the GC that
\* ends a Delete.
Refuse(p) ==
    /\ shut
    /\ \/ Move(p, {"pending"}, "refused")
       \/ call[p] = "delete" /\ Move(p, {"done"}, "refused")
    /\ UNCHANGED <<uses, shut, call, target, listed>>

Answered(p) ==
    /\ Move(p, {"done", "missed", "failed", "refused"}, "idle")
    /\ call' = [call EXCEPT ![p] = "none"]
    /\ target' = [target EXCEPT ![p] = NoObject]
    /\ UNCHANGED <<uses, shut, listed>>

\* Close takes effect when no reader is open.
Shut ==
    /\ \A p \in Clients : phase[p] \notin {"sighted", "open"}
    /\ shut' = TRUE
    /\ UNCHANGED <<uses, call, target, phase, listed>>

AbsNext ==
    \/ \E p \in Clients :
          \/ Start(p) \/ PutEffect(p) \/ DeleteEffect(p) \/ Sight(p) \/ OpenReader(p)
          \/ Look(p) \/ ListAll(p) \/ Checked(p) \/ Complain(p)
          \/ CloseHandle(p) \/ Miss(p) \/ Fail(p) \/ TakeBack(p)
          \/ Refuse(p) \/ Answered(p)
    \/ Shut

AbsSpec == AbsInit /\ [][AbsNext]_absVars
=============================================================================
