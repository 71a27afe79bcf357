--------------------------- MODULE BackendProofs ---------------------------
(***************************************************************************)
(* Proofs about the chunk backends: what a crash leaves of their files, and *)
(* which way their totals drift, for all clients, chunks and sizes.         *)
(***************************************************************************)
EXTENDS Backend, TLAPS, FiniteSetTheorems

-----------------------------------------------------------------------------
(* The sum of sizes, which the module Folds defines by recursion *)

\* Induction over the subsets of a finite set: some subset of S in a nonempty T
\* has no smaller one in T.
LEMMA MinimalSubset ==
    ASSUME NEW S, IsFiniteSet(S), NEW T \in SUBSET (SUBSET S), T # {}
    PROVE  \E m \in T : \A u \in T : ~(u \subseteq m /\ u # m)
<1>1. IsWellFoundedOn(StrictSubsetOrdering(S), FiniteSubsetsOf(S))
  BY FS_StrictSubsetOrderingWellFounded
<1>2. FiniteSubsetsOf(S) = SUBSET S
  BY FS_FiniteSubsetsOfFinite
<1>3. T \subseteq FiniteSubsetsOf(S)
  BY <1>2
<1>4. \E m \in T : \A u \in T : <<u, m>> \notin StrictSubsetOrdering(S)
  BY <1>1, <1>3, WFMin
<1> QED BY <1>4 DEF StrictSubsetOrdering

\* The element that the sum takes off a set first, and the function that sums up
\* the sizes of the subsets of S.
First(s) == CHOOSE x \in s : TRUE
Sums(g, S) ==
    g = [s \in SUBSET S |-> IF s = {} THEN 0 ELSE SizeOf[First(s)] + g[s \ {First(s)}]]

\* TotalSize is that function at S.
LEMMA TotalIs == ASSUME NEW S PROVE TotalSize(S) = (CHOOSE g : Sums(g, S))[S]
  BY DEF TotalSize, MapThenSumSet, MapThenFoldSet, Sums, First

\* What such a function is at a subset.
LEMMA SumsAt ==
    ASSUME NEW S, NEW g, Sums(g, S), NEW s \in SUBSET S
    PROVE  g[s] = IF s = {} THEN 0 ELSE SizeOf[First(s)] + g[s \ {First(s)}]
<1> DEFINE body(x) == IF x = {} THEN 0 ELSE SizeOf[First(x)] + g[x \ {First(x)}]
<1>1. g = [x \in SUBSET S |-> body(x)]
  BY DEF Sums
<1> HIDE DEF body
<1>2. g[s] = body(s)
  BY <1>1
<1> QED BY <1>2 DEF body

\* Two such functions agree where both are defined.
LEMMA SumsAgree ==
    ASSUME NEW A, NEW B, NEW g, NEW h, IsFiniteSet(A), A \subseteq B, Sums(g, A), Sums(h, B)
    PROVE  \A s \in SUBSET A : g[s] = h[s]
<1> DEFINE T == {s \in SUBSET A : g[s] # h[s]}
<1> SUFFICES ASSUME T # {} PROVE FALSE
  OBVIOUS
<1>1. T \in SUBSET (SUBSET A)
  OBVIOUS
<1> HIDE DEF T
<1>2. PICK m \in T : \A u \in T : ~(u \subseteq m /\ u # m)
  BY <1>1, MinimalSubset
<1> USE DEF T
<1>3. m # {}
  BY <1>2 DEF Sums
<1>4. First(m) \in m
  BY <1>3 DEF First
<1>5. m \ {First(m)} \in SUBSET A /\ g[m \ {First(m)}] = h[m \ {First(m)}]
  BY <1>2, <1>4
<1>6. g[m] = SizeOf[First(m)] + g[m \ {First(m)}] /\ h[m] = SizeOf[First(m)] + h[m \ {First(m)}]
  BY <1>3 DEF Sums
<1> QED BY <1>2, <1>5, <1>6

\* There is one for every finite set.
LEMMA SumsExist ==
    ASSUME NEW S, IsFiniteSet(S)
    PROVE  \E g : Sums(g, S)
<1> DEFINE T == {s \in SUBSET S : ~\E g : Sums(g, s)}
<1> SUFFICES ASSUME T # {} PROVE FALSE
  OBVIOUS
<1>1. T \in SUBSET (SUBSET S)
  OBVIOUS
<1> HIDE DEF T
<1>2. PICK m \in T : \A u \in T : ~(u \subseteq m /\ u # m)
  BY <1>1, MinimalSubset
<1> USE DEF T
<1> DEFINE G(w) == CHOOSE g : Sums(g, w)
           h == [s \in SUBSET m |-> IF s = {} THEN 0
                                    ELSE SizeOf[First(s)] + G(s \ {First(s)})[s \ {First(s)}]]
<1>3. ASSUME NEW w \in SUBSET m, w # m
      PROVE  Sums(G(w), w)
  <2>1. w \notin T /\ w \in SUBSET S
    BY <1>2, <1>3
  <2> QED BY <2>1
<1>4. ASSUME NEW w \in SUBSET m, w # m
      PROVE  h[w] = G(w)[w]
  <2>1. CASE w = {}
    <3>1. Sums(G(w), w)
      BY <1>3, <1>4
    <3> HIDE DEF G
    <3>2. G(w)[w] = 0
      BY <2>1, <3>1, SumsAt
    <3>3. h[w] = 0
      BY <2>1
    <3> QED BY <3>2, <3>3
  <2>2. CASE w # {}
    <3>1. First(w) \in w
      BY <2>2 DEF First
    <3> DEFINE v == w \ {First(w)}
    <3>2. v \subseteq w /\ v \in SUBSET m /\ v # m
      BY <1>4
    <3>3. IsFiniteSet(v)
      BY <3>2, FS_Subset
    <3>4. Sums(G(v), v) /\ Sums(G(w), w)
      BY <1>3, <1>4, <3>2
    <3>5. G(v)[v] = G(w)[v]
      BY <3>2, <3>3, <3>4, SumsAgree
    <3>6. h[w] = SizeOf[First(w)] + G(v)[v]
      BY <2>2
    <3>7. G(w)[w] = SizeOf[First(w)] + G(w)[v]
      BY <2>2, <3>4 DEF Sums
    <3> QED BY <3>5, <3>6, <3>7
  <2> QED BY <2>1, <2>2
<1>5. ASSUME NEW s \in SUBSET m, s # {}
      PROVE  h[s] = SizeOf[First(s)] + h[s \ {First(s)}]
  <2>1. First(s) \in s
    BY <1>5 DEF First
  <2>2. s \ {First(s)} \in SUBSET m /\ s \ {First(s)} # m
    BY <2>1
  <2>3. h[s \ {First(s)}] = G(s \ {First(s)})[s \ {First(s)}]
    BY <1>4, <2>2
  <2> QED BY <1>5, <2>3
<1>6. h[{}] = 0
  OBVIOUS
<1>7. h = [s \in SUBSET m |-> h[s]]
  OBVIOUS
<1> HIDE DEF h
<1>8. Sums(h, m)
  BY <1>5, <1>6, <1>7 DEF Sums
<1> QED BY <1>2, <1>8

\* The sum of a set takes one element and adds the sum of the others.
LEMMA TotalUnfold ==
    ASSUME NEW S, IsFiniteSet(S)
    PROVE  /\ TotalSize({}) = 0
           /\ S # {} => TotalSize(S) = SizeOf[First(S)] + TotalSize(S \ {First(S)})
<1> DEFINE G(w) == CHOOSE g : Sums(g, w)
<1>1. ASSUME NEW w \in SUBSET S
      PROVE  Sums(G(w), w) /\ TotalSize(w) = G(w)[w] /\ IsFiniteSet(w)
  <2>1. IsFiniteSet(w)
    BY FS_Subset
  <2> QED BY <2>1, SumsExist, TotalIs
<1>2. TotalSize({}) = 0
  BY <1>1 DEF Sums
<1>3. ASSUME S # {}
      PROVE  TotalSize(S) = SizeOf[First(S)] + TotalSize(S \ {First(S)})
  <2> DEFINE v == S \ {First(S)}
  <2>1. Sums(G(S), S) /\ Sums(G(v), v) /\ IsFiniteSet(v) /\ TotalSize(v) = G(v)[v] /\ TotalSize(S) = G(S)[S]
    BY <1>1
  <2>2. G(v)[v] = G(S)[v]
    BY <2>1, SumsAgree
  <2>3. G(S)[S] = SizeOf[First(S)] + G(S)[v]
    <3> HIDE DEF G
    <3> QED BY <1>3, <2>1, SumsAt
  <2> QED BY <2>1, <2>2, <2>3
<1> QED BY <1>2, <1>3

\* It is a number, and any element may be the one.
LEMMA TotalRemove ==
    ASSUME NEW S \in SUBSET Chunks, IsFiniteSet(S)
    PROVE  /\ TotalSize(S) \in Nat
           /\ \A c \in S : TotalSize(S) = SizeOf[c] + TotalSize(S \ {c})
<1> DEFINE P(s) == /\ TotalSize(s) \in Nat
                   /\ \A c \in s : TotalSize(s) = SizeOf[c] + TotalSize(s \ {c})
           T == {s \in SUBSET S : ~P(s)}
<1> SUFFICES ASSUME T # {} PROVE FALSE
  OBVIOUS
<1>1. T \in SUBSET (SUBSET S)
  OBVIOUS
<1> HIDE DEF T
<1>2. PICK m \in T : \A u \in T : ~(u \subseteq m /\ u # m)
  BY <1>1, MinimalSubset
<1> USE DEF T
<1>3. ASSUME NEW u \in SUBSET m, u # m
      PROVE  P(u)
  BY <1>2, <1>3
<1> HIDE DEF P
<1>4. IsFiniteSet(m)
  BY <1>2, FS_Subset
<1>5. m # {}
  <2>1. P({})
    <3>1. IsFiniteSet({}) /\ TotalSize({}) = 0
      BY FS_EmptySet, TotalUnfold
    <3> QED BY <3>1 DEF P
  <2> QED BY <1>2, <2>1
<1> DEFINE x == First(m)
<1>6. x \in m
  BY <1>5 DEF First
<1>7. TotalSize(m) = SizeOf[x] + TotalSize(m \ {x})
  BY <1>4, <1>5, TotalUnfold
<1> HIDE DEF x
<1>8. \A c \in m : SizeOf[c] \in Nat
  BY <1>2, SizeAssumption
<1>9. P(m \ {x})
  BY <1>3, <1>6
<1>10. ASSUME NEW c \in m, c # x
      PROVE  TotalSize(m) = SizeOf[c] + TotalSize(m \ {c})
  <2>1. P(m \ {c}) /\ P((m \ {x}) \ {c})
    BY <1>3, <1>6, <1>10
  <2>2. TotalSize(m \ {x}) = SizeOf[c] + TotalSize((m \ {x}) \ {c})
    BY <1>9, <1>10 DEF P
  <2>3. TotalSize(m \ {c}) = SizeOf[x] + TotalSize((m \ {c}) \ {x})
    BY <1>6, <1>10, <2>1 DEF P
  <2> DEFINE r == TotalSize((m \ {x}) \ {c})
  <2>4. (m \ {c}) \ {x} = (m \ {x}) \ {c}
    OBVIOUS
  <2>5. r \in Nat /\ TotalSize(m \ {x}) = SizeOf[c] + r /\ TotalSize(m \ {c}) = SizeOf[x] + r
    BY <2>1, <2>2, <2>3, <2>4 DEF P
  <2>6. SizeOf[c] \in Nat /\ SizeOf[x] \in Nat
    BY <1>6, <1>8, <1>10
  <2> HIDE DEF r
  <2> QED BY <1>7, <2>5, <2>6
<1>11. TotalSize(m) \in Nat
  BY <1>6, <1>7, <1>8, <1>9 DEF P
<1>12. P(m)
  BY <1>7, <1>10, <1>11 DEF P
<1> QED BY <1>2, <1>12
-----------------------------------------------------------------------------
(* The inductive invariant *)

\* Clients that have a temporary file.
TempHolders == {p \in Clients : pc[p] \in {"sync", "rename"}}

\* Chunks that some Put has yet to add to nfile, and those it has yet to add to
\* nbytes.
Uncounted == {chunk[p] : p \in {q \in Clients : pc[q] = "count"}}
Unsized   == {chunk[p] : p \in {q \in Clients : pc[q] \in {"count", "size"}}}

Shapes ==
    /\ kind \in Kinds /\ open \in BOOLEAN
    /\ present \subseteq Chunks /\ IsFiniteSet(present) /\ synced \subseteq present
    /\ nfile \in Nat /\ nbytes \in Nat /\ left \in Nat /\ crashes \in 0..MaxCrashes
    /\ flushed \subseteq Clients
    /\ pc \in [Clients -> {"idle", "memory", "look", "again", "write", "sync", "rename",
                           "count", "size"}]
    /\ chunk \in [Clients -> Chunks \cup {NoChunk}]

\* A Put under way has a chunk, and renames what it has synced.
Putting ==
    \A p \in Clients :
        /\ pc[p] # "idle" => open /\ chunk[p] \in Chunks
        /\ pc[p] \notin {"idle", "memory"} => kind = "disk"
        /\ pc[p] = "memory" => kind = "memory"
        /\ pc[p] = "rename" => p \in flushed

\* The files in place are those whose content was synced.
FilesSynced == torn = {} /\ synced = IF kind = "disk" THEN present ELSE {}

TempsCounted == IsFiniteSet(TempHolders) /\ ntemp = left + Cardinality(TempHolders)

\* Each total covers the files that no Put has yet to add to it.
DiskTotals ==
    open => /\ nfile >= Cardinality(present \ Uncounted)
            /\ nbytes >= TotalSize(present \ Unsized)

MemoryTotals ==
    kind = "memory" => nfile = Cardinality(present) /\ nbytes = TotalSize(present)

BackendInv == Shapes /\ Putting /\ FilesSynced /\ TempsCounted /\ DiskTotals /\ MemoryTotals

\* A number that bounds the elements of a set, after one is added or removed.
LEMMA CardinalityBound ==
    ASSUME NEW A, IsFiniteSet(A), NEW n \in Nat, n >= Cardinality(A), NEW c, NEW B
    PROVE  /\ B \in {A, A \ {c}} => n >= Cardinality(B)
           /\ B \in {A, A \cup {c}} => n + 1 >= Cardinality(B)
<1>1. Cardinality(A) \in Nat
  BY FS_CardinalityType
<1>2. Cardinality(A \ {c}) = IF c \in A THEN Cardinality(A) - 1 ELSE Cardinality(A)
  BY FS_RemoveElement
<1>3. Cardinality(A \cup {c}) = IF c \in A THEN Cardinality(A) ELSE Cardinality(A) + 1
  BY FS_AddElement
<1>4. n >= Cardinality(A \ {c})
  BY <1>1, <1>2
<1>5. n + 1 >= Cardinality(A \cup {c}) /\ n + 1 >= Cardinality(A)
  BY <1>1, <1>3
<1> QED BY <1>4, <1>5

\* A number that bounds the sizes of a set, after one is added or removed.
LEMMA SizeBound ==
    ASSUME NEW A \in SUBSET Chunks, IsFiniteSet(A), NEW n \in Nat, n >= TotalSize(A),
           NEW c \in Chunks, NEW B
    PROVE  /\ B \in {A, A \ {c}} => n >= TotalSize(B)
           /\ B \in {A, A \cup {c}} => n + SizeOf[c] >= TotalSize(B)
<1>1. TotalSize(A) \in Nat /\ SizeOf[c] \in Nat
  BY TotalRemove, SizeAssumption
<1>2. c \in A => TotalSize(A) = SizeOf[c] + TotalSize(A \ {c}) /\ TotalSize(A \ {c}) \in Nat
  <2>1. IsFiniteSet(A \ {c})
    BY FS_RemoveElement
  <2>2. TotalSize(A \ {c}) \in Nat
    BY <2>1, TotalRemove
  <2> QED BY <2>2, TotalRemove
<1>3. c \notin A => TotalSize(A \cup {c}) = SizeOf[c] + TotalSize(A)
  <2> SUFFICES ASSUME c \notin A PROVE TotalSize(A \cup {c}) = SizeOf[c] + TotalSize(A)
    OBVIOUS
  <2>1. IsFiniteSet(A \cup {c}) /\ A \cup {c} \in SUBSET Chunks
    BY FS_AddElement
  <2>2. (A \cup {c}) \ {c} = A
    OBVIOUS
  <2>3. TotalSize(A \cup {c}) = SizeOf[c] + TotalSize((A \cup {c}) \ {c})
    BY <2>1, TotalRemove
  <2> QED BY <2>2, <2>3
<1>4. c \notin A => A \ {c} = A
  OBVIOUS
<1>5. c \in A => A \cup {c} = A
  OBVIOUS
<1>6. n >= TotalSize(A \ {c})
  BY <1>1, <1>2, <1>4
<1>7. n + SizeOf[c] >= TotalSize(A \cup {c}) /\ n + SizeOf[c] >= TotalSize(A)
  BY <1>1, <1>3, <1>5
<1> QED BY <1>6, <1>7

-----------------------------------------------------------------------------
(* Its parts are preserved *)

\* A Put under way keeps its chunk, and the backend open.
LEMMA PuttingStep == Shapes /\ Putting /\ [Next]_vars => Putting'
<1> SUFFICES ASSUME Shapes, Putting, [Next]_vars PROVE Putting'
  OBVIOUS
<1> USE DEF Shapes, Putting, Goto, Return, totals, files, lifeVars
<1>1. ASSUME NEW p \in Clients, Call(p) PROVE Putting'
  <2>1. kind \in {"disk", "memory"}
    BY BoundsAssumption
  <2> QED BY <1>1, <2>1 DEF Call
<1>2. ASSUME NEW p \in Clients, PutStep(p) PROVE Putting'
  BY <1>2 DEF PutStep, MemoryPut, Look, LookAgain, WriteTemp, SyncTemp, Rename, RenameFail,
     CountFile, CountBytes
<1>3. ASSUME NEW c \in Chunks, DeleteFile(c) \/ MemoryDelete(c) PROVE Putting'
  BY <1>3 DEF DeleteFile, MemoryDelete, Quiet
<1>4. CASE Close \/ OpenDisk
  BY <1>4 DEF Close, OpenDisk, Quiet
<1>5. CASE Crash
  BY <1>5 DEF Crash
<1>6. CASE UNCHANGED vars
  BY <1>6 DEF vars
<1> QED BY <1>1, <1>2, <1>3, <1>4, <1>5, <1>6 DEF Next

\* A file gets its name once its content is synced, so a crash finds none whose
\* content it could lose.
LEMMA FilesStep == Shapes /\ Putting /\ FilesSynced /\ [Next]_vars => FilesSynced'
<1> SUFFICES ASSUME Shapes, Putting, FilesSynced, [Next]_vars PROVE FilesSynced'
  OBVIOUS
<1> USE DEF Shapes, Putting, FilesSynced, Goto, Return, totals, files, lifeVars
<1>1. ASSUME NEW p \in Clients, Call(p) PROVE FilesSynced'
  BY <1>1 DEF Call
<1>2. ASSUME NEW p \in Clients, PutStep(p) PROVE FilesSynced'
  BY <1>2 DEF PutStep, MemoryPut, Look, LookAgain, WriteTemp, SyncTemp, Rename, RenameFail,
     CountFile, CountBytes
<1>3. ASSUME NEW c \in Chunks, DeleteFile(c) \/ MemoryDelete(c) PROVE FilesSynced'
  BY <1>3 DEF DeleteFile, MemoryDelete
<1>4. CASE Close \/ OpenDisk
  BY <1>4 DEF Close, OpenDisk
<1>5. CASE Crash
  <2>1. present \ synced = {}
    BY <1>5 DEF Crash
  <2> QED BY <1>5, <2>1 DEF Crash
<1>6. CASE UNCHANGED vars
  BY <1>6 DEF vars
<1> QED BY <1>1, <1>2, <1>3, <1>4, <1>5, <1>6 DEF Next

\* Temporary files are those of the Puts that hold one and those a crash left.
LEMMA TempsStep == Shapes /\ TempsCounted /\ [Next]_vars => TempsCounted'
<1> SUFFICES ASSUME Shapes, TempsCounted, [Next]_vars PROVE TempsCounted'
  OBVIOUS
<1> USE DEF Shapes, TempsCounted, Goto, Return, totals, files, lifeVars
<1>1. Cardinality(TempHolders) \in Nat
  BY FS_CardinalityType
<1>2. ASSUME TempHolders' = TempHolders, UNCHANGED <<ntemp, left>> PROVE TempsCounted'
  BY <1>2
<1>3. ASSUME NEW p \in TempHolders, TempHolders' = TempHolders \ {p}, ntemp' = ntemp - 1, left' = left
      PROVE  TempsCounted'
  <2>1. /\ IsFiniteSet(TempHolders \ {p})
        /\ Cardinality(TempHolders \ {p}) = Cardinality(TempHolders) - 1
    BY <1>3, FS_RemoveElement
  <2>2. IsFiniteSet(TempHolders') /\ Cardinality(TempHolders') = Cardinality(TempHolders) - 1
    BY <1>3, <2>1
  <2> QED BY <1>1, <1>3, <2>2
<1>4. ASSUME NEW p \in Clients, Call(p) PROVE TempsCounted'
  BY <1>2, <1>4 DEF Call, TempHolders
<1>5. ASSUME NEW p \in Clients, PutStep(p) PROVE TempsCounted'
  <2>1. CASE MemoryPut(p) \/ Look(p) \/ LookAgain(p) \/ CountFile(p) \/ CountBytes(p)
    BY <1>2, <2>1 DEF MemoryPut, Look, LookAgain, CountFile, CountBytes, TempHolders
  <2>2. CASE WriteTemp(p)
    <3>1. p \notin TempHolders /\ TempHolders' = TempHolders \cup {p}
      BY <2>2 DEF WriteTemp, TempHolders
    <3>2. ntemp' = ntemp + 1 /\ left' = left
      BY <2>2 DEF WriteTemp
    <3>3. /\ IsFiniteSet(TempHolders \cup {p})
          /\ Cardinality(TempHolders \cup {p}) = Cardinality(TempHolders) + 1
      BY <3>1, FS_AddElement
    <3>4. IsFiniteSet(TempHolders') /\ Cardinality(TempHolders') = Cardinality(TempHolders) + 1
      BY <3>1, <3>3
    <3> QED BY <1>1, <3>2, <3>4
  <2>3. CASE SyncTemp(p)
    <3>1. CASE pc' = [pc EXCEPT ![p] = "rename"] /\ UNCHANGED ntemp
      BY <1>2, <2>3, <3>1 DEF SyncTemp, TempHolders
    <3>2. CASE pc' = [pc EXCEPT ![p] = "idle"] /\ ntemp' = ntemp - 1
      <4>1. p \in TempHolders /\ TempHolders' = TempHolders \ {p}
        BY <2>3, <3>2 DEF SyncTemp, TempHolders
      <4> QED BY <1>3, <2>3, <3>2, <4>1 DEF SyncTemp
    <3> QED BY <2>3, <3>1, <3>2 DEF SyncTemp
  <2>4. CASE Rename(p) \/ RenameFail(p)
    <3>1. p \in TempHolders /\ TempHolders' = TempHolders \ {p}
      BY <2>4 DEF Rename, RenameFail, TempHolders
    <3> QED BY <1>3, <2>4, <3>1 DEF Rename, RenameFail
  <2> QED BY <1>5, <2>1, <2>2, <2>3, <2>4 DEF PutStep
<1>6. ASSUME NEW c \in Chunks, DeleteFile(c) \/ MemoryDelete(c) PROVE TempsCounted'
  BY <1>2, <1>6 DEF DeleteFile, MemoryDelete, TempHolders
<1>7. CASE Close \/ OpenDisk
  BY <1>2, <1>7 DEF Close, OpenDisk, TempHolders
<1>8. CASE Crash
  <2>1. TempHolders' = {}
    BY <1>8 DEF Crash, TempHolders
  <2>2. left' = ntemp /\ ntemp' = ntemp /\ ntemp \in Nat
    BY <1>1, <1>8 DEF Crash
  <2> QED BY <2>1, <2>2, FS_EmptySet
<1>9. CASE UNCHANGED vars
  BY <1>2, <1>9 DEF vars, TempHolders
<1> QED BY <1>4, <1>5, <1>6, <1>7, <1>8, <1>9 DEF Next

\* What is known of the totals while the backend is open, in numbers.
LEMMA TotalsTyped ==
    ASSUME Shapes
    PROVE  /\ IsFiniteSet(present \ Uncounted) /\ Cardinality(present \ Uncounted) \in Nat
           /\ IsFiniteSet(present \ Unsized) /\ present \ Unsized \in SUBSET Chunks
           /\ TotalSize(present) \in Nat /\ Cardinality(present) \in Nat
<1>1. IsFiniteSet(present \ Uncounted) /\ IsFiniteSet(present \ Unsized)
  BY FS_Subset DEF Shapes
<1> QED BY <1>1, FS_CardinalityType, TotalRemove DEF Shapes

\* With no Put under way no total is waiting for one.
LEMMA QuietCounts == Quiet => Uncounted = {} /\ Unsized = {}
  BY DEF Quiet, Uncounted, Unsized

\* A disk backend's totals cover its files: a Put that puts a file in place, or
\* finds another's, has yet to count it, and a file is taken off only once.
LEMMA DiskTotalsStep ==
    Shapes /\ Putting /\ DiskTotals /\ MemoryTotals' /\ Shapes' /\ Putting' /\ [Next]_vars
      => DiskTotals'
<1> SUFFICES ASSUME Shapes, Putting, DiskTotals, MemoryTotals', Shapes', Putting', [Next]_vars
             PROVE  DiskTotals'
  OBVIOUS
<1> DEFINE N == present \ Uncounted
           B == present \ Unsized
<1> USE DEF Goto, Return, totals, files, lifeVars
<1>1. /\ IsFiniteSet(N) /\ IsFiniteSet(B) /\ B \in SUBSET Chunks
      /\ nfile \in Nat /\ nbytes \in Nat
  BY TotalsTyped DEF Shapes
<1>2. open => nfile >= Cardinality(N) /\ nbytes >= TotalSize(B)
  BY DEF DiskTotals
<1>3. ASSUME nfile' = nfile, nbytes' = nbytes, N' = N, B' = B, open' => open
      PROVE  DiskTotals'
  BY <1>2, <1>3 DEF DiskTotals
<1>4. ASSUME NEW c \in Chunks, nfile' = nfile, nbytes' = nbytes, open,
             N' \in {N, N \ {c}}, B' \in {B, B \ {c}}
      PROVE  DiskTotals'
  <2>1. nfile' >= Cardinality(N')
    BY <1>1, <1>2, <1>4, CardinalityBound
  <2>2. nbytes' >= TotalSize(B')
    BY <1>1, <1>2, <1>4, SizeBound
  <2> QED BY <2>1, <2>2 DEF DiskTotals
<1>5. CASE kind' = "memory"
  <2>1. Uncounted' = {} /\ Unsized' = {}
    BY <1>5 DEF Putting, Uncounted, Unsized
  <2>2. N' = present' /\ B' = present'
    BY <2>1
  <2>3. nfile' \in Nat /\ nbytes' \in Nat
    BY DEF Shapes
  <2> QED BY <1>5, <2>2, <2>3 DEF MemoryTotals, DiskTotals
<1>6. ASSUME NEW p \in Clients, Call(p) PROVE DiskTotals'
  <2>1. Uncounted' = Uncounted /\ Unsized' = Unsized
    BY <1>6 DEF Call, Shapes, Uncounted, Unsized
  <2> QED BY <1>3, <1>6, <2>1 DEF Call
<1>7. ASSUME NEW p \in Clients, PutStep(p), kind' # "memory" PROVE DiskTotals'
  <2>1. CASE Look(p) \/ WriteTemp(p) \/ SyncTemp(p)
    <3>1. Uncounted' = Uncounted /\ Unsized' = Unsized
      BY <2>1 DEF Look, WriteTemp, SyncTemp, Shapes, Uncounted, Unsized
    <3> QED BY <1>3, <2>1, <3>1 DEF Look, WriteTemp, SyncTemp
  <2>2. CASE LookAgain(p) \/ RenameFail(p)
    <3>1. chunk[p] \in Chunks /\ open
      BY <2>2 DEF LookAgain, RenameFail, Putting
    <3>2. \/ Uncounted' = Uncounted /\ Unsized' = Unsized
          \/ Uncounted' = Uncounted \cup {chunk[p]} /\ Unsized' = Unsized \cup {chunk[p]}
      <4>1. CASE pc' = [pc EXCEPT ![p] = "count"] /\ chunk' = chunk
        BY <2>2, <4>1 DEF LookAgain, RenameFail, Shapes, Uncounted, Unsized
      <4>2. CASE \/ pc' = [pc EXCEPT ![p] = "write"] /\ chunk' = chunk
                 \/ pc' = [pc EXCEPT ![p] = "idle"] /\ chunk' = [chunk EXCEPT ![p] = NoChunk]
        BY <2>2, <4>2 DEF LookAgain, RenameFail, Shapes, Uncounted, Unsized
      <4> QED BY <2>2, <4>1, <4>2 DEF LookAgain, RenameFail
    <3>3. nfile' = nfile /\ nbytes' = nbytes /\ present' = present
      BY <2>2 DEF LookAgain, RenameFail
    <3>4. N' \in {N, N \ {chunk[p]}} /\ B' \in {B, B \ {chunk[p]}}
      BY <3>2, <3>3
    <3> QED BY <1>4, <3>1, <3>3, <3>4
  <2>3. CASE Rename(p)
    <3>1. chunk[p] \in Chunks /\ open
      BY <2>3 DEF Rename, Putting
    <3>2. Uncounted' = Uncounted \cup {chunk[p]} /\ Unsized' = Unsized \cup {chunk[p]}
      BY <2>3 DEF Rename, Shapes, Uncounted, Unsized
    <3>3. nfile' = nfile /\ nbytes' = nbytes /\ present' = present \cup {chunk[p]}
      BY <2>3 DEF Rename
    <3>4. N' \in {N, N \ {chunk[p]}} /\ B' \in {B, B \ {chunk[p]}}
      BY <3>2, <3>3
    <3> QED BY <1>4, <3>1, <3>3, <3>4
  <2>4. CASE CountFile(p)
    <3>1. open /\ nfile' = nfile + 1 /\ nbytes' = nbytes /\ present' = present
      BY <2>4 DEF CountFile, Putting
    <3>2. Unsized' = Unsized /\ Uncounted \subseteq Uncounted' \cup {chunk[p]} /\ Uncounted' \subseteq Uncounted
      BY <2>4 DEF CountFile, Shapes, Uncounted, Unsized
    <3>3. N' \in {N, N \cup {chunk[p]}} /\ B' = B
      BY <3>1, <3>2
    <3>4. nfile' >= Cardinality(N')
      BY <1>1, <1>2, <3>1, <3>3, CardinalityBound
    <3> QED BY <1>2, <3>1, <3>3, <3>4 DEF DiskTotals
  <2>5. CASE CountBytes(p)
    <3>1. /\ open /\ nfile' = nfile /\ nbytes' = nbytes + SizeOf[chunk[p]]
          /\ present' = present /\ chunk[p] \in Chunks
      BY <2>5 DEF CountBytes, Putting
    <3>2. Uncounted' = Uncounted /\ Unsized \subseteq Unsized' \cup {chunk[p]} /\ Unsized' \subseteq Unsized
      BY <2>5 DEF CountBytes, Shapes, Uncounted, Unsized
    <3>3. B' \in {B, B \cup {chunk[p]}} /\ N' = N
      BY <3>1, <3>2
    <3>4. nbytes' >= TotalSize(B')
      BY <1>1, <1>2, <3>1, <3>3, SizeBound
    <3> QED BY <1>2, <3>1, <3>3, <3>4 DEF DiskTotals
  <2>6. ~MemoryPut(p)
    BY <1>7 DEF MemoryPut, Putting
  <2> QED BY <1>7, <2>1, <2>2, <2>3, <2>4, <2>5, <2>6 DEF PutStep
<1>8. ASSUME NEW c \in Chunks, DeleteFile(c) PROVE DiskTotals'
  <2>1. N = present /\ B = present /\ c \in present /\ open
    BY <1>8, QuietCounts DEF DeleteFile
  <2>2. Quiet'
    BY <1>8 DEF DeleteFile, Quiet
  <2>3. Uncounted' = {} /\ Unsized' = {}
    BY <2>2 DEF Quiet, Uncounted, Unsized
  <2>4. N' = present \ {c} /\ B' = present \ {c} /\ nfile' = nfile - 1 /\ nbytes' = nbytes - SizeOf[c]
    BY <1>8, <2>3 DEF DeleteFile
  <2>5. Cardinality(present \ {c}) = Cardinality(present) - 1 /\ Cardinality(present) \in Nat
    BY <2>1, FS_RemoveElement, FS_CardinalityType DEF Shapes
  <2>6. TotalSize(present) = SizeOf[c] + TotalSize(present \ {c})
    BY <2>1, TotalRemove DEF Shapes
  <2>7. SizeOf[c] \in Nat /\ TotalSize(present \ {c}) \in Nat
    <3>1. IsFiniteSet(present \ {c})
      BY <1>1, <2>1, FS_RemoveElement
    <3> QED BY <1>1, <2>1, <3>1, TotalRemove, SizeAssumption
  <2>8. nfile' >= Cardinality(present \ {c}) /\ nbytes' >= TotalSize(present \ {c})
    <3>1. nfile >= Cardinality(present) /\ nbytes >= TotalSize(present)
      BY <1>2, <2>1
    <3> QED BY <1>1, <2>4, <2>5, <2>6, <2>7, <3>1
  <2> QED BY <2>4, <2>8 DEF DiskTotals
<1>9. ASSUME NEW c \in Chunks, MemoryDelete(c) PROVE kind' = "memory"
  BY <1>9 DEF MemoryDelete
<1>10. CASE Close \/ Crash
  BY <1>10 DEF Close, Crash, DiskTotals
<1>11. CASE OpenDisk
  <2>1. Uncounted' = {} /\ Unsized' = {}
    BY <1>11 DEF OpenDisk, Putting, Uncounted, Unsized
  <2>2. N' = present /\ B' = present /\ nfile' = Cardinality(present) /\ nbytes' = TotalSize(present)
    BY <1>11, <2>1 DEF OpenDisk
  <2>3. nfile' \in Nat /\ nbytes' \in Nat
    BY DEF Shapes
  <2> QED BY <2>2, <2>3 DEF DiskTotals
<1>12. CASE UNCHANGED vars
  BY <1>3, <1>12 DEF vars, Uncounted, Unsized
<1> QED BY <1>5, <1>6, <1>7, <1>8, <1>9, <1>10, <1>11, <1>12 DEF Next

\* A memory backend's totals are exact.
LEMMA MemoryTotalsStep == Shapes /\ Putting /\ MemoryTotals /\ [Next]_vars => MemoryTotals'
<1> SUFFICES ASSUME Shapes, Putting, MemoryTotals, [Next]_vars, kind' = "memory"
             PROVE  nfile' = Cardinality(present') /\ nbytes' = TotalSize(present')
  BY DEF MemoryTotals
<1> USE DEF Goto, Return, totals, files, lifeVars
<1>1. kind = "memory" /\ nfile = Cardinality(present) /\ nbytes = TotalSize(present)
  <2>1. kind = "memory"
    BY DEF Next, Call, PutStep, MemoryPut, Look, LookAgain, WriteTemp, SyncTemp, Rename,
       RenameFail,
       CountFile, CountBytes, DeleteFile, MemoryDelete, Close, Crash, OpenDisk, vars
  <2> QED BY <2>1 DEF MemoryTotals
<1>2. ASSUME NEW p \in Clients, Call(p)
      PROVE  nfile' = Cardinality(present') /\ nbytes' = TotalSize(present')
  BY <1>1, <1>2 DEF Call
<1>3. ASSUME NEW p \in Clients, PutStep(p)
      PROVE  nfile' = Cardinality(present') /\ nbytes' = TotalSize(present')
  <2>1. MemoryPut(p)
    BY <1>1, <1>3 DEF PutStep, Putting, Look, LookAgain, WriteTemp, SyncTemp, Rename,
       RenameFail,
       CountFile, CountBytes
  <2>2. chunk[p] \in Chunks
    BY <2>1 DEF MemoryPut, Putting
  <2>3. CASE chunk[p] \in present
    <3>1. present' = present
      BY <2>1, <2>3 DEF MemoryPut
    <3> QED BY <1>1, <2>1, <2>3, <3>1 DEF MemoryPut
  <2>4. CASE chunk[p] \notin present
    <3> DEFINE S == present \cup {chunk[p]}
    <3>1. IsFiniteSet(S) /\ S \in SUBSET Chunks /\ S \ {chunk[p]} = present
      BY <2>2, <2>4, FS_AddElement DEF Shapes
    <3>2. TotalSize(S) = SizeOf[chunk[p]] + TotalSize(S \ {chunk[p]})
      BY <3>1, TotalRemove
    <3>3. TotalSize(S) = SizeOf[chunk[p]] + TotalSize(present)
      BY <3>1, <3>2
    <3>4. SizeOf[chunk[p]] \in Nat /\ TotalSize(present) \in Nat
      BY <2>2, SizeAssumption, TotalsTyped
    <3>5. nbytes' = nbytes + SizeOf[chunk[p]] /\ present' = S /\ nfile' = Cardinality(present')
      BY <2>1, <2>4 DEF MemoryPut
    <3> QED BY <1>1, <3>3, <3>4, <3>5
  <2> QED BY <2>3, <2>4
<1>4. ASSUME NEW c \in Chunks, DeleteFile(c) \/ MemoryDelete(c)
      PROVE  nfile' = Cardinality(present') /\ nbytes' = TotalSize(present')
  <2>1. /\ c \in present /\ present' = present \ {c}
        /\ nfile' = Cardinality(present') /\ nbytes' = nbytes - SizeOf[c]
    BY <1>1, <1>4 DEF DeleteFile, MemoryDelete
  <2>2. TotalSize(present) = SizeOf[c] + TotalSize(present \ {c})
    BY <2>1, TotalRemove DEF Shapes
  <2>3. SizeOf[c] \in Nat /\ TotalSize(present \ {c}) \in Nat
    <3>1. IsFiniteSet(present \ {c}) /\ present \ {c} \in SUBSET Chunks
      BY <2>1, FS_RemoveElement DEF Shapes
    <3> QED BY <3>1, TotalRemove, SizeAssumption
  <2>4. nbytes' = TotalSize(present \ {c})
    BY <1>1, <2>1, <2>2, <2>3
  <2> QED BY <2>1, <2>4
<1>5. CASE Close \/ Crash \/ OpenDisk
  BY <1>1, <1>5 DEF Close, Crash, OpenDisk
<1>6. CASE UNCHANGED vars
  BY <1>1, <1>6 DEF vars
<1> QED BY <1>2, <1>3, <1>4, <1>5, <1>6 DEF Next

\* Every variable keeps to its domain; a total is not taken below zero, for it
\* covers the file that is deleted.
LEMMA ShapesStep ==
    Shapes /\ Putting /\ FilesSynced /\ TempsCounted /\ DiskTotals /\ MemoryTotals /\ [Next]_vars
      => Shapes'
<1> SUFFICES ASSUME Shapes, Putting, FilesSynced, TempsCounted, DiskTotals, MemoryTotals, [Next]_vars
             PROVE  Shapes'
  OBVIOUS
<1> USE DEF Shapes, Goto, Return, totals, files, lifeVars
<1>1. ASSUME NEW p \in Clients, Call(p) PROVE Shapes'
  BY <1>1 DEF Call
<1>2. ASSUME NEW p \in Clients, PutStep(p) PROVE Shapes'
  <2>1. CASE Look(p) \/ LookAgain(p) \/ WriteTemp(p) \/ SyncTemp(p) \/ RenameFail(p) \/ CountFile(p)
    BY <2>1 DEF Look, LookAgain, WriteTemp, SyncTemp, RenameFail, CountFile
  <2>2. CASE MemoryPut(p) \/ Rename(p)
    <3>1. chunk[p] \in Chunks
      BY <2>2 DEF MemoryPut, Rename, Putting
    <3>2. present' = present \cup {chunk[p]} /\ IsFiniteSet(present \cup {chunk[p]})
      BY <2>2, FS_AddElement DEF MemoryPut, Rename
    <3>3. IsFiniteSet(present') /\ present' \subseteq Chunks
      BY <3>1, <3>2
    <3>4. Cardinality(present') \in Nat /\ SizeOf[chunk[p]] \in Nat
      BY <3>1, <3>3, FS_CardinalityType, SizeAssumption
    <3> QED BY <2>2, <3>3, <3>4 DEF MemoryPut, Rename
  <2>3. CASE CountBytes(p)
    <3>1. SizeOf[chunk[p]] \in Nat
      BY <2>3, SizeAssumption DEF CountBytes, Putting
    <3> QED BY <2>3, <3>1 DEF CountBytes
  <2> QED BY <1>2, <2>1, <2>2, <2>3 DEF PutStep
<1>3. ASSUME NEW c \in Chunks, DeleteFile(c) \/ MemoryDelete(c) PROVE Shapes'
  <2>1. c \in present /\ present' = present \ {c} /\ IsFiniteSet(present \ {c})
    BY <1>3, FS_RemoveElement DEF DeleteFile, MemoryDelete
  <2>2. /\ Cardinality(present \ {c}) = Cardinality(present) - 1
        /\ Cardinality(present) \in Nat /\ Cardinality(present \ {c}) \in Nat
    BY <2>1, FS_RemoveElement, FS_CardinalityType
  <2>3. TotalSize(present) = SizeOf[c] + TotalSize(present \ {c})
    BY <2>1, TotalRemove
  <2>4. SizeOf[c] \in Nat /\ TotalSize(present \ {c}) \in Nat
    BY <2>1, TotalRemove, SizeAssumption
  <2>5. nfile >= Cardinality(present) /\ nbytes >= TotalSize(present)
    <3>1. CASE DeleteFile(c)
      <4>1. present \ Uncounted = present /\ present \ Unsized = present /\ open
        BY <3>1, QuietCounts DEF DeleteFile
      <4> QED BY <4>1 DEF DiskTotals
    <3>2. CASE MemoryDelete(c)
      <4>1. nfile = Cardinality(present) /\ nbytes = TotalSize(present)
        BY <3>2 DEF MemoryDelete, MemoryTotals
      <4> QED BY <2>2, <2>3, <2>4, <4>1
    <3> QED BY <1>3, <3>1, <3>2
  <2>6. nfile - 1 \in Nat /\ nbytes - SizeOf[c] \in Nat
    BY <2>2, <2>3, <2>4, <2>5
  <2>7. IsFiniteSet(present') /\ Cardinality(present') \in Nat
    BY <2>1, <2>2
  <2>8. present' \subseteq Chunks /\ synced' \subseteq present'
    BY <1>3, <2>1 DEF DeleteFile, MemoryDelete, FilesSynced
  <2> QED BY <1>3, <2>6, <2>7, <2>8 DEF DeleteFile, MemoryDelete
<1>4. CASE Close
  BY <1>4 DEF Close
<1>5. CASE Crash
  <2>1. ntemp \in Nat
    BY FS_CardinalityType DEF TempsCounted
  <2>2. crashes' \in 0..MaxCrashes
    BY <1>5, BoundsAssumption DEF Crash
  <2> QED BY <1>5, <2>1, <2>2 DEF Crash
<1>6. CASE OpenDisk
  BY <1>6, TotalsTyped DEF OpenDisk
<1>7. CASE UNCHANGED vars
  BY <1>7 DEF vars
<1> QED BY <1>1, <1>2, <1>3, <1>4, <1>5, <1>6, <1>7 DEF Next

-----------------------------------------------------------------------------
(* Theorems *)

\* A new backend is empty.
LEMMA BackendInvInit == Init => BackendInv
<1> SUFFICES ASSUME Init PROVE BackendInv
  OBVIOUS
<1>1. TempHolders = {} /\ Uncounted = {} /\ Unsized = {}
  BY DEF Init, TempHolders, Uncounted, Unsized
<1>2. IsFiniteSet({}) /\ Cardinality({}) = 0 /\ TotalSize({}) = 0
  BY FS_EmptySet, TotalUnfold
<1>3. Shapes /\ Putting /\ FilesSynced
  BY <1>2, BoundsAssumption DEF Init, Shapes, Putting, FilesSynced
<1>4. TempsCounted
  BY <1>1, <1>2 DEF Init, TempsCounted
<1>5. present \ Uncounted = {} /\ present \ Unsized = {} /\ present = {}
  BY DEF Init
<1>6. DiskTotals /\ MemoryTotals
  BY <1>2, <1>5 DEF Init, DiskTotals, MemoryTotals
<1> QED BY <1>3, <1>4, <1>6 DEF BackendInv

\* Every step of a backend keeps it.
LEMMA BackendInvStep == BackendInv /\ [Next]_vars => BackendInv'
  BY ShapesStep, PuttingStep, FilesStep, TempsStep, DiskTotalsStep, MemoryTotalsStep
     DEF BackendInv

\* The backend keeps to it.
LEMMA BackendInvariant == Spec => []BackendInv
  BY BackendInvInit, BackendInvStep, PTL DEF Spec

\* Every variable keeps to its domain, and no total goes below zero (Disk.nfile,
\* Disk.nbytes, and those of Memory).
THEOREM TotalsInRange == Spec => []TypeOK
<1>1. BackendInv => TypeOK
  <2> SUFFICES ASSUME BackendInv PROVE TypeOK
    OBVIOUS
  <2>1. ntemp \in Nat
    BY FS_CardinalityType DEF BackendInv, TempsCounted, Shapes
  <2> QED BY <2>1 DEF BackendInv, Shapes, FilesSynced, TypeOK
<1> QED BY <1>1, BackendInvariant, PTL

\* The totals of a disk backend (Disk.Put, Disk.Delete, OpenDisk) only ever drift
\* upwards, and a memory backend's do not.
THEOREM DriftsUp == Spec => []TotalsDriftUp
<1>1. BackendInv => TotalsDriftUp
  <2> SUFFICES ASSUME BackendInv, open, Quiet
               PROVE  /\ nfile >= Cardinality(present) /\ nbytes >= TotalSize(present)
                      /\ kind = "memory" => nfile = Cardinality(present) /\ nbytes = TotalSize(present)
    BY DEF TotalsDriftUp
  <2>1. present \ Uncounted = present /\ present \ Unsized = present
    BY QuietCounts
  <2> QED BY <2>1 DEF BackendInv, DiskTotals, MemoryTotals
<1> QED BY <1>1, BackendInvariant, PTL

\* A file under a chunk's name is whole, whenever the process stops
\* (layout.WriteAtomic syncs before it renames).
THEOREM NoTornFiles == Spec => []FilesWhole
<1>1. BackendInv => FilesWhole
  BY DEF BackendInv, FilesSynced, FilesWhole
<1> QED BY <1>1, BackendInvariant, PTL

\* No Put leaves its temporary file behind unless the process stops.
THEOREM TempsCleaned == Spec => []TempsAccounted
<1>1. BackendInv => TempsAccounted
  BY DEF BackendInv, TempsCounted, TempHolders, TempsAccounted
<1> QED BY <1>1, BackendInvariant, PTL
=============================================================================
