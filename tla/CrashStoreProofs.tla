-------------------------- MODULE CrashStoreProofs --------------------------
(***************************************************************************)
(* What a disk store keeps through crashes, Close and Open: well-typed     *)
(* counts whatever the journal holds, what its callers were told, and the  *)
(* manifest of every object; and in a store that only adds, the references *)
(* and the chunks of every object.                                         *)
(***************************************************************************)
EXTENDS CrashStore, ShardStoreGCProofs

-----------------------------------------------------------------------------
(* The replay gives counts, however torn records shift its reads: a block   *)
(* that decodes is one whole record.                                        *)

\* A nonempty set of numbers has a least one.
LEMMA LeastOf ==
    ASSUME NEW T \in SUBSET Nat, T # {}
    PROVE  \E m \in T : \A u \in T : m <= u
<1>1. PICK n \in T : TRUE
  OBVIOUS
<1> DEFINE S == 1..n
           Q == {1..u : u \in {v \in T : v <= n}}
<1>2. IsFiniteSet(S)
  BY FS_Interval
<1>3. IsWellFoundedOn(StrictSubsetOrdering(S), FiniteSubsetsOf(S))
  BY <1>2, FS_StrictSubsetOrderingWellFounded
<1>4. FiniteSubsetsOf(S) = SUBSET S
  BY <1>2, FS_FiniteSubsetsOfFinite
<1>5. Q \subseteq FiniteSubsetsOf(S) /\ Q # {}
  <2>1. \A u \in T : u <= n => 1..u \subseteq S
    OBVIOUS
  <2> QED BY <1>1, <1>4, <2>1
<1> HIDE DEF Q, S
<1>6. PICK w \in Q : \A y \in Q : <<y, w>> \notin StrictSubsetOrdering(S)
  BY <1>3, <1>5, WFMin
<1> USE DEF Q, S
<1>7. PICK m \in T : m <= n /\ w = 1..m
  OBVIOUS
<1>8. ASSUME NEW u \in T, u < m
      PROVE  FALSE
  <2>1. 1..u \in Q /\ 1..u \in SUBSET S /\ w \in SUBSET S
    BY <1>7, <1>8
  <2>2. 1..u \subseteq 1..m /\ m \in 1..m /\ m \notin 1..u
    BY <1>8
  <2>3. <<1..u, w>> \in StrictSubsetOrdering(S)
    BY <1>7, <2>1, <2>2 DEF StrictSubsetOrdering
  <2> QED BY <1>6, <2>1, <2>3
<1> QED BY <1>7, <1>8

\* g folds the steps over the subsets of 1..n, the greatest index last.
Folding(g, b, n, step) ==
    /\ g[{}] = b
    /\ \A t \in SUBSET (1..n) : t # {} => g[t] = step[Max(t)][g[t \ {Max(t)}]]

\* There is such a function.
LEMMA FoldExists ==
    ASSUME NEW X, NEW b \in X, NEW n \in Nat, NEW step \in [1..n -> [X -> X]]
    PROVE  \E g \in [SUBSET (1..n) -> X] : Folding(g, b, n, step)
<1> USE DEF Folding
<1> DEFINE Folds(g, k) == Folding(g, b, k, step)
           Folded(k) == \E g \in [SUBSET (1..k) -> X] : Folds(g, k)
           T == {k \in 0..n : ~Folded(k)}
<1> SUFFICES ASSUME T # {} PROVE FALSE
  <2>1. n \in 0..n
    OBVIOUS
  <2>2. T = {} => Folded(n)
    <3> HIDE DEF Folded
    <3> QED BY <2>1
  <2> QED BY <2>2
<1>1. PICK m \in T : \A u \in T : m <= u
  <2>1. T \in SUBSET Nat
    OBVIOUS
  <2> HIDE DEF T
  <2> QED BY <2>1, LeastOf
<1>2. CASE m = 0
  <2>1. SUBSET (1..m) = {{}}
    BY <1>2
  <2> DEFINE h == [t \in SUBSET (1..m) |-> b]
  <2>2. h \in [SUBSET (1..m) -> X] /\ Folds(h, m)
    BY <2>1
  <2> QED BY <2>2
<1>3. CASE m # 0
  <2>1. m \in 1..n /\ m - 1 \in 0..n /\ m - 1 \notin T
    <3>1. m \in 0..n
      OBVIOUS
    <3> HIDE DEF T
    <3> QED BY <1>1, <1>3, <3>1
  <2>2. PICK g \in [SUBSET (1..(m - 1)) -> X] : Folds(g, m - 1)
    BY <2>1
  <2> DEFINE h == [t \in SUBSET (1..m) |-> IF m \in t THEN step[m][g[t \ {m}]] ELSE g[t]]
  <2>3. \A t \in SUBSET (1..m) : /\ m \in t => t \ {m} \in SUBSET (1..(m - 1))
                                 /\ m \notin t => t \in SUBSET (1..(m - 1))
    BY <2>1
  <2>4. h \in [SUBSET (1..m) -> X]
    BY <2>1, <2>3
  <2>5. h[{}] = b
    BY <2>2
  <2>6. ASSUME NEW t \in SUBSET (1..m), t # {}
        PROVE  h[t] = step[Max(t)][h[t \ {Max(t)}]]
    <3>1. CASE m \in t
      <4>1. Max(t) = m
        <5>1. \A y \in t : m >= y
          BY <2>1
        <5>2. \A x \in t : (\A y \in t : x >= y) => x = m
          BY <2>1, <3>1
        <5> QED BY <3>1, <5>1, <5>2 DEF Max
      <4>2. t \ {m} \in SUBSET (1..m) /\ m \notin t \ {m}
        OBVIOUS
      <4>3. h[t \ {m}] = g[t \ {m}]
        BY <4>2
      <4> QED BY <3>1, <4>1, <4>3
    <3>2. CASE m \notin t
      <4>1. /\ t \in SUBSET (1..(m - 1))
            /\ t \ {Max(t)} \in SUBSET (1..m) /\ m \notin t \ {Max(t)}
        BY <2>3, <3>2
      <4>2. h[t] = g[t] /\ h[t \ {Max(t)}] = g[t \ {Max(t)}]
        BY <3>2, <4>1
      <4> QED BY <2>2, <2>6, <4>1, <4>2
    <3> QED BY <3>1, <3>2
  <2>7. Folds(h, m)
    BY <2>5, <2>6
  <2> QED BY <2>4, <2>7
<1> QED BY <1>2, <1>3

\* A nonempty set of indices has a greatest one.
LEMMA MaxIn ==
    ASSUME NEW n \in Nat, NEW t \in SUBSET (1..n), t # {}
    PROVE  Max(t) \in t
<1> DEFINE T == {n - u : u \in t}
<1>1. T \in SUBSET Nat /\ T # {}
  <2>1. \A u \in t : n - u \in Nat
    OBVIOUS
  <2> QED BY <2>1
<1> HIDE DEF T
<1>2. PICK m \in T : \A u \in T : m <= u
  BY <1>1, LeastOf
<1> USE DEF T
<1>3. PICK x \in t : m = n - x
  OBVIOUS
<1>4. \A y \in t : x >= y
  <2> TAKE y \in t
  <2>1. n - y \in T
    OBVIOUS
  <2>2. n - x <= n - y
    <3> HIDE DEF T
    <3> QED BY <1>2, <1>3, <2>1
  <2>3. x \in 1..n /\ y \in 1..n
    OBVIOUS
  <2> QED BY <2>2, <2>3
<1> QED BY <1>4 DEF Max

\* The greatest index of a prefix is its last one.
LEMMA MaxOfPrefix ==
    ASSUME NEW k \in Nat \ {0}
    PROVE  1..k # {} /\ Max(1..k) = k /\ (1..k) \ {k} = 1..(k - 1)
<1>1. k \in 1..k /\ \A y \in 1..k : k >= y
  OBVIOUS
<1>2. \A x \in 1..k : (\A y \in 1..k : x >= y) => x = k
  BY <1>1
<1>3. Max(1..k) = k
  BY <1>1, <1>2 DEF Max
<1>4. (1..k) \ {k} = 1..(k - 1)
  OBVIOUS
<1> QED BY <1>1, <1>3, <1>4

\* The records that are whole, and the fields the journal's file is made of.
Whole == {"inc", "dec"} \X Chunks
CutShort == Rec("inc", CHOOSE c \in Chunks : TRUE)
FileCells == {Fields(r)[i] : r \in Whole \cup {CutShort}, i \in 1..RecSize}

\* A checksum in s ends one whole record.
Sound(s) ==
    \A j \in 1..Len(s) : s[j].field = "sum" =>
        /\ j >= RecSize
        /\ \E r \in Whole : \A m \in 1..RecSize : s[j - RecSize + m] = Fields(r)[m]

\* A record has five fields, the checksum last.
LEMMA FieldsAre ==
    ASSUME NEW r \in Whole \cup {CutShort}
    PROVE  /\ Fields(r) \in Seq(FileCells) /\ Len(Fields(r)) = RecSize
           /\ \A m \in 1..RecSize : Fields(r)[m].field = "sum" => m = RecSize
<1>1. Len(Fields(r)) = 5 /\ DOMAIN Fields(r) = 1..5
  BY DEF Fields
<1>2. \A m \in 1..5 : Fields(r)[m] \in FileCells
  BY DEF FileCells, RecSize
<1>3. Fields(r) \in Seq(FileCells)
  <2>1. Fields(r) = [m \in 1..5 |-> Fields(r)[m]]
    BY DEF Fields
  <2> QED BY <1>2, <2>1, IsASeq
<1>4. \A m \in 1..5 : Fields(r)[m].field = "sum" => m = 5
  <2> SUFFICES ASSUME NEW m \in 1..5, m # 5 PROVE Fields(r)[m].field # "sum"
    OBVIOUS
  <2>1. m = 1 \/ m = 2 \/ m = 3 \/ m = 4
    OBVIOUS
  <2> QED BY <2>1 DEF Fields
<1> QED BY <1>1, <1>3, <1>4 DEF RecSize

\* What is put together from such pieces is such a piece.
LEMMA SoundConcat ==
    ASSUME NEW s \in Seq(FileCells), NEW t \in Seq(FileCells), Sound(s), Sound(t)
    PROVE  s \o t \in Seq(FileCells) /\ Sound(s \o t)
<1>1. /\ s \o t \in Seq(FileCells) /\ Len(s \o t) = Len(s) + Len(t)
      /\ Len(s) \in Nat /\ Len(t) \in Nat
      /\ \A i \in 1..Len(s) + Len(t) :
            (s \o t)[i] = IF i <= Len(s) THEN s[i] ELSE t[i - Len(s)]
  BY ConcatProperties, LenProperties
<1>2. ASSUME NEW j \in 1..Len(s \o t), (s \o t)[j].field = "sum"
      PROVE  /\ j >= RecSize
             /\ \E r \in Whole : \A m \in 1..RecSize :
                   (s \o t)[j - RecSize + m] = Fields(r)[m]
  <2>1. CASE j <= Len(s)
    <3>1. j \in 1..Len(s) /\ s[j].field = "sum"
      BY <1>1, <1>2, <2>1
    <3>2. PICK r \in Whole : \A m \in 1..RecSize : s[j - RecSize + m] = Fields(r)[m]
      BY <3>1 DEF Sound
    <3>3. j >= RecSize
      BY <3>1 DEF Sound
    <3>4. \A m \in 1..RecSize : j - RecSize + m \in 1..Len(s)
      BY <3>1, <3>3 DEF RecSize
    <3>5. \A m \in 1..RecSize : (s \o t)[j - RecSize + m] = s[j - RecSize + m]
      BY <1>1, <3>4
    <3> QED BY <3>2, <3>3, <3>5
  <2>2. CASE j > Len(s)
    <3> DEFINE k == j - Len(s)
    <3>1. k \in 1..Len(t) /\ t[k].field = "sum"
      BY <1>1, <1>2, <2>2
    <3>2. PICK r \in Whole : \A m \in 1..RecSize : t[k - RecSize + m] = Fields(r)[m]
      BY <3>1 DEF Sound
    <3>3. k >= RecSize
      BY <3>1 DEF Sound
    <3>4. \A m \in 1..RecSize : /\ j - RecSize + m \in 1..(Len(s) + Len(t))
                                /\ j - RecSize + m > Len(s)
                                /\ j - RecSize + m - Len(s) = k - RecSize + m
      BY <1>1, <3>1, <3>3 DEF RecSize
    <3>5. \A m \in 1..RecSize : (s \o t)[j - RecSize + m] = t[k - RecSize + m]
      <4> TAKE m \in 1..RecSize
      <4> DEFINE i == j - RecSize + m
      <4>1. i \in 1..(Len(s) + Len(t)) /\ ~(i <= Len(s)) /\ i - Len(s) = k - RecSize + m
        BY <1>1, <3>1, <3>3 DEF RecSize
      <4> HIDE DEF i, k
      <4>2. (s \o t)[i] = t[i - Len(s)]
        BY <1>1, <4>1
      <4>3. (s \o t)[i] = t[k - RecSize + m]
        BY <4>1, <4>2
      <4> USE DEF i
      <4> QED BY <4>3
    <3>6. j >= RecSize
      BY <1>1, <2>2, <3>3 DEF RecSize
    <3> HIDE DEF k
    <3>7. \A m \in 1..RecSize : (s \o t)[j - RecSize + m] = Fields(r)[m]
      BY <3>2, <3>5
    <3>8. \E q \in Whole : \A m \in 1..RecSize : (s \o t)[j - RecSize + m] = Fields(q)[m]
      BY <3>7
    <3> QED BY <3>6, <3>8
  <2>3. j \in Nat /\ Len(s) \in Nat
    BY <1>1
  <2>4. j <= Len(s) \/ j > Len(s)
    BY <2>3
  <2> QED BY <2>1, <2>2, <2>4
<1> QED BY <1>1, <1>2 DEF Sound

\* The pieces the journal's file is put together from.
Pieces(parts) ==
    [i \in DOMAIN journal |->
        IF i \in TornAt THEN SubSeq(Fields(CutShort), 1, parts[i]) ELSE Fields(journal[i])]

\* Each piece is a record, or less than one.
LEMMA PiecesSound ==
    ASSUME journal \in Seq(Records), NEW parts \in [TornAt -> 1..RecSize - 1]
    PROVE  /\ Pieces(parts) \in Seq(Seq(FileCells)) /\ Len(Pieces(parts)) = Len(journal)
           /\ \A i \in 1..Len(journal) : Sound(Pieces(parts)[i])
<1> DEFINE S == Pieces(parts)
<1>1. /\ DOMAIN journal = 1..Len(journal) /\ Len(journal) \in Nat
      /\ \A i \in 1..Len(journal) : journal[i] \in Records
  BY LenProperties
<1>2. ASSUME NEW i \in 1..Len(journal)
      PROVE  S[i] \in Seq(FileCells) /\ Sound(S[i])
  <2>1. CASE i \in TornAt
    <3>1. /\ Fields(CutShort) \in Seq(FileCells) /\ Len(Fields(CutShort)) = RecSize
          /\ \A m \in 1..RecSize : Fields(CutShort)[m].field = "sum" => m = RecSize
      BY FieldsAre
    <3>2. parts[i] \in 1..4 /\ S[i] = SubSeq(Fields(CutShort), 1, parts[i])
      BY <1>1, <2>1 DEF RecSize, Pieces
    <3>3. \A m \in 1..parts[i] : Fields(CutShort)[m] \in FileCells
      <4>1. \A m \in 1..parts[i] : m \in 1..Len(Fields(CutShort))
        BY <3>1, <3>2 DEF RecSize
      <4> QED BY <3>1, <4>1, ElementOfSeq
    <3>4. /\ S[i] \in Seq(FileCells) /\ Len(S[i]) = parts[i]
          /\ \A m \in 1..parts[i] : S[i][m] = Fields(CutShort)[m]
      <4> DEFINE k == parts[i]
      <4>1. k \in Int /\ 1 \in Int /\ 1 <= k /\ k - 1 + 1 = k
        BY <3>2
      <4> HIDE DEF k
      <4>2. \A m \in 1..k : Fields(CutShort)[m] \in FileCells
        BY <3>3 DEF k
      <4>3. /\ SubSeq(Fields(CutShort), 1, k) \in Seq(FileCells)
            /\ Len(SubSeq(Fields(CutShort), 1, k)) = k
            /\ \A m \in 1..k :
                  SubSeq(Fields(CutShort), 1, k)[m] = Fields(CutShort)[1 + m - 1]
        BY <4>1, <4>2, SubSeqProperties
      <4>4. \A m \in 1..k : 1 + m - 1 = m
        BY <4>1
      <4> QED BY <3>2, <4>3, <4>4 DEF k
    <3>5. \A m \in 1..Len(S[i]) : S[i][m].field # "sum"
      BY <3>1, <3>2, <3>4, SMTT(30) DEF RecSize
    <3> QED BY <3>4, <3>5 DEF Sound
  <2>2. CASE i \notin TornAt
    <3>1. S[i] = Fields(journal[i]) /\ journal[i] \in Whole
      BY <1>1, <2>2 DEF Pieces, TornAt, Records, Whole
    <3> DEFINE r == journal[i]
    <3> HIDE DEF r
    <3>2. r \in Whole /\ S[i] = Fields(r)
      BY <3>1 DEF r
    <3>3. /\ Fields(r) \in Seq(FileCells) /\ Len(Fields(r)) = RecSize
          /\ \A m \in 1..RecSize : Fields(r)[m].field = "sum" => m = RecSize
      BY <3>2, FieldsAre
    <3>4. Sound(Fields(r))
      <4> SUFFICES ASSUME NEW j \in 1..Len(Fields(r)), Fields(r)[j].field = "sum"
                   PROVE  /\ j >= RecSize
                          /\ \E q \in Whole : \A m \in 1..RecSize :
                                Fields(r)[j - RecSize + m] = Fields(q)[m]
        BY DEF Sound
      <4>1. j = RecSize
        BY <3>3
      <4>2. \A m \in 1..RecSize : j - RecSize + m = m
        BY <4>1 DEF RecSize
      <4>3. \A m \in 1..RecSize : Fields(r)[j - RecSize + m] = Fields(r)[m]
        BY <4>2
      <4> QED BY <3>2, <4>1, <4>3 DEF RecSize
    <3> QED BY <3>2, <3>3, <3>4
  <2> QED BY <2>1, <2>2
<1>3. S = [i \in 1..Len(journal) |-> S[i]]
  BY <1>1 DEF Pieces
<1>4. S \in Seq(Seq(FileCells)) /\ Len(S) = Len(journal)
  <2> HIDE DEF S
  <2>1. [i \in 1..Len(journal) |-> S[i]] \in Seq(Seq(FileCells))
    BY <1>1, <1>2, IsASeq
  <2>2. S \in Seq(Seq(FileCells)) /\ DOMAIN S = 1..Len(journal)
    BY <1>3, <2>1
  <2> QED BY <1>1, <2>2, LenProperties
<1> QED BY <1>2, <1>4

\* The first sequences of a sequence put together.
Joins(h, s, X) == /\ h \in [0..Len(s) -> Seq(X)] /\ h[0] = <<>>
                  /\ \A k \in 1..Len(s) : h[k] = h[k - 1] \o s[k]

\* What FlattenSeq goes through.
Flattens(g, s) == g = [i \in 1..Len(s) |-> IF i = 1 THEN s[i] ELSE g[i - 1] \o s[i]]

\* FlattenSeq is the last value of that function.
LEMMA FlattenIs ==
    ASSUME NEW s
    PROVE  FlattenSeq(s) = IF Len(s) = 0 THEN s ELSE (CHOOSE g : Flattens(g, s))[Len(s)]
  BY DEF FlattenSeq, Flattens

\* Sequences can be put together.
LEMMA JoinsExist ==
    ASSUME NEW X, NEW s \in Seq(Seq(X))
    PROVE  \E h : Joins(h, s, X)
<1> DEFINE n == Len(s)
           step == [i \in 1..n |-> [x \in Seq(X) |-> x \o s[i]]]
<1>1. n \in Nat /\ \A i \in 1..n : s[i] \in Seq(X)
  BY LenProperties
<1>2. step \in [1..n -> [Seq(X) -> Seq(X)]] /\ <<>> \in Seq(X)
  BY <1>1
<1> HIDE DEF step, n
<1>3. PICK f \in [SUBSET (1..n) -> Seq(X)] : Folding(f, <<>>, n, step)
  BY <1>1, <1>2, FoldExists
<1> DEFINE h == [k \in 0..n |-> f[1..k]]
<1>4. \A k \in 0..n : 1..k \in SUBSET (1..n)
  BY <1>1
<1>5. h \in [0..n -> Seq(X)]
  BY <1>4
<1>6. h[0] = <<>>
  <2>1. 1..0 = {}
    OBVIOUS
  <2> QED BY <1>1, <1>3, <2>1 DEF Folding
<1>7. ASSUME NEW k \in 1..n PROVE h[k] = h[k - 1] \o s[k]
  <2>1. 1..k \in SUBSET (1..n) /\ 1..k # {} /\ Max(1..k) = k /\ (1..k) \ {k} = 1..(k - 1)
    <3>1. 1..k \in SUBSET (1..n) /\ k \in Nat \ {0}
      BY <1>1
    <3> QED BY <3>1, MaxOfPrefix
  <2>2. k \in 0..n /\ k - 1 \in 0..n
    BY <1>1
  <2>3. f[1..k] = step[k][f[1..(k - 1)]]
    BY <1>3, <2>1 DEF Folding
  <2>4. h[k] = f[1..k] /\ h[k - 1] = f[1..(k - 1)]
    BY <2>2
  <2>5. h[k - 1] \in Seq(X)
    BY <1>5, <2>2
  <2> HIDE DEF h
  <2> QED BY <2>3, <2>4, <2>5 DEF step
<1> HIDE DEF h
<1> QED BY <1>5, <1>6, <1>7 DEF Joins, n

\* FlattenSeq gives the last of these.
LEMMA FlattenJoins ==
    ASSUME NEW X, NEW s \in Seq(Seq(X)), NEW h, Joins(h, s, X)
    PROVE  FlattenSeq(s) = h[Len(s)]
<1> DEFINE n == Len(s)
           G == CHOOSE g : Flattens(g, s)
<1>1. n \in Nat /\ \A i \in 1..n : s[i] \in Seq(X)
  BY LenProperties
<1>2. CASE n = 0
  <2>1. s = <<>>
    BY <1>2, LenProperties, EmptySeq
  <2> QED BY <1>2, <2>1, FlattenIs DEF Joins
<1>3. CASE n # 0
  <2>1. FlattenSeq(s) = G[n]
    BY <1>3, FlattenIs
  <2> HIDE DEF n
  <2>2. /\ h[0] = <<>> /\ h \in [0..n -> Seq(X)]
        /\ \A k \in 1..n : h[k] = h[k - 1] \o s[k]
    BY DEF Joins, n
  <2>3. Flattens(G, s)
    <3> DEFINE g == [i \in 1..n |-> h[i]]
    <3>1. ASSUME NEW i \in 1..n
          PROVE  g[i] = IF i = 1 THEN s[i] ELSE g[i - 1] \o s[i]
      <4>1. CASE i = 1
        <5>1. h[1] = h[0] \o s[1]
          <6>1. 1 \in 1..n /\ 1 - 1 = 0
            BY <1>1, <1>3
          <6> QED BY <2>2, <6>1
        <5>2. <<>> \o s[1] = s[1]
          BY <1>1, <4>1, ConcatEmptySeq
        <5> QED BY <2>2, <4>1, <5>1, <5>2
      <4>2. CASE i # 1
        <5>1. i - 1 \in 1..n
          BY <1>1, <4>2
        <5>2. g[i - 1] = h[i - 1] /\ g[i] = h[i]
          BY <5>1
        <5> HIDE DEF g
        <5> QED BY <2>2, <4>2, <5>2
      <4> QED BY <4>1, <4>2
    <3>2. g = [i \in 1..n |-> g[i]]
      OBVIOUS
    <3> HIDE DEF g
    <3>3. Flattens(g, s)
      BY <3>1, <3>2 DEF Flattens, n
    <3> QED BY <3>3
  <2> HIDE DEF G
  <2>4. \A i \in 1..n : G[i] = IF i = 1 THEN s[i] ELSE G[i - 1] \o s[i]
    <3> DEFINE body(i) == IF i = 1 THEN s[i] ELSE G[i - 1] \o s[i]
    <3>1. G = [i \in 1..n |-> body(i)]
      BY <2>3 DEF Flattens, n
    <3> HIDE DEF body
    <3>2. \A i \in 1..n : G[i] = body(i)
      BY <3>1
    <3> QED BY <3>2 DEF body
  <2>5. \A i \in 1..n : G[i] = h[i]
    <3> DEFINE T == {k \in 1..n : G[k] # h[k]}
    <3> SUFFICES ASSUME T # {} PROVE FALSE
      OBVIOUS
    <3>1. T \in SUBSET Nat
      OBVIOUS
    <3>2. PICK m \in T : \A u \in T : m <= u
      <4> HIDE DEF T
      <4> QED BY <3>1, LeastOf
    <3>3. m \in 1..n /\ G[m] # h[m]
      OBVIOUS
    <3>4. CASE m = 1
      <4>1. h[1] = h[0] \o s[1] /\ G[1] = s[1]
        <5>1. 1 \in 1..n /\ 1 - 1 = 0
          BY <3>3, <3>4
        <5> QED BY <2>2, <2>4, <5>1
      <4>2. <<>> \o s[1] = s[1]
        BY <1>1, <3>3, <3>4, ConcatEmptySeq
      <4> QED BY <2>2, <3>3, <3>4, <4>1, <4>2
    <3>5. CASE m # 1
      <4>1. m - 1 \in 1..n /\ m - 1 \notin T
        <5> HIDE DEF T
        <5> QED BY <1>1, <3>2, <3>3, <3>5
      <4>2. G[m - 1] = h[m - 1]
        BY <4>1
      <4> HIDE DEF T
      <4> QED BY <2>2, <2>4, <3>3, <3>5, <4>2
    <3> QED BY <3>4, <3>5
  <2>6. n \in 1..n
    BY <1>1, <1>3
  <2> QED BY <2>1, <2>5, <2>6 DEF n
<1> QED BY <1>2, <1>3

\* b starts with a.
Starts(a, b) == Len(a) <= Len(b) /\ \A i \in 1..Len(a) : b[i] = a[i]

\* The length of the k-th sequence of s.
Size(s, k) == Len(s[k])

\* More at the end does not change the start.
LEMMA StartsConcat ==
    ASSUME NEW X, NEW a \in Seq(X), NEW b \in Seq(X), NEW c \in Seq(X), Starts(a, b)
    PROVE  Starts(a, b \o c)
<1>1. Len(a) \in Nat /\ Len(b) \in Nat /\ Len(c) \in Nat
  BY LenProperties
<1>2. /\ Len(b \o c) = Len(b) + Len(c)
      /\ \A i \in 1..Len(b) + Len(c) :
            (b \o c)[i] = IF i <= Len(b) THEN b[i] ELSE c[i - Len(b)]
  BY ConcatProperties
<1>3. Len(a) <= Len(b) /\ \A i \in 1..Len(a) : b[i] = a[i]
  BY DEF Starts
<1>4. \A i \in 1..Len(a) : i \in 1..Len(b) + Len(c) /\ i <= Len(b)
  BY <1>1, <1>3
<1>5. Len(a) <= Len(b \o c)
  BY <1>1, <1>2, <1>3
<1>6. \A i \in 1..Len(a) : (b \o c)[i] = a[i]
  BY <1>2, <1>3, <1>4
<1> QED BY <1>5, <1>6 DEF Starts

\* Where b is in what starts with a and b.
LEMMA StartsAt ==
    ASSUME NEW X, NEW a \in Seq(X), NEW b \in Seq(X), NEW d \in Seq(X), Starts(a \o b, d)
    PROVE  /\ Len(a) \in Nat /\ Len(b) \in Nat /\ Len(d) \in Nat
           /\ Len(a \o b) = Len(a) + Len(b) /\ Len(a) + Len(b) <= Len(d)
           /\ \A m \in 1..Len(b) : d[Len(a) + m] = b[m]
<1>1. Len(a) \in Nat /\ Len(b) \in Nat /\ Len(d) \in Nat
  BY LenProperties
<1>2. /\ Len(a \o b) = Len(a) + Len(b)
      /\ \A i \in 1..Len(a) + Len(b) :
            (a \o b)[i] = IF i <= Len(a) THEN a[i] ELSE b[i - Len(a)]
  BY ConcatProperties
<1>3. Len(a) + Len(b) <= Len(d) /\ \A i \in 1..Len(a) + Len(b) : d[i] = (a \o b)[i]
  BY <1>2 DEF Starts
<1>4. ASSUME NEW m \in 1..Len(b)
      PROVE  d[Len(a) + m] = b[m]
  <2> DEFINE i == Len(a) + m
  <2>1. i \in 1..Len(a) + Len(b) /\ ~(i <= Len(a)) /\ i - Len(a) = m
    BY <1>1
  <2> HIDE DEF i
  <2>2. (a \o b)[i] = b[i - Len(a)]
    BY <1>2, <2>1
  <2>3. d[i] = b[m]
    BY <1>3, <2>1, <2>2
  <2> QED BY <2>3 DEF i
<1> QED BY <1>1, <1>2, <1>3, <1>4

\* What more sequences make starts with what fewer make.
LEMMA JoinsGrow ==
    ASSUME NEW X, NEW s \in Seq(Seq(X)), NEW h, Joins(h, s, X), NEW k \in 0..Len(s)
    PROVE  \A m \in k..Len(s) : Starts(h[k], h[m])
<1> DEFINE n == Len(s)
           T == {m \in k..n : ~Starts(h[k], h[m])}
<1>1. n \in Nat /\ \A i \in 1..n : s[i] \in Seq(X)
  BY LenProperties
<1>2. /\ \A i \in 0..n : h[i] \in Seq(X)
      /\ \A i \in 1..n : h[i] = h[i - 1] \o s[i]
  BY DEF Joins
<1> HIDE DEF n
<1>3. T = {}
  <2> SUFFICES ASSUME T # {} PROVE FALSE
    OBVIOUS
  <2>1. PICK m \in T : \A u \in T : m <= u
    <3>1. T \in SUBSET Nat
      BY <1>1 DEF n
    <3> HIDE DEF T
    <3> QED BY <3>1, LeastOf
  <2>2. m \in k..n /\ ~Starts(h[k], h[m])
    OBVIOUS
  <2>3. CASE m = k
    <3>1. Starts(h[k], h[k])
      <4>1. h[k] \in Seq(X)
        BY <1>2 DEF n
      <4>2. Len(h[k]) \in Nat
        BY <4>1, LenProperties
      <4> QED BY <4>2 DEF Starts
    <3> QED BY <2>2, <2>3, <3>1
  <2>4. CASE m # k
    <3>1. /\ m \in 1..n /\ m - 1 \in k..n /\ m - 1 \in 0..n /\ ~(m <= m - 1)
          /\ k \in 0..n
      BY <1>1, <2>2, <2>4 DEF n
    <3>2. m - 1 \notin T
      <4> HIDE DEF T
      <4> QED BY <2>1, <3>1
    <3>3. Starts(h[k], h[m - 1])
      BY <3>1, <3>2
    <3>4. h[k] \in Seq(X) /\ h[m - 1] \in Seq(X) /\ s[m] \in Seq(X)
      BY <1>1, <1>2, <3>1
    <3>5. Starts(h[k], h[m - 1] \o s[m])
      BY <3>3, <3>4, StartsConcat
    <3> QED BY <1>2, <2>2, <3>1, <3>5
  <2> QED BY <2>3, <2>4
<1> QED BY <1>3 DEF n

\* The file is made of the pieces.
LEMMA CellsJoined ==
    ASSUME journal \in Seq(Records), NEW parts \in [TornAt -> 1..RecSize - 1]
    PROVE  \E h : Joins(h, Pieces(parts), FileCells) /\ Cells(parts) = h[Len(journal)]
<1>1. Pieces(parts) \in Seq(Seq(FileCells)) /\ Len(Pieces(parts)) = Len(journal)
  BY PiecesSound
<1>2. Cells(parts) = FlattenSeq(Pieces(parts))
  BY DEF Cells, Pieces, CutShort
<1>3. PICK h : Joins(h, Pieces(parts), FileCells)
  BY <1>1, JoinsExist
<1>4. FlattenSeq(Pieces(parts)) = h[Len(Pieces(parts))]
  BY <1>1, <1>3, FlattenJoins
<1> QED BY <1>1, <1>2, <1>3, <1>4

\* Where the k-th piece is in the file.
LEMMA PieceAt ==
    ASSUME journal \in Seq(Records), NEW parts \in [TornAt -> 1..RecSize - 1],
           NEW h, Joins(h, Pieces(parts), FileCells), Cells(parts) = h[Len(journal)],
           NEW k \in 1..Len(journal)
    PROVE  /\ Size(h, k - 1) \in Nat /\ Size(Pieces(parts), k) \in Nat
           /\ Size(h, k) = Size(h, k - 1) + Size(Pieces(parts), k)
           /\ Size(h, k) <= Len(Cells(parts))
           /\ \A m \in 1..Size(Pieces(parts), k) :
                 Cells(parts)[Size(h, k - 1) + m] = Pieces(parts)[k][m]
<1> DEFINE n == Len(journal)
           s == Pieces(parts)
           f == Cells(parts)
<1>1. n \in Nat /\ s \in Seq(Seq(FileCells)) /\ Len(s) = n
  BY LenProperties, PiecesSound
<1> HIDE DEF n, s, f
<1>2. k \in 1..n /\ k \in 0..n /\ k - 1 \in 0..n /\ n \in 0..n /\ n \in k..n
  BY <1>1 DEF n
<1>3. Joins(h, s, FileCells) /\ f = h[n]
  BY DEF n, s, f
<1>4. /\ h[k - 1] \in Seq(FileCells) /\ s[k] \in Seq(FileCells) /\ f \in Seq(FileCells)
      /\ h[k] = h[k - 1] \o s[k]
  <2>1. s[k] \in Seq(FileCells)
    BY <1>1, <1>2, ElementOfSeq
  <2> QED BY <1>1, <1>2, <1>3, <2>1 DEF Joins
<1>5. Starts(h[k - 1] \o s[k], f)
  <2>1. \A m \in k..Len(s) : Starts(h[k], h[m])
    BY <1>1, <1>2, <1>3, JoinsGrow
  <2> QED BY <1>1, <1>2, <1>3, <1>4, <2>1
<1> DEFINE a == h[k - 1]
           b == s[k]
<1>6. /\ Len(a) \in Nat /\ Len(b) \in Nat /\ Len(f) \in Nat
      /\ Len(a \o b) = Len(a) + Len(b) /\ Len(a) + Len(b) <= Len(f)
      /\ \A m \in 1..Len(b) : f[Len(a) + m] = b[m]
  <2>1. a \in Seq(FileCells) /\ b \in Seq(FileCells) /\ Starts(a \o b, f)
    BY <1>4, <1>5
  <2> HIDE DEF a, b
  <2> QED BY <1>4, <2>1, StartsAt
<1>7. Size(h, k - 1) = Len(a) /\ Size(s, k) = Len(b) /\ Size(h, k) = Len(a \o b)
  BY <1>4 DEF Size
<1> HIDE DEF a
<1> QED BY <1>6, <1>7 DEF s, f

\* A checksum in the file ends one whole record, wherever the file was cut.
LEMMA CellsSound ==
    ASSUME journal \in Seq(Records), NEW parts \in [TornAt -> 1..RecSize - 1]
    PROVE  Cells(parts) \in Seq(FileCells) /\ Sound(Cells(parts))
<1> DEFINE S == Pieces(parts)
           n == Len(journal)
<1>1. /\ S \in Seq(Seq(FileCells)) /\ Len(S) = n /\ n \in Nat
      /\ \A i \in 1..n : S[i] \in Seq(FileCells) /\ Sound(S[i])
  <2>1. S \in Seq(Seq(FileCells)) /\ Len(S) = n /\ \A i \in 1..n : Sound(S[i])
    BY PiecesSound
  <2>2. n \in Nat
    BY LenProperties
  <2> HIDE DEF S, n
  <2> QED BY <2>1, <2>2, ElementOfSeq
<1>2. PICK h : Joins(h, S, FileCells) /\ Cells(parts) = h[n]
  BY CellsJoined
<1> HIDE DEF S, n
<1> DEFINE T == {k \in 0..n : ~(h[k] \in Seq(FileCells) /\ Sound(h[k]))}
<1>3. T = {}
  <2> SUFFICES ASSUME T # {} PROVE FALSE
    OBVIOUS
  <2>1. PICK m \in T : \A u \in T : m <= u
    <3>1. T \in SUBSET Nat
      OBVIOUS
    <3> HIDE DEF T
    <3> QED BY <3>1, LeastOf
  <2>2. m \in 0..n /\ ~(h[m] \in Seq(FileCells) /\ Sound(h[m]))
    OBVIOUS
  <2>3. CASE m = 0
    <3>1. h[m] = <<>>
      BY <1>2, <2>3 DEF Joins
    <3>2. <<>> \in Seq(FileCells) /\ Len(<<>>) = 0
      BY EmptySeq
    <3>3. Sound(<<>>)
      BY <3>2 DEF Sound
    <3> QED BY <2>2, <3>1, <3>2, <3>3
  <2>4. CASE m # 0
    <3>1. m \in 1..n /\ m - 1 \in 0..n /\ m - 1 \notin T
      <4>1. m \in 1..n /\ m - 1 \in 0..n /\ ~(m <= m - 1)
        BY <1>1, <2>2, <2>4
      <4> HIDE DEF T
      <4> QED BY <2>1, <4>1
    <3>2. h[m - 1] \in Seq(FileCells) /\ Sound(h[m - 1])
      BY <3>1
    <3>3. h[m] = h[m - 1] \o S[m]
      BY <1>1, <1>2, <3>1 DEF Joins
    <3> QED BY <1>1, <2>2, <3>1, <3>2, <3>3, SoundConcat
  <2> QED BY <2>3, <2>4
<1>4. n \in 0..n
  BY <1>1
<1> QED BY <1>2, <1>3, <1>4

\* A whole record's piece has its five fields, a torn one fewer; each starts
\* with the magic.
LEMMA PieceFields ==
    ASSUME journal \in Seq(Records), NEW parts \in [TornAt -> 1..RecSize - 1],
           NEW k \in 1..Len(journal)
    PROVE  LET s == Pieces(parts)[k]
               z == Size(Pieces(parts), k)
           IN  /\ journal[k] # Torn => /\ journal[k] \in Whole /\ z = RecSize
                                       /\ s = Fields(journal[k])
               /\ journal[k] = Torn => z \in 1..RecSize - 1
               /\ s[1].field = "magic" /\ z \in 1..RecSize
<1> DEFINE s == Pieces(parts)[k]
<1>1. /\ DOMAIN journal = 1..Len(journal) /\ Len(journal) \in Nat
      /\ journal[k] \in Records
  BY LenProperties
<1>2. CASE journal[k] # Torn
  <2>1. s = Fields(journal[k]) /\ journal[k] \in Whole
    BY <1>1, <1>2 DEF Pieces, TornAt, Records, Whole
  <2>2. Len(s) = RecSize
    BY <2>1, FieldsAre
  <2>3. s[1].field = "magic"
    BY <2>1 DEF Fields
  <2>4. RecSize \in 1..RecSize
    BY DEF RecSize
  <2> QED BY <1>2, <2>1, <2>2, <2>3, <2>4 DEF Size
<1>3. CASE journal[k] = Torn
  <2>1. k \in TornAt /\ parts[k] \in 1..4 /\ s = SubSeq(Fields(CutShort), 1, parts[k])
    BY <1>1, <1>3 DEF RecSize, Pieces, TornAt
  <2>2. Fields(CutShort) \in Seq(FileCells) /\ Len(Fields(CutShort)) = RecSize
    BY FieldsAre
  <2> DEFINE q == parts[k]
             F == Fields(CutShort)
  <2>3. q \in 1..4 /\ q \in Int /\ 1 \in Int /\ s = SubSeq(F, 1, q)
    BY <2>1
  <2>4. F[1].field = "magic"
    BY DEF Fields
  <2> HIDE DEF F, q
  <2>5. \A m \in 1..q : F[m] \in FileCells
    <3>1. \A m \in 1..q : m \in 1..Len(F)
      BY <2>2, <2>3 DEF RecSize, F
    <3> QED BY <2>2, <3>1, ElementOfSeq DEF F
  <2>6. Len(SubSeq(F, 1, q)) = q /\ SubSeq(F, 1, q)[1] = F[1]
    <3>1. q \in Int /\ 1 \in Int /\ 1 <= q /\ q - 1 + 1 = q /\ 1 \in 1..q /\ 1 + 1 - 1 = 1
      BY <2>3
    <3>2. /\ Len(SubSeq(F, 1, q)) = q
          /\ \A i \in 1..q : SubSeq(F, 1, q)[i] = F[1 + i - 1]
      BY <2>5, <3>1, SubSeqProperties
    <3>3. SubSeq(F, 1, q)[1] = F[1 + 1 - 1]
      BY <3>1, <3>2
    <3> QED BY <3>1, <3>2, <3>3
  <2>7. Size(Pieces(parts), k) = q /\ s[1].field = "magic"
    BY <2>3, <2>4, <2>6 DEF Size
  <2>8. q \in 1..RecSize - 1 /\ q \in 1..RecSize
    BY <2>3 DEF RecSize
  <2> QED BY <1>3, <2>7, <2>8
<1> QED BY <1>2, <1>3

\* Whole records before it: where the k-th one ends in the file.
LEMMA WholeLength ==
    ASSUME journal \in Seq(Records), NEW parts \in [TornAt -> 1..RecSize - 1],
           NEW h, Joins(h, Pieces(parts), FileCells), Cells(parts) = h[Len(journal)],
           NEW k \in 0..Len(journal), \A i \in 1..k : journal[i] # Torn
    PROVE  Size(h, k) = RecSize * k
<1> DEFINE n == Len(journal)
           T == {m \in 0..k : Size(h, m) # RecSize * m}
<1>1. n \in Nat
  BY LenProperties
<1>2. T = {}
  <2> SUFFICES ASSUME T # {} PROVE FALSE
    OBVIOUS
  <2>1. PICK m \in T : \A u \in T : m <= u
    <3>1. T \in SUBSET Nat
      BY <1>1
    <3> HIDE DEF T
    <3> QED BY <3>1, LeastOf
  <2>2. m \in 0..k /\ Size(h, m) # RecSize * m
    OBVIOUS
  <2>3. CASE m = 0
    <3>1. Size(h, 0) = 0
      <4>1. h[0] = <<>> /\ Len(<<>>) = 0
        BY EmptySeq DEF Joins
      <4> QED BY <4>1 DEF Size
    <3> QED BY <2>2, <2>3, <3>1 DEF RecSize
  <2>4. CASE m # 0
    <3>1. m \in 1..k /\ m \in 1..n /\ m - 1 \in 0..k /\ ~(m <= m - 1)
      BY <1>1, <2>2, <2>4
    <3>2. m - 1 \notin T
      <4> HIDE DEF T
      <4> QED BY <2>1, <3>1
    <3>3. Size(h, m - 1) = RecSize * (m - 1)
      BY <3>1, <3>2
    <3>4. journal[m] # Torn
      BY <3>1
    <3>5. Size(Pieces(parts), m) = RecSize
      BY <3>1, <3>4, PieceFields
    <3>6. Size(h, m) = Size(h, m - 1) + Size(Pieces(parts), m)
      BY <3>1, PieceAt
    <3> QED BY <2>2, <3>1, <3>3, <3>5, <3>6 DEF RecSize
  <2> QED BY <2>3, <2>4
<1>3. k \in 0..k
  BY <1>1
<1> QED BY <1>2, <1>3

\* What a replay has so far: whether it goes on, and counts.
Loaded == [ok : BOOLEAN, counts : [Chunks -> Nat]]

\* The blocks a replay reads, and what FoldLeft goes through.
Blocks(parts) ==
    [i \in 1..Len(Cells(parts)) \div RecSize |->
        SubSeq(Cells(parts), (i - 1) * RecSize + 1, i * RecSize)]
Fresh == [ok |-> TRUE, counts |-> refsFile]
Replays(g, s) ==
    g = [t \in SUBSET DOMAIN s |->
            IF t = {} THEN Fresh ELSE Replay1(g[t \ {Max(t)}], s[Max(t)])]

\* A replay is what FoldLeft makes of the blocks.
LEMMA ReplayedIs ==
    ASSUME NEW parts
    PROVE  Replayed(parts) = (CHOOSE g : Replays(g, Blocks(parts)))[DOMAIN Blocks(parts)]
  BY DEF Replayed, FoldLeft, MapThenFoldSet, Replays, Blocks, Fresh

\* A block is five cells of the file, and the file has no more of them.
LEMMA BlockCells ==
    ASSUME journal \in Seq(Records), NEW parts \in [TornAt -> 1..RecSize - 1]
    PROVE  LET s == Cells(parts)
           IN  /\ Len(s) \in Nat /\ Len(s) \div RecSize \in Nat
               /\ DOMAIN Blocks(parts) = 1..Len(s) \div RecSize
               /\ \A i \in 1..Len(s) \div RecSize :
                     /\ i * RecSize \in 1..Len(s) /\ i * RecSize >= RecSize
                     /\ \A m \in 1..RecSize :
                           Blocks(parts)[i][m] = s[i * RecSize - RecSize + m]
               /\ \A i \in Nat : RecSize * i <= Len(s) => i <= Len(s) \div RecSize
<1> DEFINE s == Cells(parts)
           n == Len(s) \div RecSize
           B == Blocks(parts)
<1>1. s \in Seq(FileCells)
  BY CellsSound
<1>2. Len(s) \in Nat
  BY <1>1, LenProperties
<1>3. /\ DOMAIN B = 1..n
      /\ \A i \in 1..n : B[i] = SubSeq(s, (i - 1) * RecSize + 1, i * RecSize)
  BY DEF Blocks
<1> HIDE DEF s, B
<1>4. /\ n \in Nat /\ \A i \in 1..n : i * RecSize \in 1..Len(s) /\ i * RecSize >= RecSize
      /\ \A i \in Nat : RecSize * i <= Len(s) => i <= n
  BY <1>2 DEF RecSize
<1> HIDE DEF n
<1>5. ASSUME NEW i \in 1..n, NEW m \in 1..RecSize
      PROVE  B[i][m] = s[i * RecSize - RecSize + m]
  <2> DEFINE k == (i - 1) * RecSize + 1
             j == i * RecSize
  <2>1. /\ k \in Int /\ j \in Int /\ j - k + 1 = RecSize /\ k >= 1
        /\ k + m - 1 = i * RecSize - RecSize + m
    BY <1>4 DEF RecSize
  <2>2. B[i] = SubSeq(s, k, j) /\ j <= Len(s)
    BY <1>3, <1>4
  <2> HIDE DEF k, j
  <2>3. \A x \in k..j : s[x] \in FileCells
    <3>1. \A x \in k..j : x \in 1..Len(s)
      BY <1>2, <2>1, <2>2
    <3> QED BY <1>1, <3>1, ElementOfSeq
  <2>4. SubSeq(s, k, j)[m] = s[k + m - 1]
    <3>1. m \in 1..(j - k + 1)
      BY <2>1
    <3> QED BY <2>1, <2>3, <3>1, SubSeqProperties
  <2> QED BY <2>1, <2>2, <2>4
<1> QED BY <1>2, <1>3, <1>4, <1>5 DEF s, n, B

\* A block that decodes is one whole record.
LEMMA DecodedWhole ==
    ASSUME journal \in Seq(Records), NEW parts \in [TornAt -> 1..RecSize - 1],
           NEW i \in 1..Len(Cells(parts)) \div RecSize, Decodes(Blocks(parts)[i])
    PROVE  \E r \in Whole : \A m \in 1..RecSize : Blocks(parts)[i][m] = Fields(r)[m]
<1> DEFINE s == Cells(parts)
           b == Blocks(parts)[i]
           j == i * RecSize
<1>1. Sound(s)
  BY CellsSound
<1>2. j \in 1..Len(s) /\ j >= RecSize /\ \A m \in 1..RecSize : b[m] = s[j - RecSize + m]
  BY BlockCells
<1>3. b[5].field = "sum"
  BY DEF Decodes, RecSize
<1> HIDE DEF s, b, j
<1>4. s[j].field = "sum"
  <2>1. 5 \in 1..RecSize /\ j - RecSize + 5 = j
    BY <1>2 DEF RecSize
  <2>2. b[5] = s[j - RecSize + 5]
    BY <1>2, <2>1
  <2> QED BY <1>3, <2>1, <2>2
<1>5. PICK r \in Whole : \A m \in 1..RecSize : s[j - RecSize + m] = Fields(r)[m]
  BY <1>1, <1>2, <1>4 DEF Sound
<1>6. \A m \in 1..RecSize : b[m] = Fields(r)[m]
  BY <1>2, <1>5
<1> QED BY <1>6 DEF b

\* What replaying one whole record does.
LEMMA Replay1Whole ==
    ASSUME NEW t \in Loaded, NEW b, NEW r \in Whole, \A m \in 1..RecSize : b[m] = Fields(r)[m]
    PROVE  /\ Replay1(t, b) \in Loaded
           /\ t.ok /\ r[1] = "inc" =>
                 Replay1(t, b) = [t EXCEPT !.counts[r[2]] = @ + 1]
<1>1. /\ b[1] = Fields(r)[1] /\ b[2] = Fields(r)[2] /\ b[3] = Fields(r)[3]
      /\ b[4] = Fields(r)[4] /\ b[5] = Fields(r)[5]
  BY DEF RecSize
<1>2. r[1] \in {"inc", "dec"} /\ r[2] \in Chunks /\ r = <<r[1], r[2]>>
  BY DEF Whole
<1>3. /\ b[1].field = "magic" /\ b[2].op = r[1] /\ b[3].id = r[2] /\ b[4].n = 1
      /\ b[5].field = "sum" /\ b[5].of = r
  BY <1>1 DEF Fields
<1> DEFINE c == r[2]
<1>4. t.counts \in [Chunks -> Nat] /\ t.counts[c] \in Nat /\ c \in Chunks
  BY <1>2 DEF Loaded
<1>5. Decodes(b)
  BY <1>2, <1>3 DEF Decodes, Rec, RecSize
<1> HIDE DEF c
<1>6. CASE ~t.ok \/ (r[1] = "dec" /\ t.counts[c] < 1)
  <2>1. Replay1(t, b) = [t EXCEPT !.ok = FALSE]
    BY <1>3, <1>6 DEF Replay1, c
  <2> QED BY <1>6, <2>1 DEF Loaded
<1>7. CASE t.ok /\ ~(r[1] = "dec" /\ t.counts[c] < 1)
  <2>1. Replay1(t, b) = [t EXCEPT !.counts[c] = IF r[1] = "inc" THEN @ + 1 ELSE @ - 1]
    BY <1>3, <1>5, <1>7 DEF Replay1, c
  <2>2. (IF r[1] = "inc" THEN t.counts[c] + 1 ELSE t.counts[c] - 1) \in Nat
    BY <1>2, <1>4, <1>7
  <2>3. [t.counts EXCEPT ![c] = IF r[1] = "inc" THEN @ + 1 ELSE @ - 1] \in [Chunks -> Nat]
    BY <1>4, <2>2
  <2>4. Replay1(t, b) \in Loaded
    BY <2>1, <2>3 DEF Loaded
  <2>5. r[1] = "inc" => Replay1(t, b) = [t EXCEPT !.counts[c] = @ + 1]
    BY <2>1
  <2> QED BY <2>4, <2>5 DEF c
<1> QED BY <1>6, <1>7

\* What replaying the record of an added reference does.
LEMMA Replay1Inc ==
    ASSUME NEW t \in Loaded, t.ok, NEW b, NEW d \in Chunks,
           \A m \in 1..RecSize : b[m] = Fields(Rec("inc", d))[m]
    PROVE  /\ Replay1(t, b).ok
           /\ \A c \in Chunks :
                 Replay1(t, b).counts[c] = IF c = d THEN t.counts[c] + 1 ELSE t.counts[c]
<1> DEFINE r == Rec("inc", d)
<1>1. r \in Whole /\ r[1] = "inc" /\ r[2] = d
  BY DEF Whole, Rec
<1>2. \A m \in 1..RecSize : b[m] = Fields(r)[m]
  OBVIOUS
<1> HIDE DEF r
<1>3. Replay1(t, b) = [t EXCEPT !.counts[r[2]] = @ + 1]
  BY <1>1, <1>2, Replay1Whole
<1>4. /\ Replay1(t, b).ok /\ t.counts \in [Chunks -> Nat]
      /\ Replay1(t, b).counts = [t.counts EXCEPT ![d] = @ + 1]
  BY <1>1, <1>3 DEF Loaded
<1> QED BY <1>4

\* A replay ends with a block that does not decode.
LEMMA Replay1Stops ==
    ASSUME NEW t \in Loaded, NEW b, ~t.ok \/ ~Decodes(b)
    PROVE  Replay1(t, b) \in Loaded /\ ~Replay1(t, b).ok
<1>1. Replay1(t, b) = [t EXCEPT !.ok = FALSE]
  BY DEF Replay1
<1> QED BY <1>1 DEF Loaded

\* The values a replay goes through, one block at a time.
Goes(g, parts) ==
    /\ g \in [0..Len(Cells(parts)) \div RecSize -> Loaded] /\ g[0] = Fresh
    /\ \A k \in 1..Len(Cells(parts)) \div RecSize :
          g[k] = Replay1(g[k - 1], Blocks(parts)[k])

\* Whatever the journal holds, its replay gives counts.
LEMMA ReplayGoes ==
    ASSUME journal \in Seq(Records), refsFile \in [Chunks -> Nat],
           NEW parts \in [TornAt -> 1..RecSize - 1]
    PROVE  \E g : /\ Goes(g, parts)
                  /\ Replayed(parts) = g[Len(Cells(parts)) \div RecSize]
<1> DEFINE n == Len(Cells(parts)) \div RecSize
           B == Blocks(parts)
           G == CHOOSE g : Replays(g, B)
<1>1. n \in Nat /\ DOMAIN B = 1..n
  BY BlockCells
<1>2. ASSUME NEW i \in 1..n, NEW t \in Loaded
      PROVE  Replay1(t, B[i]) \in Loaded
  <2>1. CASE Decodes(B[i])
    <3>1. \E r \in Whole : \A m \in 1..RecSize : B[i][m] = Fields(r)[m]
      BY <2>1, DecodedWhole
    <3> HIDE DEF B, n
    <3> QED BY <3>1, Replay1Whole
  <2>2. CASE ~Decodes(B[i])
    <3> HIDE DEF B, n
    <3> QED BY <2>2, Replay1Stops
  <2> QED BY <2>1, <2>2
<1>3. Fresh \in Loaded
  BY DEF Fresh, Loaded
<1>4. Replayed(parts) = G[1..n]
  BY <1>1, ReplayedIs
<1> HIDE DEF n, B
<1>5. Replays(G, B)
  <2> DEFINE step == [i \in 1..n |-> [t \in Loaded |-> Replay1(t, B[i])]]
  <2>1. step \in [1..n -> [Loaded -> Loaded]]
    BY <1>2
  <2> HIDE DEF step
  <2>2. PICK g \in [SUBSET (1..n) -> Loaded] : Folding(g, Fresh, n, step)
    BY <1>1, <1>3, <2>1, FoldExists
  <2>3. ASSUME NEW t \in SUBSET (1..n), t # {}
        PROVE  g[t] = Replay1(g[t \ {Max(t)}], B[Max(t)])
    <3>1. Max(t) \in t
      BY <1>1, <2>3, MaxIn
    <3>2. g[t \ {Max(t)}] \in Loaded /\ Max(t) \in 1..n
      BY <3>1
    <3>3. step[Max(t)][g[t \ {Max(t)}]] = Replay1(g[t \ {Max(t)}], B[Max(t)])
      BY <3>2 DEF step
    <3> QED BY <2>2, <2>3, <3>3 DEF Folding
  <2>4. g = [t \in SUBSET (1..n) |-> g[t]]
    OBVIOUS
  <2>5. Replays(g, B)
    <3>1. g[{}] = Fresh
      BY <2>2 DEF Folding
    <3> QED BY <1>1, <2>3, <2>4, <3>1 DEF Replays
  <2> QED BY <2>5
<1> HIDE DEF G
<1>6. /\ G[{}] = Fresh
      /\ \A t \in SUBSET (1..n) : t # {} => G[t] = Replay1(G[t \ {Max(t)}], B[Max(t)])
  <2> DEFINE body(t) == IF t = {} THEN Fresh ELSE Replay1(G[t \ {Max(t)}], B[Max(t)])
  <2>1. G = [t \in SUBSET (1..n) |-> body(t)]
    BY <1>1, <1>5 DEF Replays
  <2> HIDE DEF body
  <2>2. \A t \in SUBSET (1..n) : G[t] = body(t)
    BY <2>1
  <2> QED BY <2>2 DEF body
<1>7. ASSUME NEW m \in 1..n
      PROVE  G[1..m] = Replay1(G[1..(m - 1)], B[m])
  <2>1. 1..m \in SUBSET (1..n) /\ m \in Nat \ {0}
    BY <1>1
  <2>2. 1..m # {} /\ Max(1..m) = m /\ (1..m) \ {m} = 1..(m - 1)
    BY <2>1, MaxOfPrefix
  <2> QED BY <1>6, <2>1, <2>2
<1>8. G[1..0] = Fresh
  <2>1. 1..0 = {}
    OBVIOUS
  <2> QED BY <1>6, <2>1
<1>9. \A k \in 0..n : G[1..k] \in Loaded
  <2> DEFINE T == {k \in 0..n : G[1..k] \notin Loaded}
  <2> SUFFICES ASSUME T # {} PROVE FALSE
    OBVIOUS
  <2>1. T \in SUBSET Nat
    OBVIOUS
  <2>2. PICK m \in T : \A u \in T : m <= u
    <3> HIDE DEF T
    <3> QED BY <2>1, LeastOf
  <2>3. CASE m = 0
    BY <1>3, <1>8, <2>3
  <2>4. CASE m # 0
    <3>1. m \in 1..n /\ m - 1 \in 0..n /\ m - 1 \notin T
      <4>1. m \in 0..n
        OBVIOUS
      <4> HIDE DEF T
      <4> QED BY <1>1, <2>2, <2>4, <4>1
    <3>2. G[1..(m - 1)] \in Loaded
      BY <3>1
    <3> QED BY <1>2, <1>7, <3>1, <3>2
  <2> QED BY <2>3, <2>4
<1> DEFINE g == [k \in 0..n |-> G[1..k]]
<1>10. \A k \in 1..n : k \in 0..n /\ k - 1 \in 0..n
  BY <1>1
<1>11. g \in [0..n -> Loaded] /\ g[0] = Fresh /\ g[n] = G[1..n]
  BY <1>1, <1>8, <1>9
<1>12. \A k \in 1..n : g[k] = Replay1(g[k - 1], B[k])
  <2> TAKE k \in 1..n
  <2>1. g[k] = G[1..k] /\ g[k - 1] = G[1..(k - 1)]
    BY <1>10
  <2> HIDE DEF g
  <2> QED BY <1>7, <2>1
<1> HIDE DEF g
<1> QED BY <1>4, <1>11, <1>12 DEF Goes, n, B

\* So what Open loads are counts.
LEMMA ReplayedTyped ==
    ASSUME journal \in Seq(Records), refsFile \in [Chunks -> Nat],
           NEW parts \in [TornAt -> 1..RecSize - 1]
    PROVE  Replayed(parts) \in Loaded
<1> DEFINE n == Len(Cells(parts)) \div RecSize
<1>1. PICK g : Goes(g, parts) /\ Replayed(parts) = g[n]
  BY ReplayGoes
<1>2. n \in Nat
  BY BlockCells
<1> HIDE DEF n
<1> QED BY <1>1, <1>2 DEF Goes, n

-----------------------------------------------------------------------------
(* Which records a replay applies: up to half a record it reads each one as   *)
(* it was written, and what follows half a record never decodes.              *)

\* After whole records, a whole one is read as it was written.
LEMMA WholeRead ==
    ASSUME journal \in Seq(Records), NEW parts \in [TornAt -> 1..RecSize - 1],
           NEW k \in 1..Len(journal), \A i \in 1..k : journal[i] # Torn
    PROVE  /\ k <= Len(Cells(parts)) \div RecSize
           /\ journal[k] \in Whole
           /\ \A m \in 1..RecSize : Blocks(parts)[k][m] = Fields(journal[k])[m]
<1> DEFINE s == Pieces(parts)
           n == Len(journal)
           f == Cells(parts)
<1>1. n \in Nat
  BY LenProperties
<1>2. PICK h : Joins(h, s, FileCells) /\ f = h[n]
  BY CellsJoined
<1>3. journal[k] \in Whole /\ Size(s, k) = RecSize /\ s[k] = Fields(journal[k])
  BY PieceFields
<1>4. k - 1 \in 0..n /\ \A i \in 1..(k - 1) : journal[i] # Torn
  BY <1>1
<1>5. Size(h, k - 1) = RecSize * (k - 1)
  BY <1>2, <1>4, WholeLength
<1>6. /\ Size(h, k) = Size(h, k - 1) + Size(s, k) /\ Size(h, k) <= Len(f)
      /\ \A m \in 1..Size(s, k) : f[Size(h, k - 1) + m] = s[k][m]
  BY <1>2, PieceAt
<1>7. Len(f) \in Nat /\ \A i \in Nat : RecSize * i <= Len(f) => i <= Len(f) \div RecSize
  BY BlockCells
<1>8. \A i \in 1..Len(f) \div RecSize : \A m \in 1..RecSize :
         Blocks(parts)[i][m] = f[i * RecSize - RecSize + m]
  BY BlockCells
<1> HIDE DEF f, s, n
<1>9. k \in Nat /\ k >= 1 /\ RecSize * k <= Len(f)
  BY <1>1, <1>3, <1>5, <1>6, <1>7 DEF RecSize, n
<1>10. k \in 1..Len(f) \div RecSize
  <2>1. Len(f) \div RecSize \in Nat
    BY <1>7 DEF RecSize
  <2> QED BY <1>7, <1>9, <2>1
<1>11. k * RecSize - RecSize = Size(h, k - 1)
  BY <1>5, <1>9 DEF RecSize
<1>12. \A m \in 1..RecSize : Blocks(parts)[k][m] = Fields(journal[k])[m]
  BY <1>3, <1>6, <1>8, <1>10, <1>11
<1> QED BY <1>3, <1>10, <1>12 DEF f

\* Part of the k-th record ends before that record would.
LEMMA Within ==
    ASSUME NEW k \in Nat \ {0}, NEW q \in 1..4, NEW x, NEW y, NEW z \in Nat,
           x = RecSize * (k - 1), y = x + q, k * RecSize <= z
    PROVE  y < z
  BY DEF RecSize

\* Half a record after whole ones: the read that starts with it reaches into the
\* next record, whose magic is where no whole record has it.
LEMMA TornRead ==
    ASSUME journal \in Seq(Records), NEW parts \in [TornAt -> 1..RecSize - 1],
           NEW k \in 1..Len(journal), \A i \in 1..(k - 1) : journal[i] # Torn,
           journal[k] = Torn, k <= Len(Cells(parts)) \div RecSize
    PROVE  ~Decodes(Blocks(parts)[k])
<1> SUFFICES ASSUME Decodes(Blocks(parts)[k])
             PROVE  FALSE
  OBVIOUS
<1> DEFINE s == Pieces(parts)
           n == Len(journal)
           f == Cells(parts)
           b == Blocks(parts)[k]
           q == Size(s, k)
<1>1. n \in Nat
  BY LenProperties
<1>2. PICK h : Joins(h, s, FileCells) /\ f = h[n]
  BY CellsJoined
<1>3. q \in 1..4
  BY PieceFields DEF RecSize
<1>4. k - 1 \in 0..n
  BY <1>1
<1>5. Size(h, k - 1) = RecSize * (k - 1)
  BY <1>2, <1>4, WholeLength
<1>6. k \in 1..Len(f) \div RecSize /\ Len(f) \in Nat
  BY <1>1, BlockCells
<1>7. k * RecSize \in 1..Len(f) /\ \A m \in 1..RecSize : b[m] = f[k * RecSize - RecSize + m]
  BY <1>6, BlockCells
<1>8. PICK r \in Whole : \A m \in 1..RecSize : b[m] = Fields(r)[m]
  BY <1>6, DecodedWhole
<1>9. Size(h, k) = Size(h, k - 1) + q
  BY <1>2, PieceAt
<1> HIDE DEF f, q, b
<1>10. Size(h, k) < Len(f)
  <2>1. k \in Nat \ {0}
    BY <1>1
  <2>2. k * RecSize <= Len(f)
    BY <1>6, <1>7, <2>1 DEF RecSize
  <2> QED BY <1>3, <1>5, <1>6, <1>9, <2>1, <2>2, Within
<1>11. k + 1 \in 1..n
  <2>1. k # n
    <3> SUFFICES ASSUME k = n PROVE FALSE
      OBVIOUS
    <3>1. Size(h, k) = Len(f)
      BY <1>2 DEF Size
    <3> HIDE DEF n
    <3> QED BY <1>6, <1>10, <3>1
  <2> QED BY <1>1, <2>1
<1>12. s[k + 1][1].field = "magic" /\ Size(s, k + 1) \in 1..RecSize
  BY <1>11, PieceFields
<1>13. f[Size(h, k) + 1] = s[k + 1][1]
  <2>1. \A m \in 1..Size(s, k + 1) : f[Size(h, k + 1 - 1) + m] = s[k + 1][m]
    <3> DEFINE j == k + 1
    <3>1. j \in 1..n
      BY <1>11
    <3> HIDE DEF j
    <3>2. \A m \in 1..Size(s, j) : f[Size(h, j - 1) + m] = s[j][m]
      BY <1>2, <3>1, PieceAt, SMTT(30) DEF f
    <3> QED BY <3>2 DEF j
  <2>2. k + 1 - 1 = k /\ 1 \in 1..Size(s, k + 1)
    <3> HIDE DEF s
    <3> QED BY <1>1, <1>12 DEF RecSize
  <2> HIDE DEF s
  <2> QED BY <2>1, <2>2
<1> HIDE DEF s
<1>14. /\ q + 1 \in 1..RecSize /\ q + 1 # 1
       /\ k * RecSize - RecSize + (q + 1) = Size(h, k) + 1
  BY <1>1, <1>3, <1>5, <1>9 DEF RecSize
<1>15. b[q + 1].field = "magic"
  <2>1. b[q + 1] = f[k * RecSize - RecSize + (q + 1)]
    BY <1>7, <1>14
  <2> QED BY <1>12, <1>13, <1>14, <2>1
<1>16. Fields(r)[q + 1].field = "magic"
  BY <1>8, <1>14, <1>15
<1>17. q + 1 = 2 \/ q + 1 = 3 \/ q + 1 = 4 \/ q + 1 = 5
  BY <1>3
<1> QED BY <1>16, <1>17 DEF Fields

\* Only references that were added are logged, or half a record of one.
OnlyIncs ==
    \A i \in 1..Len(journal) :
        journal[i] = Torn \/ \E c \in Chunks : journal[i] = Rec("inc", c)

\* The records of a reference to c, and those among the first k.
Logged(c) == {i \in 1..Len(journal) : journal[i] = Rec("inc", c)}
LoggedBy(k, c) == {i \in 1..k : journal[i] = Rec("inc", c)}

\* When the blocks are all whole records, no whole one comes after them.
LEMMA NoneUnread ==
    ASSUME journal \in Seq(Records), NEW parts \in [TornAt -> 1..RecSize - 1],
           NEW k \in 0..Len(journal), k = Len(Cells(parts)) \div RecSize,
           \A i \in 1..k : journal[i] # Torn,
           NEW j \in (k + 1)..Len(journal)
    PROVE  journal[j] = Torn
<1> SUFFICES ASSUME journal[j] # Torn
             PROVE  FALSE
  OBVIOUS
<1> DEFINE s == Pieces(parts)
           n == Len(journal)
           f == Cells(parts)
<1>1. n \in Nat /\ s \in Seq(Seq(FileCells)) /\ Len(s) = n
  BY LenProperties, PiecesSound
<1>2. PICK h : Joins(h, s, FileCells) /\ f = h[n]
  BY CellsJoined
<1>3. Size(h, k) = RecSize * k
  BY <1>2, WholeLength
<1>4. j \in 1..n /\ j - 1 \in k..n
  BY <1>1
<1>5. Size(s, j) = RecSize
  BY <1>4, PieceFields
<1>6. /\ Size(h, j - 1) \in Nat
      /\ Size(h, j) = Size(h, j - 1) + Size(s, j) /\ Size(h, j) <= Len(f)
  BY <1>2, <1>4, PieceAt
<1>7. Size(h, k) <= Size(h, j - 1)
  <2>1. \A m \in k..Len(s) : Starts(h[k], h[m])
    BY <1>1, <1>2, JoinsGrow
  <2>2. Starts(h[k], h[j - 1])
    BY <1>1, <1>4, <2>1
  <2> QED BY <2>2 DEF Starts, Size
<1>8. Len(f) \in Nat
  BY BlockCells
<1> HIDE DEF f, s
<1>9. k + 1 \in Nat /\ RecSize * (k + 1) <= Len(f)
  <2>1. k \in Nat /\ k + 1 \in Nat
    BY <1>1
  <2>2. RecSize * (k + 1) <= Size(h, j - 1) + RecSize
    BY <1>3, <1>6, <1>7, <2>1 DEF RecSize
  <2>3. Size(h, j - 1) + RecSize <= Len(f) /\ Size(h, j - 1) + RecSize \in Nat
    BY <1>5, <1>6, <1>8 DEF RecSize
  <2> QED BY <1>8, <2>1, <2>2, <2>3 DEF RecSize
<1>10. k + 1 <= k
  BY <1>9, BlockCells DEF f
<1> QED BY <1>1, <1>10

\* A replay that succeeds counts every record in the journal.
LEMMA ReplayCounts ==
    ASSUME journal \in Seq(Records), refsFile \in [Chunks -> Nat], OnlyIncs,
           NEW parts \in [TornAt -> 1..RecSize - 1], Replayed(parts).ok, NEW c \in Chunks
    PROVE  Replayed(parts).counts[c] = refsFile[c] + Cardinality(Logged(c))
<1> DEFINE N == Len(journal)
           f == Cells(parts)
           n == Len(f) \div RecSize
           B == Blocks(parts)
<1>1. N \in Nat /\ n \in Nat /\ Len(f) \in Nat
  BY LenProperties, BlockCells
<1>2. PICK g : Goes(g, parts) /\ Replayed(parts) = g[n]
  BY ReplayGoes
<1>3. /\ \A k \in 0..n : g[k] \in Loaded
      /\ g[0] = Fresh /\ \A k \in 1..n : g[k] = Replay1(g[k - 1], B[k])
  BY <1>2 DEF Goes
<1>4. \A k \in 0..n : g[k].ok
  <2> HIDE DEF n, B
  <2> DEFINE T == {n - k : k \in {x \in 0..n : ~g[x].ok}}
  <2> SUFFICES ASSUME T # {} PROVE FALSE
    OBVIOUS
  <2>1. PICK d \in T : \A u \in T : d <= u
    <3>1. T \in SUBSET Nat
      BY <1>1
    <3> HIDE DEF T
    <3> QED BY <3>1, LeastOf
  <2>2. PICK k \in 0..n : ~g[k].ok /\ d = n - k
    OBVIOUS
  <2>3. k # n
    BY <1>2, <2>2
  <2>4. k + 1 \in 1..n /\ k + 1 \in 0..n /\ k + 1 - 1 = k
    BY <1>1, <2>2, <2>3
  <2>5. ~g[k + 1].ok
    BY <1>3, <2>2, <2>4, Replay1Stops
  <2>6. n - (k + 1) \in T
    BY <2>4, <2>5
  <2> HIDE DEF T
  <2>7. d <= n - (k + 1)
    BY <2>1, <2>6
  <2> QED BY <1>1, <2>2, <2>4, <2>7
<1> DEFINE Read(k) == /\ k <= N /\ \A i \in 1..k : journal[i] # Torn
                      /\ IsFiniteSet(LoggedBy(k, c))
                      /\ g[k].counts[c] = refsFile[c] + Cardinality(LoggedBy(k, c))
           T == {k \in 0..n : ~Read(k)}
<1>5. T = {}
  <2> SUFFICES ASSUME T # {} PROVE FALSE
    OBVIOUS
  <2>1. PICK m \in T : \A u \in T : m <= u
    <3>1. T \in SUBSET Nat
      BY <1>1
    <3> HIDE DEF T
    <3> QED BY <3>1, LeastOf
  <2>2. m \in 0..n /\ ~Read(m)
    OBVIOUS
  <2>3. CASE m = 0
    <3>1. LoggedBy(0, c) = {}
      BY DEF LoggedBy
    <3>2. IsFiniteSet({}) /\ Cardinality({}) = 0
      BY FS_EmptySet
    <3>3. g[0].counts[c] = refsFile[c] /\ refsFile[c] \in Nat
      BY <1>3 DEF Fresh
    <3>4. refsFile[c] + 0 = refsFile[c] /\ 0 <= N /\ 1..0 = {}
      BY <1>1, <3>3
    <3>5. Read(0)
      <4> HIDE DEF N, n
      <4> QED BY <3>1, <3>2, <3>3, <3>4
    <3> QED BY <2>2, <2>3, <3>5
  <2>4. CASE m # 0
    <3>1. m \in 1..n /\ m - 1 \in 0..n /\ ~(m <= m - 1) /\ m \in Nat
      BY <1>1, <2>2, <2>4
    <3>2. m - 1 \notin T
      <4> HIDE DEF T
      <4> QED BY <2>1, <3>1
    <3>3. Read(m - 1)
      BY <3>1, <3>2
    <3>4. m - 1 \in 0..N
      BY <1>1, <3>1, <3>3
    <3>5. m \in 1..N
      <4> SUFFICES ASSUME m - 1 = N
                   PROVE  FALSE
        BY <1>1, <3>1, <3>4
      <4>1. PICK h : Joins(h, Pieces(parts), FileCells) /\ f = h[N]
        BY CellsJoined
      <4>2. Len(f) = RecSize * (m - 1)
        <5>1. \A i \in 1..(m - 1) : journal[i] # Torn
          BY <3>3
        <5>2. Size(h, m - 1) = RecSize * (m - 1)
          BY <3>4, <4>1, <5>1, WholeLength
        <5> HIDE DEF f, N
        <5> QED BY <4>1, <5>2 DEF Size
      <4>3. m * RecSize \in 1..Len(f)
        BY <3>1, BlockCells
      <4> HIDE DEF f
      <4> QED BY <3>1, <4>2, <4>3 DEF RecSize
    <3>6. \A i \in 1..m : i # m => i \in 1..(m - 1)
      BY <3>1
    <3>7. m <= n
      BY <3>1
    <3>8. g[m - 1] \in Loaded /\ g[m - 1].ok /\ g[m] = Replay1(g[m - 1], B[m])
      BY <1>3, <1>4, <3>1
    <3>9. journal[m] # Torn
      <4> SUFFICES ASSUME journal[m] = Torn
                   PROVE  FALSE
        OBVIOUS
      <4>1. \A i \in 1..(m - 1) : journal[i] # Torn
        BY <3>3
      <4>2. ~Decodes(B[m])
        BY <3>5, <3>7, <4>1, TornRead
      <4> HIDE DEF B, n
      <4> QED BY <1>4, <2>2, <3>8, <4>2, Replay1Stops
    <3>10. \A i \in 1..m : journal[i] # Torn
      BY <3>3, <3>6, <3>9
    <3>11. journal[m] \in Whole /\ \A x \in 1..RecSize : B[m][x] = Fields(journal[m])[x]
      BY <3>5, <3>10, WholeRead
    <3>12. PICK d \in Chunks : journal[m] = Rec("inc", d)
      BY <3>5, <3>9 DEF OnlyIncs
    <3> DEFINE t == g[m - 1]
               b == B[m]
    <3> HIDE DEF t, b, T, B, n, f, N
    <3>13. t \in Loaded /\ t.ok /\ \A x \in 1..RecSize : b[x] = Fields(Rec("inc", d))[x]
      BY <3>8, <3>11, <3>12 DEF t, b
    <3>14. Replay1(t, b).counts[c] = IF c = d THEN t.counts[c] + 1 ELSE t.counts[c]
      BY <3>13, Replay1Inc
    <3>15. g[m].counts[c] = IF c = d THEN t.counts[c] + 1 ELSE t.counts[c]
      BY <3>8, <3>14 DEF t, b
    <3>16. /\ IsFiniteSet(LoggedBy(m - 1, c))
           /\ t.counts[c] = refsFile[c] + Cardinality(LoggedBy(m - 1, c))
      BY <3>3 DEF t
    <3>17. Cardinality(LoggedBy(m - 1, c)) \in Nat /\ refsFile[c] \in Nat
      BY <3>16, FS_CardinalityType
    <3>18. 1..m = 1..(m - 1) \cup {m} /\ m \notin 1..(m - 1)
      BY <3>1
    <3>19. CASE c = d
      <4>1. LoggedBy(m, c) = LoggedBy(m - 1, c) \cup {m} /\ m \notin LoggedBy(m - 1, c)
        BY <3>12, <3>18, <3>19 DEF LoggedBy
      <4>2. /\ IsFiniteSet(LoggedBy(m, c))
            /\ Cardinality(LoggedBy(m, c)) = Cardinality(LoggedBy(m - 1, c)) + 1
        BY <3>16, <4>1, FS_AddElement
      <4>3. g[m].counts[c] = t.counts[c] + 1
        BY <3>15, <3>19
      <4>4. g[m].counts[c] = refsFile[c] + Cardinality(LoggedBy(m, c))
        BY <3>16, <3>17, <4>2, <4>3
      <4> QED BY <2>2, <3>5, <3>10, <4>2, <4>4 DEF N
    <3>20. CASE c # d
      <4>1. Rec("inc", c) # Rec("inc", d)
        BY <3>20 DEF Rec
      <4>2. LoggedBy(m, c) = LoggedBy(m - 1, c)
        BY <3>12, <3>18, <4>1 DEF LoggedBy
      <4>3. g[m].counts[c] = t.counts[c]
        BY <3>15, <3>20
      <4> QED BY <2>2, <3>5, <3>10, <3>16, <4>2, <4>3 DEF N
    <3> QED BY <3>19, <3>20
  <2> QED BY <2>3, <2>4
<1>6. Read(n)
  <2>1. n \in 0..n
    BY <1>1
  <2> HIDE DEF n
  <2> QED BY <1>5, <2>1
<1>7. LoggedBy(n, c) = Logged(c)
  <2>1. n \in 0..N
    BY <1>1, <1>6
  <2>2. \A j \in (n + 1)..N : journal[j] = Torn
    BY <1>6, <2>1, NoneUnread
  <2>3. Rec("inc", c) # Torn
    BY DEF Rec, Torn
  <2>4. \A i \in 1..N : i \in 1..n \/ i \in (n + 1)..N
    BY <1>1
  <2>5. 1..n \subseteq 1..N
    BY <1>1, <2>1
  <2> HIDE DEF n, N
  <2> QED BY <2>2, <2>3, <2>4, <2>5 DEF LoggedBy, Logged, N
<1> QED BY <1>2, <1>6, <1>7

\* A replay of whole records, and perhaps half a one at the end, succeeds.
LEMMA ReplayPasses ==
    ASSUME journal \in Seq(Records), refsFile \in [Chunks -> Nat], OnlyIncs,
           NEW parts \in [TornAt -> 1..RecSize - 1],
           \A i \in 1..Len(journal) - 1 : journal[i] # Torn
    PROVE  Replayed(parts).ok
<1> DEFINE N == Len(journal)
           f == Cells(parts)
           n == Len(f) \div RecSize
           B == Blocks(parts)
<1>1. N \in Nat /\ n \in Nat /\ Len(f) \in Nat
  BY LenProperties, BlockCells
<1>2. PICK g : Goes(g, parts) /\ Replayed(parts) = g[n]
  BY ReplayGoes
<1>3. /\ \A k \in 0..n : g[k] \in Loaded
      /\ g[0] = Fresh /\ \A k \in 1..n : g[k] = Replay1(g[k - 1], B[k])
  BY <1>2 DEF Goes
<1>4. n <= N /\ \A k \in 1..n : journal[k] # Torn
  <2>1. PICK h : Joins(h, Pieces(parts), FileCells) /\ f = h[N]
    BY CellsJoined
  <2>2. CASE N = 0
    <3>1. Len(f) = 0
      BY <2>1, <2>2 DEF Joins
    <3>2. n = 0
      <4> HIDE DEF f
      <4> QED BY <3>1 DEF RecSize
    <3> QED BY <2>2, <3>2
  <2>3. CASE N # 0
    <3> DEFINE q == Size(Pieces(parts), N)
    <3>1. N \in 1..N /\ N - 1 \in 0..N
      BY <1>1, <2>3
    <3>2. q \in 1..RecSize /\ (journal[N] = Torn => q \in 1..RecSize - 1)
      BY <3>1, PieceFields
    <3>3. Size(h, N - 1) = RecSize * (N - 1)
      BY <2>1, <3>1, WholeLength
    <3>4. Len(f) = Size(h, N - 1) + q
      <4>1. Size(h, N) = Size(h, N - 1) + q
        BY <2>1, <3>1, PieceAt
      <4>2. Size(h, N) = Len(f)
        BY <2>1 DEF Size
      <4> QED BY <4>1, <4>2
    <3>5. n = 0 \/ RecSize * n <= Len(f)
      <4>1. n # 0 => n \in 1..n
        BY <1>1
      <4>2. \A i \in 1..n : i * RecSize \in 1..Len(f)
        BY BlockCells
      <4> HIDE DEF n, f
      <4> QED BY <1>1, <4>1, <4>2 DEF RecSize
    <3> HIDE DEF n, f, q, N
    <3>6. n <= N /\ (journal[N] = Torn => n <= N - 1)
      BY <1>1, <2>3, <3>2, <3>3, <3>4, <3>5 DEF RecSize
    <3>7. \A k \in 1..n : k \in 1..N - 1 \/ (k = N /\ n = N)
      BY <1>1, <3>6
    <3>8. \A k \in 1..N - 1 : journal[k] # Torn
      BY DEF N
    <3>9. n = N => journal[N] # Torn
      BY <1>1, <3>6
    <3> QED BY <3>6, <3>7, <3>8, <3>9
  <2> QED BY <2>2, <2>3
<1> DEFINE T == {k \in 0..n : ~g[k].ok}
<1>5. T = {}
  <2> SUFFICES ASSUME T # {} PROVE FALSE
    OBVIOUS
  <2>1. PICK m \in T : \A u \in T : m <= u
    <3>1. T \in SUBSET Nat
      BY <1>1
    <3> HIDE DEF T
    <3> QED BY <3>1, LeastOf
  <2>2. m \in 0..n /\ ~g[m].ok
    OBVIOUS
  <2>3. CASE m = 0
    BY <1>3, <2>2, <2>3 DEF Fresh
  <2>4. CASE m # 0
    <3>1. /\ m \in 1..n /\ m - 1 \in 0..n /\ ~(m <= m - 1)
          /\ m \in 1..N /\ \A i \in 1..m : i \in 1..n
      BY <1>1, <1>4, <2>2, <2>4
    <3>2. m - 1 \notin T
      <4> HIDE DEF T
      <4> QED BY <2>1, <3>1
    <3>3. g[m - 1].ok /\ g[m - 1] \in Loaded /\ g[m] = Replay1(g[m - 1], B[m])
      BY <1>3, <3>1, <3>2
    <3>4. journal[m] \in Whole /\ \A x \in 1..RecSize : B[m][x] = Fields(journal[m])[x]
      BY <1>4, <3>1, WholeRead
    <3>5. PICK d \in Chunks : journal[m] = Rec("inc", d)
      BY <1>4, <3>1 DEF OnlyIncs
    <3> DEFINE t == g[m - 1]
               b == B[m]
    <3> HIDE DEF t, b, T, B, n, f, N
    <3>6. t \in Loaded /\ t.ok /\ \A x \in 1..RecSize : b[x] = Fields(Rec("inc", d))[x]
      BY <3>3, <3>4, <3>5 DEF t, b
    <3>7. Replay1(t, b).ok
      BY <3>6, Replay1Inc
    <3> QED BY <2>2, <3>3, <3>7 DEF t, b
  <2> QED BY <2>3, <2>4
<1>6. n \in 0..n
  BY <1>1
<1> HIDE DEF n
<1> QED BY <1>2, <1>5, <1>6

-----------------------------------------------------------------------------
(* What the callers were told, and the manifests. *)

CrashTypes ==
    /\ up \in {"up", "down", "failed"}
    /\ acked \in [Objects -> Int]
    /\ struck \in SUBSET Objects

\* No call runs while the process does not.
Stopped ==
    /\ \A p \in Clients : pc[p] = "idle"
    /\ \A o \in Objects : objLock[o] = NoClient

\* A Put or Delete about to answer, or to save, has changed its object's record
\* from what it read; one that answers an error has not.
Effect(p) ==
    /\ pc[p] \in SavePCs /\ op[p] = "delete" => idx[obj[p]] + 1 = seen[p]
    /\ pc[p] = "finish" /\ op[p] \in SharedOps =>
           IF out[p] = "ok"
           THEN /\ objLock[obj[p]] = p
                /\ op[p] = "put" => idx[obj[p]] = seen[p] + 1
                /\ op[p] = "delete" => idx[obj[p]] + 1 = seen[p]
           ELSE objLock[obj[p]] = p => idx[obj[p]] = seen[p]

\* So do all calls, and only Put and Delete hold an object's lock.
EffectInv ==
    /\ \A o \in Objects : objLock[o] # NoClient => op[objLock[o]] \in SharedOps
    /\ \A p \in Clients : Effect(p)

\* The callers of an object were told what the call that holds its lock has
\* read, or what the index says when there is none.
ToldInv ==
    \A o \in Objects :
        LET p == objLock[o]
        IN  acked[o] = IF p = NoClient THEN idx[o] ELSE seen[p]

\* An object without a manifest is not indexed, in memory or, while the process
\* is stopped, on disk, unless a Delete of it was cut short.
StruckInv ==
    \A o \in Objects \ (manifests \cup struck) :
        IF up = "up" THEN idx[o] = 0 ELSE idxFile[o] = 0

CrashInv ==
    /\ Typing /\ CrashTypes /\ LockInv /\ RecordInv
    /\ up = "up" => LagInv
    /\ up # "up" => Stopped
    /\ NoFault(DurableKinds) => StruckInv /\ (up = "up" => ToldInv /\ EffectInv)

\* A step of p leaves the other calls as they are, but for readers it lets in,
\* and the locks and records that are not p's.
Others(p) ==
    /\ \A q \in Clients : q # p =>
          /\ op'[q] = op[q] /\ obj'[q] = obj[q] /\ seen'[q] = seen[q] /\ out'[q] = out[q]
          /\ pc'[q] = pc[q] \/ (pc[q] = "rwait" /\ pc'[q] = "enter")
    /\ \A o \in Objects :
          /\ objLock'[o] = objLock[o] \/ (objLock[o] = NoClient /\ objLock'[o] = p)
                                      \/ (objLock[o] = p /\ objLock'[o] = NoClient)
          /\ idx'[o] = idx[o] \/ objLock[o] = p

\* Then it is enough to look at p.
LEMMA EffectFrame ==
    ASSUME Typing, LockInv, EffectInv, NEW p \in Clients, Others(p), Effect(p)',
           \A o \in Objects : objLock'[o] = p => op'[p] \in SharedOps
    PROVE  EffectInv'
<1>1. ASSUME NEW o \in Objects, objLock'[o] # NoClient
      PROVE  op'[objLock'[o]] \in SharedOps
  <2>1. CASE objLock'[o] = p
    BY <2>1
  <2>2. CASE objLock'[o] # p
    <3>1. objLock'[o] = objLock[o]
      BY <1>1, <2>2 DEF Others
    <3>2. PICK q \in Clients : objLock[o] = q
      BY <1>1, <3>1 DEF Typing, TypeOK, LockTypes
    <3> QED BY <1>1, <2>2, <3>1, <3>2 DEF Others, EffectInv
  <2> QED BY <2>1, <2>2
<1>2. ASSUME NEW q \in Clients, q # p
      PROVE  Effect(q)'
  <2>1. /\ Effect(q)
        /\ op'[q] = op[q] /\ obj'[q] = obj[q] /\ seen'[q] = seen[q] /\ out'[q] = out[q]
    BY <1>2 DEF Others, EffectInv
  <2>2. pc'[q] \in SavePCs \cup {"finish"} => pc'[q] = pc[q]
    BY <1>2 DEF Others, SavePCs
  <2>3. ASSUME pc[q] \in SavePCs \cup {"finish"}, op[q] \in SharedOps
        PROVE  /\ obj[q] \in Objects
               /\ objLock[obj[q]] = q => objLock'[obj[q]] = q /\ idx'[obj[q]] = idx[obj[q]]
               /\ objLock[obj[q]] # q => objLock'[obj[q]] # q
               /\ pc[q] \in SavePCs => objLock[obj[q]] = q
    <3>1. obj[q] \in Objects
      BY <2>3 DEF Typing, CallInv, SharedOps
    <3>2. q # NoClient
      BY NoneAssumption
    <3>3. pc[q] \in SavePCs => objLock[obj[q]] = q
      BY <2>3 DEF LockInv, InObject
    <3> QED BY <1>2, <3>1, <3>2, <3>3 DEF Others
  <2>4. "delete" \in SharedOps
    BY DEF SharedOps
  <2> QED BY <2>1, <2>2, <2>3, <2>4 DEF Effect
<1> QED BY <1>1, <1>2 DEF EffectInv

\* A failure stays on record.
LEMMA FaultsKept ==
    ASSUME faults \in Seq(FaultKinds), [Next]_vars, NEW K, NoFault(K)'
    PROVE  NoFault(K)
<1> SUFFICES UNCHANGED faults \/ \E k \in FaultKinds : Fault(k)
  BY FaultsGrow
<1>1. ASSUME NEW p \in Clients, PutAddRefFail(p)
      PROVE  UNCHANGED faults \/ \E k \in FaultKinds : Fault(k)
  BY <1>1 DEF PutAddRefFail, FaultKinds
<1>2. ASSUME NEW p \in Clients, DeleteSubRefFail(p)
      PROVE  UNCHANGED faults \/ \E k \in FaultKinds : Fault(k)
  BY <1>2 DEF DeleteSubRefFail, FaultKinds
<1>3. ASSUME NEW p \in Clients, DeleteManifestFail(p)
      PROVE  UNCHANGED faults \/ \E k \in FaultKinds : Fault(k)
  BY <1>3 DEF DeleteManifestFail, FaultKinds
<1>4. ASSUME NEW p \in Clients, PersistFail(p)
      PROVE  UNCHANGED faults \/ \E k \in FaultKinds : Fault(k)
  BY <1>4 DEF PersistFail, FaultKinds
<1>5. ASSUME NEW p \in Clients, GCSkip(p)
      PROVE  UNCHANGED faults \/ \E k \in FaultKinds : Fault(k)
  BY <1>5 DEF GCSkip, FaultKinds
<1>6. ASSUME NEW p \in Clients, PersistIndex(p)
      PROVE  UNCHANGED faults \/ \E k \in FaultKinds : Fault(k)
  BY <1>6 DEF PersistIndex, FaultKinds
<1>7. ASSUME NEW p \in Clients, PersistRefs(p)
      PROVE  UNCHANGED faults \/ \E k \in FaultKinds : Fault(k)
  BY <1>7 DEF PersistRefs, FaultKinds
<1>8. ASSUME NEW p \in Clients,
             \/ CallShared(p) \/ CallExclusive(p) \/ RLock(p) \/ EnterClosed(p) \/ Enter(p)
             \/ Finish(p) \/ PutChunk(p) \/ PutLock(p) \/ PutBump(p) \/ PutUndo(p)
             \/ PutManifest(p) \/ PutAddRef(p) \/ PutIndex(p) \/ DeleteLock(p)
             \/ DeleteDec(p) \/ DeleteSubRef(p) \/ DeleteUnderflow(p) \/ DeleteIndex(p)
             \/ DeleteManifest(p) \/ PersistMemory(p) \/ PersistTruncate(p) \/ GetLookup(p)
             \/ GetLoad(p) \/ ReadChunk(p) \/ CloseReader(p) \/ WLockAnnounce(p)
             \/ WLockClosed(p) \/ GCBegin(p) \/ GCSweep(p) \/ GCEnd(p) \/ CloseBegin(p)
             \/ WUnlock(p) \/ CallFail(p) \/ GCFail(p)
      PROVE  UNCHANGED faults
  BY <1>8 DEF CallShared, CallExclusive, RLock, EnterClosed, Enter, Finish, PutChunk,
     PutLock, PutBump, PutUndo, PutManifest, PutAddRef, PutIndex, DeleteLock, DeleteDec,
     DeleteSubRef, DeleteUnderflow, DeleteIndex, DeleteManifest, PersistMemory,
     PersistTruncate, GetLookup, GetLoad, ReadChunk, CloseReader, WLockAnnounce,
     WLockClosed, GCBegin, GCSweep, GCEnd, CloseBegin, WUnlock, CallFail, GCFail
<1>9. CASE UNCHANGED vars
  BY <1>9 DEF vars
<1> QED BY <1>1, <1>2, <1>3, <1>4, <1>5, <1>6, <1>7, <1>8, <1>9 DEF Next, Call, Step,
   Failure, PutStep, DeleteStep, PersistStep, PersistBegin, GetStep, ExclStep

\* A call that goes on to answer an error had not changed the record yet.
LEMMA FailEffect ==
    ASSUME Typing, LockInv, RecordInv, NEW p \in Clients,
           pc[p] \in {"enter", "put_chunks", "get_load", "del_lock", "put_man", "put_refs",
                      "del_refs"},
           pc'[p] = "finish", out'[p] # "ok",
           idx' = idx, objLock' = objLock, seen' = seen, obj' = obj
    PROVE  Effect(p)'
<1> SUFFICES ASSUME op'[p] \in SharedOps, objLock[obj[p]] = p
             PROVE  idx[obj[p]] = seen[p]
  BY DEF Effect, SavePCs
<1>1. InObject(p)
  <2>1. obj[p] \in Objects /\ p # NoClient
    BY NoneAssumption DEF Typing, CallInv, PutPCs, DeletePCs, GetPCs, FencePCs
  <2> QED BY <2>1 DEF LockInv
<1>2. pc[p] \in {"put_man", "put_refs", "del_refs"}
  BY <1>1 DEF InObject, SavePCs
<1>3. idx[obj[p]] = Record(p)
  BY <1>1 DEF RecordInv
<1>4. CASE pc[p] = "del_refs"
  BY <1>3, <1>4 DEF Record, SavePCs
<1>5. CASE pc[p] \in {"put_man", "put_refs"}
  <2>1. Record(p) = 0
    BY <1>5 DEF Record, SavePCs
  <2> QED BY <1>3, <1>5, <2>1 DEF Typing, CursorInv
<1> QED BY <1>2, <1>4, <1>5


\* Unless a Put or Delete returns in a step, nobody is told anything.
LEMMA NoAnswer ==
    ASSUME acked \in [Objects -> Int], Acknowledge,
           \A q \in Clients : pc[q] = "finish" => pc'[q] = "finish"
    PROVE  acked' = acked
<1>1. \A o \in Objects : Answered("put", o) = {} /\ Answered("delete", o) = {}
  BY DEF Answered
<1>2. Cardinality({}) = 0
  BY FS_EmptySet
<1>3. acked' = [o \in Objects |-> acked[o]]
  <2>1. \A o \in Objects : acked[o] + Cardinality(Answered("put", o))
                                    - Cardinality(Answered("delete", o)) = acked[o]
    BY <1>1, <1>2
  <2> QED BY <2>1 DEF Acknowledge
<1> QED BY <1>3

\* What p's answer adds to what the callers of o were told.
ToldBy(p, o) ==
    IF out[p] # "ok" \/ obj[p] # o THEN 0
    ELSE IF op[p] = "put" THEN 1 ELSE IF op[p] = "delete" THEN -1 ELSE 0

\* If p's call returns, the callers of its object are told of it alone.
LEMMA OneAnswer ==
    ASSUME acked \in [Objects -> Int], Acknowledge, NEW p \in Clients,
           pc[p] = "finish", pc'[p] # "finish",
           \A q \in Clients : q # p => pc'[q] = pc[q]
    PROVE  \A o \in Objects : acked'[o] = acked[o] + ToldBy(p, o)
<1> SUFFICES ASSUME NEW o \in Objects
             PROVE  acked'[o] = acked[o] + ToldBy(p, o)
  OBVIOUS
<1>1. \A k \in {"put", "delete"} :
         Answered(k, o) = IF op[p] = k /\ obj[p] = o /\ out[p] = "ok" THEN {p} ELSE {}
  BY DEF Answered
<1>2. Cardinality({}) = 0 /\ Cardinality({p}) = 1
  BY FS_EmptySet, FS_Singleton
<1>3. \A k \in {"put", "delete"} :
         Cardinality(Answered(k, o)) =
            IF op[p] = k /\ obj[p] = o /\ out[p] = "ok" THEN 1 ELSE 0
  BY <1>1, <1>2
<1>4. acked'[o] = acked[o] + Cardinality(Answered("put", o))
                           - Cardinality(Answered("delete", o))
  BY DEF Acknowledge
<1>5. acked[o] \in Int
  OBVIOUS
<1> QED BY <1>3, <1>4, <1>5 DEF ToldBy

\* A step of p in which no call returns: p keeps the locks it holds and what it
\* read, and reads the record of an object it locks.
LEMMA ToldFrame ==
    ASSUME Typing, ToldInv, NEW p \in Clients, Others(p), acked' = acked,
           \A o \in Objects : objLock[o] = p => objLock'[o] = p /\ seen'[p] = seen[p],
           \A o \in Objects : objLock[o] = NoClient /\ objLock'[o] = p => seen'[p] = idx[o]
    PROVE  ToldInv'
<1> SUFFICES ASSUME NEW o \in Objects
             PROVE  acked'[o] = IF objLock'[o] = NoClient THEN idx'[o]
                                 ELSE seen'[objLock'[o]]
  BY DEF ToldInv
<1>1. p # NoClient
  BY NoneAssumption
<1>2. acked[o] = IF objLock[o] = NoClient THEN idx[o] ELSE seen[objLock[o]]
  BY DEF ToldInv
<1>3. CASE objLock[o] = NoClient
  BY <1>1, <1>2, <1>3 DEF Others
<1>4. CASE objLock[o] = p
  BY <1>1, <1>2, <1>4
<1>5. CASE objLock[o] # NoClient /\ objLock[o] # p
  <2>1. PICK q \in Clients : objLock[o] = q
    BY <1>5 DEF Typing, TypeOK, LockTypes
  <2> QED BY <1>2, <1>5, <2>1 DEF Others
<1> QED BY <1>3, <1>4, <1>5 DEF ToldBy


\* Every step, unless a file operation that counts for durability failed.
LEMMA ToldStep ==
    ASSUME Typing, LockInv, RecordInv, LagInv, EffectInv, ToldInv,
           acked \in [Objects -> Int],
           NoFault(DurableKinds), NoFault(DurableKinds)', Next, Acknowledge
    PROVE  EffectInv' /\ ToldInv'
<1> USE DEF Typing, TypeOK
<1>1. ASSUME NEW p \in Clients, Finish(p) PROVE EffectInv' /\ ToldInv'
  <2>1. Others(p)
    BY <1>1 DEF Others, Finish, Goto, Answer, storeVars, fileVars, diskVars, CallTypes,
       LockTypes, StoreTypes
  <2>2. \A o \in Objects : objLock'[o] = p => op'[p] \in SharedOps
    BY <1>1, NoneAssumption DEF Finish, Goto, Answer, storeVars, fileVars, diskVars,
       EffectInv, SharedOps, CallTypes, LockTypes, CallInv, FencePCs, PutPCs, DeletePCs,
       GetPCs, SavePCs, ExclPCs, LockInv, InObject
  <2>3. Effect(p)'
    BY <1>1, NoneAssumption DEF Finish, Goto, Answer, storeVars, fileVars, diskVars,
       Effect, EffectInv, CallInv, FencePCs, PutPCs, DeletePCs, GetPCs, SavePCs, ExclPCs,
       CursorInv, SharedOps, ExclOps, CallTypes, LockTypes, StoreTypes, LockInv, RecordInv,
       Record, InObject
  <2>4. EffectInv'
    BY <2>1, <2>2, <2>3, EffectFrame DEF Typing, TypeOK
  <2>5. /\ \A o \in Objects : objLock[o] = p => o = obj[p] /\ p # NoClient
        /\ \A o \in Objects : objLock'[o] = IF objLock[o] = p THEN NoClient ELSE objLock[o]
        /\ idx' = idx /\ pc[p] = "finish" /\ pc'[p] # "finish"
        /\ \A q \in Clients : q # p => pc'[q] = pc[q] /\ seen'[q] = seen[q]
    BY <1>1, NoneAssumption DEF Finish, Goto, storeVars, LockInv, CallTypes
  <2>6. \A o \in Objects : acked'[o] = acked[o] + ToldBy(p, o)
    BY <2>5, OneAnswer
  <2>7. ASSUME NEW o \in Objects
        PROVE  acked'[o] = IF objLock'[o] = NoClient THEN idx'[o]
                                 ELSE seen'[objLock'[o]]
    <3>1. CASE objLock[o] = p
      <4>1. /\ o = obj[p] /\ op[p] \in SharedOps
            /\ acked[o] = seen[p] /\ objLock'[o] = NoClient
        BY <2>5, <3>1 DEF EffectInv, ToldInv
      <4>2. Effect(p)
        BY DEF EffectInv
      <4>3. idx[o] \in Nat /\ seen[p] \in Nat
        BY DEF StoreTypes, CallTypes
      <4>4. CASE out[p] = "ok"
        BY <2>5, <2>6, <3>1, <4>1, <4>2, <4>3, <4>4 DEF Effect, SharedOps, ToldBy
      <4>5. CASE out[p] # "ok"
        BY <2>5, <2>6, <3>1, <4>1, <4>2, <4>3, <4>5 DEF Effect, ToldBy
      <4> QED BY <4>4, <4>5
    <3>2. CASE objLock[o] # p
      <4>1. acked'[o] = acked[o]
        <5>1. obj[p] = o /\ op[p] \in SharedOps => out[p] # "ok"
          BY <2>5, <3>2 DEF EffectInv, Effect
        <5> QED BY <2>6, <5>1 DEF SharedOps, ToldBy
      <4>2. objLock'[o] = objLock[o]
        BY <2>5, <3>2
      <4>3. CASE objLock[o] = NoClient
        BY <2>5, <4>1, <4>2, <4>3 DEF ToldInv
      <4>4. CASE objLock[o] # NoClient
        <5>1. PICK q \in Clients : objLock[o] = q
          BY <4>4 DEF LockTypes
        <5> QED BY <2>5, <3>2, <4>1, <4>2, <4>4, <5>1 DEF ToldInv
      <4> QED BY <4>3, <4>4
    <3> QED BY <3>1, <3>2
  <2> QED BY <2>7, <2>4 DEF ToldInv
<1>2. ASSUME NEW p \in Clients, DeleteManifest(p) PROVE EffectInv' /\ ToldInv'
  <2>1. InObject(p) /\ obj[p] \in Objects /\ objLock[obj[p]] = p
    BY <1>2, OwnLock DEF DeleteManifest, InObject, Typing, TypeOK
  <2>2. Others(p)
    BY <2>1, <1>2 DEF Others, DeleteManifest, Goto, storeVars, diskVars, lockVars,
       callVars, CallTypes, LockTypes, StoreTypes
  <2>3. \A o \in Objects : objLock'[o] = p => op'[p] \in SharedOps
    BY <1>2, NoneAssumption DEF DeleteManifest, Goto, storeVars, diskVars, lockVars,
       callVars, EffectInv, SharedOps, CallTypes, LockTypes, CallInv, FencePCs, PutPCs,
       DeletePCs, GetPCs, SavePCs, ExclPCs, LockInv, InObject
  <2>4. idx[obj[p]] = Record(p) /\ seen[p] = 1
    BY <2>1, <1>2 DEF RecordInv, CursorInv, DeleteManifest
  <2>5. Effect(p)'
    BY <1>2, <2>4 DEF DeleteManifest, Goto, storeVars, diskVars, lockVars, callVars,
       Effect, Record, CallTypes, SavePCs
  <2>6. EffectInv'
    BY <2>2, <2>3, <2>5, EffectFrame DEF Typing, TypeOK
  <2>7. acked' = acked
    <3>1. \A q \in Clients : pc[q] = "finish" => pc'[q] = "finish"
      BY <1>2 DEF DeleteManifest, Goto, storeVars, diskVars, lockVars, callVars, CallTypes
    <3> QED BY <3>1, NoAnswer
  <2>8. /\ \A o \in Objects : objLock[o] = p => objLock'[o] = p /\ seen'[p] = seen[p]
        /\ \A o \in Objects : objLock[o] = NoClient /\ objLock'[o] = p => seen'[p] = idx[o]
    BY <2>1, <1>2, NoneAssumption DEF DeleteManifest, Goto, storeVars, diskVars, lockVars,
       callVars, LockInv, InObject, SavePCs, CallTypes, LockTypes
  <2>9. ToldInv'
    BY <2>2, <2>7, <2>8, ToldFrame DEF Typing, TypeOK
  <2> QED BY <2>6, <2>9
<1>3. ASSUME NEW p \in Clients, PutUndo(p) PROVE EffectInv' /\ ToldInv'
  <2>1. pc[p] # "put_undo"
    BY DiskAssumption DEF LagInv, DurableKinds
  <2> QED BY <1>3, <2>1 DEF PutUndo
<1>4. ASSUME NEW p \in Clients, PersistMemory(p) PROVE EffectInv' /\ ToldInv'
  BY <1>4, DiskAssumption DEF PersistMemory
<1>5. ASSUME NEW p \in Clients, PersistFail(p) PROVE EffectInv' /\ ToldInv'
  <2>1. ~NoFault(DurableKinds)'
    BY <1>5, FaultSeen DEF PersistFail, Fault, StoreTypes, DurableKinds
  <2> QED BY <2>1
<1>6. ASSUME NEW p \in Clients, DeleteManifestFail(p) PROVE EffectInv' /\ ToldInv'
  <2>1. ~NoFault(DurableKinds)'
    BY <1>6, FaultSeen DEF DeleteManifestFail, Fault, StoreTypes, DurableKinds
  <2> QED BY <2>1
<1>7. ASSUME NEW p \in Clients,
             PutLock(p) \/ DeleteLock(p)
      PROVE  EffectInv' /\ ToldInv'
  <2>1. Others(p)
    BY <1>7 DEF Others, PutLock, DeleteLock, Goto, storeVars, fileVars, diskVars, Answer,
       CallTypes, LockTypes, StoreTypes
  <2>2. \A o \in Objects : objLock'[o] = p => op'[p] \in SharedOps
    BY <1>7, NoneAssumption DEF PutLock, DeleteLock, Goto, storeVars, fileVars, diskVars,
       Answer, EffectInv, SharedOps, CallTypes, LockTypes, CallInv, FencePCs, PutPCs,
       DeletePCs, GetPCs, SavePCs, ExclPCs, LockInv, InObject
  <2>3. Effect(p)'
    BY <1>7, NoneAssumption DEF PutLock, DeleteLock, Goto, storeVars, fileVars, diskVars,
       Answer, Effect, EffectInv, CallInv, FencePCs, PutPCs, DeletePCs, GetPCs, SavePCs,
       ExclPCs, CursorInv, SharedOps, ExclOps, CallTypes, LockTypes, StoreTypes, LockInv,
       RecordInv, Record, InObject
  <2>4. EffectInv'
    BY <2>1, <2>2, <2>3, EffectFrame DEF Typing, TypeOK
  <2>5. acked' = acked
    <3>1. \A q \in Clients : pc[q] = "finish" => pc'[q] = "finish"
      BY <1>7 DEF PutLock, DeleteLock, Goto, storeVars, fileVars, diskVars, Answer,
         CallTypes
    <3> QED BY <3>1, NoAnswer
  <2>6. /\ \A o \in Objects : objLock[o] = p => objLock'[o] = p /\ seen'[p] = seen[p]
        /\ \A o \in Objects : objLock[o] = NoClient /\ objLock'[o] = p => seen'[p] = idx[o]
    BY <1>7, NoneAssumption DEF PutLock, DeleteLock, Goto, storeVars, fileVars, diskVars,
       Answer, LockInv, InObject, SavePCs, CallTypes, LockTypes
  <2>7. ToldInv'
    BY <2>1, <2>5, <2>6, ToldFrame DEF Typing, TypeOK
  <2> QED BY <2>4, <2>7
<1>8. ASSUME NEW p \in Clients,
             PutBump(p) \/ PutIndex(p) \/ DeleteDec(p) \/ DeleteIndex(p)
      PROVE  EffectInv' /\ ToldInv'
  <2>1. InObject(p) /\ obj[p] \in Objects /\ objLock[obj[p]] = p
    BY <1>8, OwnLock DEF PutBump, PutIndex, DeleteDec, DeleteIndex, InObject, Typing, TypeOK
  <2>2. Others(p)
    BY <2>1, <1>8 DEF Others, PutBump, PutIndex, DeleteDec, DeleteIndex, Goto, fileVars,
       diskVars, lockVars, callVars, CallTypes, LockTypes, StoreTypes
  <2>3. \A o \in Objects : objLock'[o] = p => op'[p] \in SharedOps
    BY <1>8, NoneAssumption DEF PutBump, PutIndex, DeleteDec, DeleteIndex, Goto, fileVars,
       diskVars, lockVars, callVars, EffectInv, SharedOps, CallTypes, LockTypes, CallInv,
       FencePCs, PutPCs, DeletePCs, GetPCs, SavePCs, ExclPCs, LockInv, InObject
  <2>4. Effect(p)'
    BY <2>1, <1>8, NoneAssumption DEF PutBump, PutIndex, DeleteDec, DeleteIndex, Goto,
       fileVars, diskVars, lockVars, callVars, Effect, EffectInv, CallInv, FencePCs,
       PutPCs, DeletePCs, GetPCs, SavePCs, ExclPCs, CursorInv, SharedOps, ExclOps,
       CallTypes, LockTypes, StoreTypes, LockInv, RecordInv, Record, InObject
  <2>5. EffectInv'
    BY <2>2, <2>3, <2>4, EffectFrame DEF Typing, TypeOK
  <2>6. acked' = acked
    <3>1. \A q \in Clients : pc[q] = "finish" => pc'[q] = "finish"
      BY <1>8 DEF PutBump, PutIndex, DeleteDec, DeleteIndex, Goto, fileVars, diskVars,
         lockVars, callVars, CallTypes
    <3> QED BY <3>1, NoAnswer
  <2>7. /\ \A o \in Objects : objLock[o] = p => objLock'[o] = p /\ seen'[p] = seen[p]
        /\ \A o \in Objects : objLock[o] = NoClient /\ objLock'[o] = p => seen'[p] = idx[o]
    BY <2>1, <1>8, NoneAssumption DEF PutBump, PutIndex, DeleteDec, DeleteIndex, Goto,
       fileVars, diskVars, lockVars, callVars, LockInv, InObject, SavePCs, CallTypes,
       LockTypes
  <2>8. ToldInv'
    BY <2>2, <2>6, <2>7, ToldFrame DEF Typing, TypeOK
  <2> QED BY <2>5, <2>8
<1>9. ASSUME NEW p \in Clients,
             \/ EnterClosed(p) \/ DeleteUnderflow(p) \/ CallFail(p) \/ PutAddRefFail(p)
             \/ DeleteSubRefFail(p)
      PROVE  EffectInv' /\ ToldInv'
  <2>1. Others(p)
    BY <1>9 DEF Others, EnterClosed, DeleteUnderflow, CallFail, PutAddRefFail,
       DeleteSubRefFail, Goto, Answer, storeVars, fileVars, diskVars, lockVars, Fault, Rec,
       CallTypes, LockTypes, StoreTypes
  <2>2. \A o \in Objects : objLock'[o] = p => op'[p] \in SharedOps
    BY <1>9, NoneAssumption DEF EnterClosed, DeleteUnderflow, CallFail, PutAddRefFail,
       DeleteSubRefFail, Goto, Answer, storeVars, fileVars, diskVars, lockVars, Fault, Rec,
       EffectInv, SharedOps, CallTypes, LockTypes, CallInv, FencePCs, PutPCs, DeletePCs,
       GetPCs, SavePCs, ExclPCs, LockInv, InObject
  <2>3. Effect(p)'
    BY <1>9, FailEffect DEF EnterClosed, DeleteUnderflow, CallFail, PutAddRefFail,
       DeleteSubRefFail, Goto, Answer, storeVars, fileVars, diskVars, lockVars, Fault, Rec,
       CallTypes, Typing, TypeOK
  <2>4. EffectInv'
    BY <2>1, <2>2, <2>3, EffectFrame DEF Typing, TypeOK
  <2>5. acked' = acked
    <3>1. \A q \in Clients : pc[q] = "finish" => pc'[q] = "finish"
      BY <1>9 DEF EnterClosed, DeleteUnderflow, CallFail, PutAddRefFail, DeleteSubRefFail,
         Goto, Answer, storeVars, fileVars, diskVars, lockVars, Fault, Rec, CallTypes
    <3> QED BY <3>1, NoAnswer
  <2>6. /\ \A o \in Objects : objLock[o] = p => objLock'[o] = p /\ seen'[p] = seen[p]
        /\ \A o \in Objects : objLock[o] = NoClient /\ objLock'[o] = p => seen'[p] = idx[o]
    BY <1>9, NoneAssumption DEF EnterClosed, DeleteUnderflow, CallFail, PutAddRefFail,
       DeleteSubRefFail, Goto, Answer, storeVars, fileVars, diskVars, lockVars, Fault, Rec,
       LockInv, InObject, SavePCs, CallTypes, LockTypes
  <2>7. ToldInv'
    BY <2>1, <2>5, <2>6, ToldFrame DEF Typing, TypeOK
  <2> QED BY <2>4, <2>7
<1>10. ASSUME NEW p \in Clients,
             CallShared(p) \/ CallExclusive(p) \/ RLock(p) \/ Enter(p) \/ WUnlock(p)
      PROVE  EffectInv' /\ ToldInv'
  <2>1. Others(p)
    BY <1>10 DEF Others, CallShared, CallExclusive, RLock, Enter, WUnlock, Goto, Putting,
       storeVars, fileVars, diskVars, lockVars, callVars, Answer, CallTypes, LockTypes,
       StoreTypes
  <2>2. \A o \in Objects : objLock'[o] = p => op'[p] \in SharedOps
    BY <1>10, NoneAssumption DEF CallShared, CallExclusive, RLock, Enter, WUnlock, Goto,
       Putting, storeVars, fileVars, diskVars, lockVars, callVars, Answer, EffectInv,
       SharedOps, CallTypes, LockTypes, CallInv, FencePCs, PutPCs, DeletePCs, GetPCs,
       SavePCs, ExclPCs, LockInv, InObject
  <2>3. Effect(p)'
    BY <1>10, NoneAssumption DEF CallShared, CallExclusive, RLock, Enter, WUnlock, Goto,
       Putting, storeVars, fileVars, diskVars, lockVars, callVars, Answer, Effect,
       EffectInv, CallInv, FencePCs, PutPCs, DeletePCs, GetPCs, SavePCs, ExclPCs,
       CursorInv, SharedOps, ExclOps, CallTypes, LockTypes, StoreTypes, LockInv, RecordInv,
       Record, InObject
  <2>4. EffectInv'
    BY <2>1, <2>2, <2>3, EffectFrame DEF Typing, TypeOK
  <2>5. acked' = acked
    <3>1. \A q \in Clients : pc[q] = "finish" => pc'[q] = "finish"
      BY <1>10 DEF CallShared, CallExclusive, RLock, Enter, WUnlock, Goto, Putting,
         storeVars, fileVars, diskVars, lockVars, callVars, Answer, CallTypes
    <3> QED BY <3>1, NoAnswer
  <2>6. /\ \A o \in Objects : objLock[o] = p => objLock'[o] = p /\ seen'[p] = seen[p]
        /\ \A o \in Objects : objLock[o] = NoClient /\ objLock'[o] = p => seen'[p] = idx[o]
    BY <1>10, NoneAssumption DEF CallShared, CallExclusive, RLock, Enter, WUnlock, Goto,
       Putting, storeVars, fileVars, diskVars, lockVars, callVars, Answer, LockInv,
       InObject, SavePCs, CallTypes, LockTypes
  <2>7. ToldInv'
    BY <2>1, <2>5, <2>6, ToldFrame DEF Typing, TypeOK
  <2> QED BY <2>4, <2>7
<1>11. ASSUME NEW p \in Clients,
             PutChunk(p) \/ PutManifest(p) \/ PutAddRef(p) \/ DeleteSubRef(p)
      PROVE  EffectInv' /\ ToldInv'
  <2>1. Others(p)
    BY <1>11 DEF Others, PutChunk, PutManifest, PutAddRef, DeleteSubRef, storeVars,
       diskVars, lockVars, Goto, Log, Rec, fileVars, CallTypes, LockTypes, StoreTypes
  <2>2. \A o \in Objects : objLock'[o] = p => op'[p] \in SharedOps
    BY <1>11, NoneAssumption DEF PutChunk, PutManifest, PutAddRef, DeleteSubRef, storeVars,
       diskVars, lockVars, Goto, Log, Rec, fileVars, EffectInv, SharedOps, CallTypes,
       LockTypes, CallInv, FencePCs, PutPCs, DeletePCs, GetPCs, SavePCs, ExclPCs, LockInv,
       InObject
  <2>3. Effect(p)'
    BY <1>11, NoneAssumption DEF PutChunk, PutManifest, PutAddRef, DeleteSubRef, storeVars,
       diskVars, lockVars, Goto, Log, Rec, fileVars, Effect, EffectInv, CallInv, FencePCs,
       PutPCs, DeletePCs, GetPCs, SavePCs, ExclPCs, CursorInv, SharedOps, ExclOps,
       CallTypes, LockTypes, StoreTypes, LockInv, RecordInv, Record, InObject
  <2>4. EffectInv'
    BY <2>1, <2>2, <2>3, EffectFrame DEF Typing, TypeOK
  <2>5. acked' = acked
    <3>1. \A q \in Clients : pc[q] = "finish" => pc'[q] = "finish"
      BY <1>11 DEF PutChunk, PutManifest, PutAddRef, DeleteSubRef, storeVars, diskVars,
         lockVars, Goto, Log, Rec, fileVars, CallTypes
    <3> QED BY <3>1, NoAnswer
  <2>6. /\ \A o \in Objects : objLock[o] = p => objLock'[o] = p /\ seen'[p] = seen[p]
        /\ \A o \in Objects : objLock[o] = NoClient /\ objLock'[o] = p => seen'[p] = idx[o]
    BY <1>11, NoneAssumption DEF PutChunk, PutManifest, PutAddRef, DeleteSubRef, storeVars,
       diskVars, lockVars, Goto, Log, Rec, fileVars, LockInv, InObject, SavePCs, CallTypes,
       LockTypes
  <2>7. ToldInv'
    BY <2>1, <2>5, <2>6, ToldFrame DEF Typing, TypeOK
  <2> QED BY <2>4, <2>7
<1>12. ASSUME NEW p \in Clients,
             PersistIndex(p) \/ PersistRefs(p) \/ PersistTruncate(p)
      PROVE  EffectInv' /\ ToldInv'
  <2>1. Others(p)
    BY <1>12 DEF Others, PersistIndex, PersistRefs, PersistTruncate, Goto, Fault,
       storeVars, fileVars, callVars, lockVars, Answer, AfterPersist, CallTypes, LockTypes,
       StoreTypes
  <2>2. \A o \in Objects : objLock'[o] = p => op'[p] \in SharedOps
    BY <1>12, NoneAssumption DEF PersistIndex, PersistRefs, PersistTruncate, Goto, Fault,
       storeVars, fileVars, callVars, lockVars, Answer, AfterPersist, EffectInv, SharedOps,
       CallTypes, LockTypes, CallInv, FencePCs, PutPCs, DeletePCs, GetPCs, SavePCs,
       ExclPCs, LockInv, InObject
  <2>3. Effect(p)'
    BY <1>12, NoneAssumption DEF PersistIndex, PersistRefs, PersistTruncate, Goto, Fault,
       storeVars, fileVars, callVars, lockVars, Answer, AfterPersist, Effect, EffectInv,
       CallInv, FencePCs, PutPCs, DeletePCs, GetPCs, SavePCs, ExclPCs, CursorInv,
       SharedOps, ExclOps, CallTypes, LockTypes, StoreTypes, LockInv, RecordInv, Record,
       InObject
  <2>4. EffectInv'
    BY <2>1, <2>2, <2>3, EffectFrame DEF Typing, TypeOK
  <2>5. acked' = acked
    <3>1. \A q \in Clients : pc[q] = "finish" => pc'[q] = "finish"
      BY <1>12 DEF PersistIndex, PersistRefs, PersistTruncate, Goto, Fault, storeVars,
         fileVars, callVars, lockVars, Answer, AfterPersist, CallTypes
    <3> QED BY <3>1, NoAnswer
  <2>6. /\ \A o \in Objects : objLock[o] = p => objLock'[o] = p /\ seen'[p] = seen[p]
        /\ \A o \in Objects : objLock[o] = NoClient /\ objLock'[o] = p => seen'[p] = idx[o]
    BY <1>12, NoneAssumption DEF PersistIndex, PersistRefs, PersistTruncate, Goto, Fault,
       storeVars, fileVars, callVars, lockVars, Answer, AfterPersist, LockInv, InObject,
       SavePCs, CallTypes, LockTypes
  <2>7. ToldInv'
    BY <2>1, <2>5, <2>6, ToldFrame DEF Typing, TypeOK
  <2> QED BY <2>4, <2>7
<1>13. ASSUME NEW p \in Clients,
             \/ GetLookup(p) \/ GetLoad(p) \/ ReadChunk(p) \/ CloseReader(p)
             \/ WLockAnnounce(p) \/ WLockClosed(p) \/ GCBegin(p) \/ GCSweep(p) \/ GCEnd(p)
             \/ CloseBegin(p) \/ GCFail(p) \/ GCSkip(p)
      PROVE  EffectInv' /\ ToldInv'
  <2>1. Others(p)
    BY <1>13 DEF Others, GetLookup, GetLoad, ReadChunk, CloseReader, WLockAnnounce,
       WLockClosed, GCBegin, GCSweep, GCEnd, CloseBegin, GCFail, GCSkip, Goto, Answer,
       storeVars, fileVars, diskVars, lockVars, callVars, Fault, CallTypes, LockTypes,
       StoreTypes
  <2>2. \A o \in Objects : objLock'[o] = p => op'[p] \in SharedOps
    BY <1>13, NoneAssumption DEF GetLookup, GetLoad, ReadChunk, CloseReader, WLockAnnounce,
       WLockClosed, GCBegin, GCSweep, GCEnd, CloseBegin, GCFail, GCSkip, Goto, Answer,
       storeVars, fileVars, diskVars, lockVars, callVars, Fault, EffectInv, SharedOps,
       CallTypes, LockTypes, CallInv, FencePCs, PutPCs, DeletePCs, GetPCs, SavePCs,
       ExclPCs, LockInv, InObject
  <2>3. Effect(p)'
    BY <1>13, NoneAssumption DEF GetLookup, GetLoad, ReadChunk, CloseReader, WLockAnnounce,
       WLockClosed, GCBegin, GCSweep, GCEnd, CloseBegin, GCFail, GCSkip, Goto, Answer,
       storeVars, fileVars, diskVars, lockVars, callVars, Fault, Effect, EffectInv,
       CallInv, FencePCs, PutPCs, DeletePCs, GetPCs, SavePCs, ExclPCs, CursorInv,
       SharedOps, ExclOps, CallTypes, LockTypes, StoreTypes, LockInv, RecordInv, Record,
       InObject
  <2>4. EffectInv'
    BY <2>1, <2>2, <2>3, EffectFrame DEF Typing, TypeOK
  <2>5. acked' = acked
    <3>1. \A q \in Clients : pc[q] = "finish" => pc'[q] = "finish"
      BY <1>13 DEF GetLookup, GetLoad, ReadChunk, CloseReader, WLockAnnounce, WLockClosed,
         GCBegin, GCSweep, GCEnd, CloseBegin, GCFail, GCSkip, Goto, Answer, storeVars,
         fileVars, diskVars, lockVars, callVars, Fault, CallTypes
    <3> QED BY <3>1, NoAnswer
  <2>6. /\ \A o \in Objects : objLock[o] = p => objLock'[o] = p /\ seen'[p] = seen[p]
        /\ \A o \in Objects : objLock[o] = NoClient /\ objLock'[o] = p => seen'[p] = idx[o]
    BY <1>13, NoneAssumption DEF GetLookup, GetLoad, ReadChunk, CloseReader, WLockAnnounce,
       WLockClosed, GCBegin, GCSweep, GCEnd, CloseBegin, GCFail, GCSkip, Goto, Answer,
       storeVars, fileVars, diskVars, lockVars, callVars, Fault, LockInv, InObject,
       SavePCs, CallTypes, LockTypes
  <2>7. ToldInv'
    BY <2>1, <2>5, <2>6, ToldFrame DEF Typing, TypeOK
  <2> QED BY <2>4, <2>7
<1> QED BY <1>1, <1>2, <1>3, <1>4, <1>5, <1>6, <1>7, <1>8, <1>9, <1>10, <1>11, <1>12,
   <1>13 DEF Next, Call, Step, Failure, PutStep, DeleteStep, PersistStep, PersistBegin,
   GetStep, ExclStep

\* A step keeps every object that is not struck either complete or not indexed.
LEMMA StruckStep ==
    ASSUME Typing, LockInv, RecordInv, LagInv, StruckInv, up = "up", NoFault(DurableKinds),
           Next, UNCHANGED <<up, struck>>
    PROVE  StruckInv'
<1> USE DEF Typing, TypeOK
<1> SUFFICES ASSUME NEW x \in Objects, x \notin manifests', x \notin struck
             PROVE  idx'[x] = 0
  BY DEF StruckInv
<1>1. x \notin manifests => idx[x] = 0
  BY DEF StruckInv
<1>2. ASSUME NEW p \in Clients, PutBump(p) PROVE idx'[x] = 0
  <2>1. InObject(p) /\ idx[obj[p]] = Record(p) /\ obj[p] \in Objects
    BY <1>2, OwnLock DEF PutBump, InObject, RecordInv, Typing, TypeOK
  <2>2. idx[obj[p]] > 0 /\ manifests' = manifests
    BY <1>2, <2>1 DEF PutBump, Record, SavePCs, CursorInv, CallTypes, fileVars
  <2> QED BY <1>1, <1>2, <2>1, <2>2 DEF PutBump, StoreTypes
<1>3. ASSUME NEW p \in Clients, PutIndex(p) PROVE idx'[x] = 0
  <2>1. InObject(p) /\ idx[obj[p]] = Record(p) /\ obj[p] \in Objects
    BY <1>3, OwnLock DEF PutIndex, InObject, RecordInv, Typing, TypeOK
  <2>2. obj[p] \in manifests /\ manifests' = manifests
    BY <1>3 DEF PutIndex, RecordInv, fileVars
  <2> QED BY <1>1, <1>3, <2>1, <2>2 DEF PutIndex, StoreTypes
<1>4. ASSUME NEW p \in Clients, DeleteDec(p) PROVE idx'[x] = 0
  <2>1. InObject(p) /\ idx[obj[p]] = Record(p) /\ obj[p] \in Objects
    BY <1>4, OwnLock DEF DeleteDec, InObject, RecordInv, Typing, TypeOK
  <2>2. idx[obj[p]] > 0 /\ manifests' = manifests
    BY <1>4, <2>1 DEF DeleteDec, Record, SavePCs, CursorInv, CallTypes, fileVars
  <2> QED BY <1>1, <1>4, <2>1, <2>2 DEF DeleteDec, StoreTypes
<1>5. ASSUME NEW p \in Clients, DeleteIndex(p) PROVE idx'[x] = 0
  <2>1. InObject(p) /\ idx[obj[p]] = Record(p) /\ obj[p] \in Objects
    BY <1>5, OwnLock DEF DeleteIndex, InObject, RecordInv, Typing, TypeOK
  <2> QED BY <1>1, <1>5, <2>1 DEF DeleteIndex, StoreTypes, fileVars
<1>6. ASSUME NEW p \in Clients, DeleteManifest(p) PROVE idx'[x] = 0
  <2>1. InObject(p) /\ idx[obj[p]] = Record(p) /\ obj[p] \in Objects
    BY <1>6, OwnLock DEF DeleteManifest, InObject, RecordInv, Typing, TypeOK
  <2>2. idx[obj[p]] = 0 /\ idx' = idx
    BY <1>6, <2>1 DEF DeleteManifest, Record, SavePCs, storeVars
  <2> QED BY <1>1, <1>6, <2>2 DEF DeleteManifest
<1>7. ASSUME NEW p \in Clients, PutUndo(p) PROVE idx'[x] = 0
  BY <1>7, DiskAssumption DEF PutUndo, LagInv, DurableKinds
<1>8. ASSUME NEW p \in Clients,
             \/ CallShared(p) \/ CallExclusive(p) \/ RLock(p) \/ EnterClosed(p) \/ Enter(p)
             \/ Finish(p) \/ PutChunk(p) \/ PutLock(p) \/ PutManifest(p) \/ PutAddRef(p)
             \/ DeleteLock(p) \/ DeleteSubRef(p) \/ DeleteUnderflow(p) \/ PersistMemory(p)
             \/ PersistIndex(p) \/ PersistRefs(p) \/ PersistTruncate(p) \/ GetLookup(p)
             \/ GetLoad(p) \/ ReadChunk(p) \/ CloseReader(p) \/ WLockAnnounce(p)
             \/ WLockClosed(p) \/ GCBegin(p) \/ GCSweep(p) \/ GCEnd(p) \/ CloseBegin(p)
             \/ WUnlock(p) \/ CallFail(p) \/ PutAddRefFail(p) \/ DeleteSubRefFail(p)
             \/ DeleteManifestFail(p) \/ PersistFail(p) \/ GCFail(p) \/ GCSkip(p)
      PROVE  idx'[x] = 0
  <2>1. idx' = idx /\ manifests \subseteq manifests'
    BY <1>8 DEF CallShared, CallExclusive, RLock, EnterClosed, Enter, Finish, PutChunk,
       PutLock, PutManifest, PutAddRef, DeleteLock, DeleteSubRef, DeleteUnderflow,
       PersistMemory, PersistIndex, PersistRefs, PersistTruncate, GetLookup, GetLoad,
       ReadChunk, CloseReader, WLockAnnounce, WLockClosed, GCBegin, GCSweep, GCEnd,
       CloseBegin, WUnlock, CallFail, PutAddRefFail, DeleteSubRefFail, DeleteManifestFail,
       PersistFail, GCFail, GCSkip, storeVars, fileVars
  <2> QED BY <1>1, <2>1
<1> QED BY <1>2, <1>3, <1>4, <1>5, <1>6, <1>7, <1>8 DEF Next, Call, Step, Failure, PutStep,
   DeleteStep, PersistStep, PersistBegin, GetStep, ExclStep

-----------------------------------------------------------------------------
(* The invariant through runs, crashes and Open. *)

\* The calls of a kind on an object are finitely many.
LEMMA PendingCount ==
    ASSUME NEW k, NEW o
    PROVE  /\ Pending(k, o) \in Nat
           /\ \A p \in Clients : op[p] = k /\ obj[p] = o => Pending(k, o) >= 1
<1> DEFINE S == {p \in Clients : op[p] = k /\ obj[p] = o}
<1>1. IsFiniteSet(S)
  BY ClientsAssumption, FS_Subset
<1>2. Cardinality(S) \in Nat
  BY <1>1, FS_CardinalityType
<1>3. ASSUME NEW p \in S
      PROVE  Cardinality(S) # 0
  BY <1>1, FS_EmptySet
<1> QED BY <1>2, <1>3 DEF Pending

\* What callers have been told stays a number.
LEMMA AckedTyped ==
    ASSUME acked \in [Objects -> Int], Acknowledge
    PROVE  acked' \in [Objects -> Int]
<1>1. ASSUME NEW k, NEW o \in Objects
      PROVE  Cardinality(Answered(k, o)) \in Nat
  <2>1. Answered(k, o) \subseteq Clients
    BY DEF Answered
  <2>2. IsFiniteSet(Answered(k, o))
    BY <2>1, ClientsAssumption, FS_Subset
  <2> QED BY <2>2, FS_CardinalityType
<1>2. \A o \in Objects : acked[o] + Cardinality(Answered("put", o))
                            - Cardinality(Answered("delete", o)) \in Int
  BY <1>1
<1> QED BY <1>2 DEF Acknowledge

\* A store just opened on an empty root.
LEMMA CrashInvInit == CrashInit => CrashInv
<1> SUFFICES ASSUME CrashInit PROVE CrashInv
  OBVIOUS
<1>1. Typing /\ LockInv /\ RecordInv
  BY TypingInit, DisciplineInit DEF CrashInit
<1>2. CrashTypes
  BY DEF CrashInit, CrashTypes
<1>3. up = "up" /\ LagInv
  BY DEF CrashInit, Init, LagInv
<1>4. StruckInv /\ ToldInv
  BY DEF CrashInit, Init, StruckInv, ToldInv
<1>5. EffectInv
  BY DEF CrashInit, Init, EffectInv, Effect, SavePCs
<1> QED BY <1>1, <1>2, <1>3, <1>4, <1>5 DEF CrashInv

\* A step of the running store.
LEMMA RunStep == CrashInv /\ Run => CrashInv'
<1> SUFFICES ASSUME CrashInv, Run PROVE CrashInv'
  OBVIOUS
<1>1. up = "up" /\ up' = "up" /\ struck' = struck /\ Next /\ Acknowledge
  BY DEF Run
<1>2. Typing' /\ LockInv' /\ RecordInv' /\ LagInv'
  BY <1>1, TypingStep, LockStep, RecordStep, LagStep DEF CrashInv
<1>3. CrashTypes'
  BY <1>1, AckedTyped DEF CrashInv, CrashTypes
<1>4. ASSUME NoFault(DurableKinds)'
      PROVE  StruckInv' /\ ToldInv' /\ EffectInv'
  <2>1. NoFault(DurableKinds)
    BY <1>1, <1>4, FaultsKept DEF CrashInv, Typing, TypeOK, StoreTypes
  <2>2. StruckInv /\ ToldInv /\ EffectInv /\ LagInv /\ acked \in [Objects -> Int]
    BY <1>1, <2>1 DEF CrashInv, CrashTypes
  <2>3. ToldInv' /\ EffectInv'
    BY <1>1, <1>4, <2>1, <2>2, ToldStep DEF CrashInv
  <2>4. StruckInv'
    BY <1>1, <2>1, <2>2, StruckStep DEF CrashInv
  <2> QED BY <2>3, <2>4
<1> QED BY <1>1, <1>2, <1>3, <1>4 DEF CrashInv

\* A crash: what the index file still has of an object without a manifest is
\* what a Delete in progress was going to overwrite.
LEMMA CrashStep == CrashInv /\ Crash => CrashInv'
<1> SUFFICES ASSUME CrashInv, Crash PROVE CrashInv'
  OBVIOUS
<1> USE DEF CrashInv, Typing, TypeOK
<1>1. /\ up = "up" /\ up' = "down" /\ Volatile
      /\ UNCHANGED <<idx, refs, blobs, manifests, idxFile, refsFile, faults, acked>>
      /\ struck' = struck \cup {o \in Objects \ manifests : Pending("delete", o) > 0}
  BY DEF Crash, fileVars
<1>2. journal' \in Seq(Records)
  <2>1. journal \in Seq(Records) /\ Torn \in Records
    BY DEF StoreTypes, Records
  <2> QED BY <2>1, AppendProperties DEF Crash
<1>3. Typing'
  <2>1. StoreTypes'
    BY <1>1, <1>2 DEF Volatile, StoreTypes
  <2>2. LockTypes' /\ CallTypes'
    BY <1>1 DEF Volatile, LockTypes, CallTypes, PCs, Outs, AllOps
  <2>3. CallInv' /\ CursorInv'
    BY <1>1 DEF Volatile, CallInv, CursorInv, FencePCs, PutPCs, DeletePCs, GetPCs, ExclPCs,
       SavePCs
  <2> QED BY <2>1, <2>2, <2>3
<1>4. LockInv' /\ RecordInv'
  BY <1>1 DEF Volatile, LockInv, RecordInv, InObject, SavePCs
<1>5. Stopped'
  BY <1>1 DEF Volatile, Stopped
<1>6. CrashTypes'
  BY <1>1 DEF CrashTypes
<1>7. ASSUME NoFault(DurableKinds)'
      PROVE  StruckInv'
  <2>1. NoFault(DurableKinds)
    BY <1>1, <1>7 DEF NoFault
  <2> SUFFICES ASSUME NEW o \in Objects, o \notin manifests, o \notin struck',
                      idxFile[o] # 0
               PROVE  FALSE
    BY <1>1 DEF StruckInv
  <2>2. idx[o] = 0
    BY <1>1, <2>1 DEF StruckInv
  <2>3. \A p \in Clients : ~(op[p] = "delete" /\ obj[p] = o)
    <3>1. ~(Pending("delete", o) > 0)
      BY <1>1
    <3> QED BY <3>1, PendingCount
  <2>4. /\ objLock[o] # NoClient /\ pc[objLock[o]] \in {"del_man", "save_idx"}
    BY <1>1, <2>1, <2>2, DiskAssumption DEF LagInv, DurableKinds
  <2>5. PICK p \in Clients : objLock[o] = p
    BY <2>4 DEF LockTypes
  <2>6. op[p] \in SharedOps /\ obj[p] = o
    BY <1>1, <2>1, <2>4, <2>5 DEF EffectInv, LockInv
  <2>7. op[p] = "put" /\ pc[p] = "save_idx"
    BY <2>3, <2>4, <2>5, <2>6 DEF SharedOps, CallInv, DeletePCs
  <2>8. idx[o] = Record(p)
    BY <2>5, <2>6, <2>7 DEF RecordInv, InObject, SavePCs
  <2>9. Record(p) = seen[p] + 1
    BY <2>7 DEF Record, SavePCs
  <2> QED BY <2>2, <2>8, <2>9 DEF CallTypes
<1> QED BY <1>1, <1>3, <1>4, <1>5, <1>6, <1>7

\* Open gives every object the use count on file.
LEMMA OpenStep == CrashInv /\ Open => CrashInv'
<1> SUFFICES ASSUME CrashInv, Open PROVE CrashInv'
  OBVIOUS
<1> USE DEF CrashInv, Typing, TypeOK
<1>1. /\ up = "down" /\ Stopped
      /\ UNCHANGED <<closed, fileVars, diskVars, lockVars, pc, callVars, todo, faults,
                     struck>>
  BY DEF Open
<1>2. PICK parts \in [TornAt -> 1..RecSize - 1] :
         IF ~Replayed(parts).ok
         THEN up' = "failed" /\ UNCHANGED <<idx, refs, acked>>
         ELSE /\ up' = "up" /\ idx' = idxFile /\ acked' = idxFile
              /\ refs' = Replayed(parts).counts
  BY DEF Open
<1>3. Replayed(parts) \in Loaded
  BY ReplayedTyped DEF StoreTypes
<1>4. idx' \in [Objects -> Nat] /\ refs' \in [Chunks -> Nat] /\ acked' \in [Objects -> Int]
  BY <1>2, <1>3 DEF Loaded, StoreTypes, CrashTypes
<1>5. Typing'
  <2>1. StoreTypes'
    BY <1>1, <1>4 DEF StoreTypes, fileVars, diskVars
  <2>2. LockTypes' /\ CallTypes'
    BY <1>1 DEF LockTypes, CallTypes, lockVars, callVars
  <2>3. CallInv' /\ CursorInv'
    BY <1>1 DEF CallInv, CursorInv, callVars
  <2> QED BY <2>1, <2>2, <2>3
<1>6. Stopped'
  BY <1>1 DEF Stopped, lockVars
<1>7. LockInv' /\ RecordInv'
  BY <1>6 DEF Stopped, LockInv, RecordInv, InObject, SavePCs
<1>8. CrashTypes'
  BY <1>1, <1>2, <1>4 DEF CrashTypes
<1>9. ASSUME up' = "up"
      PROVE  LagInv' /\ ToldInv' /\ EffectInv'
  <2>1. idx' = idxFile /\ acked' = idxFile /\ idxFile' = idxFile
    BY <1>1, <1>2, <1>9 DEF diskVars
  <2>2. LagInv'
    BY <1>6, <2>1 DEF LagInv, Stopped
  <2>3. ToldInv'
    BY <1>6, <2>1 DEF ToldInv, Stopped
  <2>4. EffectInv'
    BY <1>6 DEF EffectInv, Effect, Stopped, SavePCs
  <2> QED BY <2>2, <2>3, <2>4
<1>10. NoFault(DurableKinds)' => StruckInv'
  BY <1>1, <1>2 DEF NoFault, StruckInv, fileVars, diskVars
<1> QED BY <1>5, <1>6, <1>7, <1>8, <1>9, <1>10

\* All of it.
LEMMA CrashInvStep == CrashInv /\ [CrashNext]_allVars => CrashInv'
<1> SUFFICES ASSUME CrashInv, [CrashNext]_allVars PROVE CrashInv'
  OBVIOUS
<1>1. CASE UNCHANGED allVars
  <2>1. UNCHANGED vars /\ UNCHANGED <<up, acked, struck>>
    BY <1>1 DEF allVars, crashVars
  <2>2. Typing' /\ LockInv' /\ RecordInv' /\ (up = "up" => LagInv')
    BY <2>1, TypingStep, LockStep, RecordStep, LagStep DEF CrashInv
  <2>3. CrashTypes' /\ (up = "up" => LagInv') /\ (Stopped => Stopped')
    BY <2>1, <2>2 DEF CrashInv, CrashTypes, Stopped, vars, lockVars
  <2>4. NoFault(DurableKinds)' => NoFault(DurableKinds)
    BY <2>1 DEF vars, NoFault
  <2>5. (StruckInv => StruckInv') /\ (ToldInv => ToldInv') /\ (EffectInv => EffectInv')
    BY <2>1 DEF vars, storeVars, fileVars, diskVars, lockVars, callVars, StruckInv,
       ToldInv, EffectInv, Effect
  <2> QED BY <2>1, <2>2, <2>3, <2>4, <2>5 DEF CrashInv
<1> QED BY <1>1, RunStep, CrashStep, OpenStep DEF CrashNext

\* It holds whenever and however often the process is stopped and opened again.
LEMMA CrashInvariant == CrashSpec => []CrashInv
BY CrashInvInit, CrashInvStep, PTL DEF CrashSpec

-----------------------------------------------------------------------------

\* No crash and no journal, however torn, brings a variable out of its domain:
\* in particular a replay never makes a count negative, nor takes half a record
\* for a whole one (Journal.Replay, decodeRec).
THEOREM TypedThroughCrashes == CrashSpec => []TypeOK
<1>1. CrashInv => TypeOK
  BY DEF CrashInv, Typing
<1> QED BY <1>1, CrashInvariant, PTL

\* What a caller was told survives any number of crashes, at any step and of
\* any number of concurrent calls: an object comes back with the uses that were
\* acknowledged, give or take the calls in flight (Put, Delete, persist).
THEOREM AnswersSurvive == CrashSpec => [](NoFault(DurableKinds) => AckedDurable)
<1>1. CrashInv => (NoFault(DurableKinds) => AckedDurable)
  <2> SUFFICES ASSUME CrashInv, NoFault(DurableKinds), up = "up", NEW o \in Objects
               PROVE  /\ acked[o] - Pending("delete", o) <= idxFile[o]
                      /\ idxFile[o] <= acked[o] + Pending("put", o)
    BY DEF AckedDurable
  <2> USE DEF CrashInv, Typing, TypeOK
  <2>1. /\ acked[o] \in Int /\ idx[o] \in Nat /\ idxFile[o] \in Nat
        /\ Pending("delete", o) \in Nat /\ Pending("put", o) \in Nat
    BY PendingCount DEF CrashTypes, StoreTypes
  <2>2. acked[o] = IF objLock[o] = NoClient THEN idx[o] ELSE seen[objLock[o]]
    BY DEF ToldInv
  <2>3. idxFile[o] # idx[o] => objLock[o] # NoClient /\ idxFile[o] = seen[objLock[o]]
    BY DiskAssumption DEF LagInv, DurableKinds
  <2>4. CASE objLock[o] = NoClient
    BY <2>1, <2>2, <2>3, <2>4
  <2>5. CASE objLock[o] # NoClient /\ idxFile[o] # idx[o]
    BY <2>1, <2>2, <2>3, <2>5
  <2>6. CASE objLock[o] # NoClient /\ idxFile[o] = idx[o]
    <3>1. PICK p \in Clients : objLock[o] = p
      BY <2>6 DEF LockTypes
    <3>2. /\ p # NoClient /\ op[p] \in SharedOps /\ obj[p] = o
          /\ InObject(p) \/ pc[p] = "finish"
          /\ Effect(p)
      BY <2>6, <3>1 DEF EffectInv, LockInv
    <3>3. seen[p] \in Nat /\ acked[o] = seen[p]
      BY <2>2, <2>6, <3>1 DEF CallTypes
    <3>4. \/ idx[o] = seen[p]
          \/ op[p] = "put" /\ idx[o] = seen[p] + 1
          \/ op[p] = "delete" /\ idx[o] + 1 = seen[p]
      <4>1. CASE pc[p] = "finish"
        BY <3>1, <3>2, <4>1 DEF Effect, SharedOps
      <4>2. CASE InObject(p)
        <5>1. idx[o] = Record(p)
          BY <3>2, <4>2 DEF RecordInv
        <5>2. CASE pc[p] \in {"put_bump", "del_dec", "del_refs"}
          BY <5>1, <5>2 DEF Record, SavePCs
        <5>3. CASE pc[p] \in {"put_man", "put_refs"}
          BY <5>1, <5>3 DEF Record, SavePCs, CursorInv
        <5>4. CASE pc[p] = "del_man"
          BY <5>1, <5>4 DEF Record, SavePCs, CursorInv, CallInv, DeletePCs
        <5>5. CASE pc[p] = "put_undo"
          BY <5>1, <5>5 DEF Record, SavePCs, CallInv, PutPCs
        <5>6. CASE pc[p] \in SavePCs /\ op[p] = "put"
          BY <5>1, <5>6 DEF Record, SavePCs
        <5>7. CASE pc[p] \in SavePCs /\ op[p] = "delete"
          BY <3>2, <5>7 DEF Effect
        <5> QED BY <3>2, <4>2, <5>2, <5>3, <5>4, <5>5, <5>6, <5>7 DEF InObject, SharedOps
      <4> QED BY <3>2, <4>1, <4>2
    <3>5. /\ op[p] = "put" => Pending("put", o) >= 1
          /\ op[p] = "delete" => Pending("delete", o) >= 1
      BY <3>2, PendingCount
    <3> QED BY <2>1, <2>6, <3>3, <3>4, <3>5
  <2> QED BY <2>4, <2>5, <2>6
<1> QED BY <1>1, CrashInvariant, PTL

\* After any crash an object is incomplete only if its own Delete was cut short
\* (applyDelete), though all calls write one another's records to the index file.
THEOREM OnlyDeletesLeaveIncomplete ==
    CrashSpec => [](NoFault(DurableKinds) => OnlyStruckIncomplete)
<1>1. CrashInv => (NoFault(DurableKinds) => OnlyStruckIncomplete)
  <2> SUFFICES ASSUME CrashInv, NoFault(DurableKinds), up = "up", NEW o \in Objects,
                      idx[o] > 0, o \notin manifests, o \notin struck
               PROVE  FALSE
    BY DEF OnlyStruckIncomplete
  <2>1. idx[o] = 0
    BY DEF CrashInv, StruckInv
  <2> QED BY <2>1
<1> QED BY <1>1, CrashInvariant, PTL

-----------------------------------------------------------------------------
(* A store that only adds: Put, Get, GC and Close.  Its journal holds added    *)
(* references only, so that no replay meets a count below zero; and what Open  *)
(* loads covers what the process knew when it stopped, as long as no other     *)
(* call changes a count between a persist's snapshot and its Truncate.         *)

\* No Delete runs or has failed.
NoDeletes == NoFault({"sub"}) /\ \A p \in Clients : op[p] # "delete"

\* The snapshots and the journal together have all that memory has, and once
\* the counts are saved the snapshot alone does.
LogInv ==
    /\ \A o \in Objects : idxFile[o] > 0 => idx[o] > 0
    /\ \A c \in Chunks : refs[c] <= refsFile[c] + Cardinality(Logged(c))
    /\ \A p \in Clients : pc[p] = "save_trunc" => \A c \in Chunks : refs[c] <= refsFile[c]

\* No count is below its references and no chunk in use is missing, in memory
\* and in what Open would load.
RecoverInv ==
    /\ FenceInv /\ NoDeletes /\ OnlyIncs
    /\ NoFault({"rename"}) => RefsCover /\ ChunkInv /\ LogInv

\* One more record.
LEMMA LoggedAppend ==
    ASSUME journal \in Seq(Records), NEW r \in Records, journal' = Append(journal, r), NEW c
    PROVE  /\ IsFiniteSet(Logged(c)) /\ Cardinality(Logged(c)) \in Nat
           /\ Cardinality(Logged(c)') =
                 Cardinality(Logged(c)) + IF r = Rec("inc", c) THEN 1 ELSE 0
<1> DEFINE n == Len(journal)
<1>1. /\ n \in Nat /\ Len(journal') = n + 1 /\ journal'[n + 1] = r
      /\ \A i \in 1..n : journal'[i] = journal[i]
  BY AppendProperties, LenProperties
<1>2. IsFiniteSet(1..n)
  BY <1>1, FS_Interval
<1>3. Logged(c) \subseteq 1..n
  BY DEF Logged
<1>4. IsFiniteSet(Logged(c)) /\ Cardinality(Logged(c)) \in Nat
  BY <1>2, <1>3, FS_Subset, FS_CardinalityType
<1> HIDE DEF n
<1>5. 1..n + 1 = 1..n \cup {n + 1} /\ n + 1 \notin 1..n
  BY <1>1
<1>6. CASE r = Rec("inc", c)
  <2>1. Logged(c)' = Logged(c) \cup {n + 1} /\ n + 1 \notin Logged(c)
    BY <1>1, <1>3, <1>5, <1>6 DEF Logged, n
  <2>2. Cardinality(Logged(c) \cup {n + 1}) = Cardinality(Logged(c)) + 1
    BY <1>4, <2>1, FS_AddElement
  <2> QED BY <1>4, <1>6, <2>1, <2>2
<1>7. CASE r # Rec("inc", c)
  <2>1. Logged(c)' = Logged(c)
    BY <1>1, <1>5, <1>7 DEF Logged, n
  <2> QED BY <1>4, <1>7, <2>1
<1> QED BY <1>4, <1>6, <1>7

\* The records of a chunk can be counted.
LEMMA LoggedCount ==
    ASSUME journal \in Seq(Records), NEW c
    PROVE  Cardinality(Logged(c)) \in Nat
<1>1. Len(journal) \in Nat
  BY LenProperties
<1>2. IsFiniteSet(1..Len(journal))
  BY <1>1, FS_Interval
<1>3. Logged(c) \subseteq 1..Len(journal)
  BY DEF Logged
<1> QED BY <1>2, <1>3, FS_Subset, FS_CardinalityType

\* What a step without a Delete may do to the journal.
Grows ==
    \/ journal' = journal \/ journal' = <<>> \/ journal' = Append(journal, Torn)
    \/ \E c \in Chunks : journal' = Append(journal, Rec("inc", c))

LEMMA IncsGrow ==
    ASSUME journal \in Seq(Records), OnlyIncs, Grows
    PROVE  OnlyIncs'
<1>1. CASE journal' = journal
  BY <1>1 DEF OnlyIncs
<1>2. CASE journal' = <<>>
  <2>1. Len(journal') = 0
    BY <1>2, EmptySeq
  <2> QED BY <2>1 DEF OnlyIncs
<1>3. ASSUME NEW r \in Records, journal' = Append(journal, r),
             r = Torn \/ \E c \in Chunks : r = Rec("inc", c)
      PROVE  OnlyIncs'
  <2>1. /\ Len(journal) \in Nat /\ Len(journal') = Len(journal) + 1
        /\ journal'[Len(journal) + 1] = r
        /\ \A i \in 1..Len(journal) : journal'[i] = journal[i]
    BY <1>3, AppendProperties, LenProperties
  <2>2. ASSUME NEW i \in 1..Len(journal')
        PROVE  journal'[i] = Torn \/ \E c \in Chunks : journal'[i] = Rec("inc", c)
    <3>1. CASE i \in 1..Len(journal)
      BY <2>1, <3>1 DEF OnlyIncs
    <3>2. CASE i \notin 1..Len(journal)
      <4>1. i = Len(journal) + 1
        BY <2>1, <3>2
      <4> QED BY <1>3, <2>1, <4>1
    <3> QED BY <3>1, <3>2
  <2> QED BY <2>2 DEF OnlyIncs
<1>4. Torn \in Records /\ \A c \in Chunks : Rec("inc", c) \in Records
  BY DEF Records, Rec
<1> QED BY <1>1, <1>2, <1>3, <1>4 DEF Grows

\* Where there is no Delete, none starts and none is at work.
LEMMA IncsStep ==
    ASSUME "delete" \notin Ops, Typing, NoDeletes, OnlyIncs, [Next]_vars
    PROVE  NoDeletes' /\ OnlyIncs'
<1> USE DEF Typing, TypeOK
<1> DEFINE Spared == UNCHANGED faults \/ \E k \in FaultKinds \ {"sub"} : Fault(k)
           None == \A q \in Clients : op'[q] # "delete"
<1>1. ASSUME Spared, None, Grows
      PROVE  NoDeletes' /\ OnlyIncs'
  <2>1. OnlyIncs'
    BY <1>1, IncsGrow DEF StoreTypes
  <2>2. NoFault({"sub"})'
    <3>1. CASE UNCHANGED faults
      BY <3>1 DEF NoDeletes, NoFault
    <3>2. ASSUME NEW k \in FaultKinds \ {"sub"}, Fault(k)
          PROVE  NoFault({"sub"})'
      <4>1. faults \in Seq(FaultKinds) /\ faults' = Append(faults, k) /\ k # "sub"
        BY <3>2 DEF Fault, StoreTypes
      <4>2. /\ Len(faults) \in Nat /\ Len(faults') = Len(faults) + 1
            /\ faults'[Len(faults) + 1] = k
            /\ \A i \in 1..Len(faults) : faults'[i] = faults[i]
        BY <4>1, AppendProperties, LenProperties
      <4>3. ASSUME NEW i \in 1..Len(faults') PROVE faults'[i] # "sub"
        <5>1. i \in 1..Len(faults) \/ i = Len(faults) + 1
          BY <4>2
        <5> QED BY <4>1, <4>2, <5>1 DEF NoDeletes, NoFault
      <4> QED BY <4>3 DEF NoFault
    <3> QED BY <1>1, <3>1, <3>2
  <2> QED BY <1>1, <2>1, <2>2 DEF NoDeletes
<1>2. \A p \in Clients : op[p] # "delete" /\ pc[p] \notin DeletePCs
  BY DEF NoDeletes, CallInv
<1>3. ASSUME NEW p \in Clients, CallShared(p) \/ CallExclusive(p) \/ Finish(p) \/ WUnlock(p)
      PROVE  NoDeletes' /\ OnlyIncs'
  <2>1. Spared /\ Grows
    BY <1>3 DEF CallShared, CallExclusive, Finish, WUnlock, Grows, diskVars
  <2>2. None
    BY <1>2, <1>3 DEF CallShared, CallExclusive, Finish, WUnlock, CallTypes
  <2> QED BY <1>1, <2>1, <2>2
<1>4. ASSUME NEW p \in Clients,
             \/ RLock(p) \/ EnterClosed(p) \/ Enter(p) \/ PutChunk(p) \/ PutLock(p)
             \/ PutBump(p) \/ PutUndo(p) \/ PutManifest(p) \/ PutIndex(p)
             \/ PersistMemory(p) \/ GetLookup(p)
             \/ GetLoad(p) \/ ReadChunk(p) \/ CloseReader(p) \/ WLockAnnounce(p)
             \/ WLockClosed(p) \/ GCBegin(p) \/ GCSweep(p) \/ GCEnd(p) \/ CloseBegin(p)
             \/ CallFail(p) \/ GCFail(p)
      PROVE  NoDeletes' /\ OnlyIncs'
  <2>1. op' = op /\ Spared /\ Grows
    BY <1>4 DEF RLock, EnterClosed, Enter, PutChunk, PutLock, PutBump, PutUndo, PutManifest,
       PutIndex, PersistMemory, GetLookup, GetLoad, ReadChunk, CloseReader, WLockAnnounce,
       WLockClosed, GCBegin, GCSweep, GCEnd, CloseBegin, CallFail, GCFail, Grows, diskVars,
       callVars
  <2> QED BY <1>1, <1>2, <2>1
<1>5. ASSUME NEW p \in Clients, PutAddRef(p) PROVE NoDeletes' /\ OnlyIncs'
  <2>1. obj[p] \in Objects /\ pos[p] \in 1..NEntries(obj[p]) + 1 /\ pos[p] <= NEntries(obj[p])
    BY <1>5 DEF PutAddRef, CallInv, CursorInv, PutPCs
  <2>2. Slot(obj[p], pos[p]) \in Chunks
    BY <2>1, SlotType
  <2>3. op' = op /\ Spared /\ Grows
    BY <1>5, <2>2 DEF PutAddRef, Log, Grows
  <2> QED BY <1>1, <1>2, <2>3
<1>6. ASSUME NEW p \in Clients, PutAddRefFail(p) PROVE NoDeletes' /\ OnlyIncs'
  <2>1. obj[p] \in Objects /\ pos[p] \in 1..NEntries(obj[p]) + 1 /\ pos[p] <= NEntries(obj[p])
    BY <1>6 DEF PutAddRefFail, CallInv, CursorInv, PutPCs
  <2>2. Slot(obj[p], pos[p]) \in Chunks
    BY <2>1, SlotType
  <2>3. op' = op /\ Spared /\ Grows
    BY <1>6, <2>2 DEF PutAddRefFail, Grows, FaultKinds
  <2> QED BY <1>1, <1>2, <2>3
<1>7. ASSUME NEW p \in Clients,
             \/ PersistIndex(p) \/ PersistRefs(p) \/ PersistTruncate(p) \/ PersistFail(p)
             \/ GCSkip(p)
      PROVE  NoDeletes' /\ OnlyIncs'
  <2>1. op' = op /\ Grows
    BY <1>7 DEF PersistIndex, PersistRefs, PersistTruncate, PersistFail, GCSkip, Grows,
       diskVars, callVars
  <2>2. Spared
    BY <1>7 DEF PersistIndex, PersistRefs, PersistTruncate, PersistFail, GCSkip, FaultKinds
  <2> QED BY <1>1, <1>2, <2>1, <2>2
<1>8. ASSUME NEW p \in Clients,
             DeleteStep(p) \/ DeleteSubRefFail(p) \/ DeleteManifestFail(p)
      PROVE  FALSE
  BY <1>2, <1>8 DEF DeleteStep, DeleteLock, DeleteDec, DeleteSubRef, DeleteUnderflow,
     DeleteIndex, DeleteManifest, DeleteSubRefFail, DeleteManifestFail, DeletePCs
<1>9. CASE UNCHANGED vars
  BY <1>9 DEF vars, diskVars, callVars, NoDeletes, NoFault, OnlyIncs
<1> HIDE DEF Spared, None, Typing, TypeOK
<1> QED BY <1>3, <1>4, <1>5, <1>6, <1>7, <1>8, <1>9 DEF Next, Call, Step, Failure, PutStep,
   PersistStep, PersistBegin, GetStep, ExclStep

\* A step that leaves the counts and their files alone.
LEMMA LogFrame ==
    ASSUME LogInv, refs' = refs, refsFile' = refsFile, journal' = journal,
           \A o \in Objects : idxFile'[o] > 0 => idx'[o] > 0,
           \A q \in Clients : pc'[q] = "save_trunc" => pc[q] = "save_trunc"
    PROVE  LogInv'
<1>1. \A c : Logged(c)' = Logged(c)
  BY DEF Logged
<1> QED BY <1>1 DEF LogInv

\* With one client, every step keeps what the files have.
LEMMA LogStep ==
    ASSUME \A p, q \in Clients : p = q, Typing, NoDeletes, LogInv,
           NoFault({"rename"})', [Next]_vars
    PROVE  LogInv'
<1> USE DEF Typing, TypeOK
<1>1. \A p \in Clients : op[p] # "delete" /\ pc[p] \notin DeletePCs
  BY DEF NoDeletes, CallInv
<1>2. ASSUME NEW p \in Clients,
             \/ CallShared(p) \/ CallExclusive(p) \/ RLock(p) \/ EnterClosed(p) \/ Enter(p)
             \/ Finish(p) \/ PutChunk(p) \/ PutLock(p) \/ PutManifest(p) \/ PersistMemory(p)
             \/ GetLookup(p) \/ GetLoad(p) \/ ReadChunk(p) \/ CloseReader(p)
             \/ WLockAnnounce(p) \/ WLockClosed(p) \/ GCBegin(p) \/ GCSweep(p) \/ GCEnd(p)
             \/ CloseBegin(p) \/ WUnlock(p) \/ CallFail(p) \/ GCFail(p) \/ GCSkip(p)
      PROVE  LogInv'
  <2>1. idx' = idx /\ refs' = refs /\ UNCHANGED diskVars
    BY <1>2 DEF CallShared, CallExclusive, RLock, EnterClosed, Enter, Finish, PutChunk,
       PutLock, PutManifest, PersistMemory, GetLookup, GetLoad, ReadChunk, CloseReader,
       WLockAnnounce, WLockClosed, GCBegin, GCSweep, GCEnd, CloseBegin, WUnlock, CallFail,
       GCFail, GCSkip, storeVars
  <2>2. \A q \in Clients : pc'[q] = "save_trunc" => pc[q] = "save_trunc"
    <3>1. CASE \/ CallShared(p) \/ CallExclusive(p) \/ RLock(p) \/ EnterClosed(p) \/ Finish(p)
               \/ PutChunk(p) \/ PutLock(p) \/ PutManifest(p)
      BY <3>1 DEF CallShared, CallExclusive, RLock, EnterClosed, Finish, PutChunk, PutLock,
         PutManifest, Goto, CallTypes
    <3>2. CASE \/ GetLookup(p) \/ GetLoad(p) \/ ReadChunk(p) \/ CloseReader(p) \/ CallFail(p)
      BY <3>2 DEF GetLookup, GetLoad, ReadChunk, CloseReader, CallFail, Goto, CallTypes
    <3>3. CASE \/ WLockAnnounce(p) \/ WLockClosed(p) \/ GCBegin(p) \/ GCSweep(p) \/ GCEnd(p)
               \/ CloseBegin(p) \/ GCFail(p) \/ GCSkip(p)
      BY <3>3 DEF WLockAnnounce, WLockClosed, GCBegin, GCSweep, GCEnd, CloseBegin, GCFail,
         GCSkip, Goto, CallTypes
    <3>4. CASE Enter(p)
      <4>1. op[p] \in {"put", "delete", "get"}
        BY <3>4 DEF Enter, CallInv, FencePCs
      <4> QED BY <3>4, <4>1 DEF Enter, Goto, CallTypes
    <3>5. CASE WUnlock(p)
      BY <3>5 DEF WUnlock
    <3>6. CASE PersistMemory(p)
      BY <3>6, DiskAssumption DEF PersistMemory
    <3> QED BY <1>2, <3>1, <3>2, <3>3, <3>4, <3>5, <3>6
  <2> QED BY <2>1, <2>2, LogFrame DEF diskVars, LogInv
<1>3. ASSUME NEW p \in Clients, PutBump(p) \/ PutUndo(p) \/ PutIndex(p)
      PROVE  LogInv'
  <2>1. refs' = refs /\ UNCHANGED diskVars
    BY <1>3 DEF PutBump, PutUndo, PutIndex
  <2>2. \A q \in Clients : pc'[q] = "save_trunc" => pc[q] = "save_trunc"
    BY <1>3 DEF PutBump, PutUndo, PutIndex, Goto, CallTypes
  <2>3. \A o \in Objects : idx[o] > 0 => idx'[o] > 0
    <3>1. obj[p] \in Objects /\ seen[p] \in Nat
      BY <1>3 DEF PutBump, PutUndo, PutIndex, CallInv, PutPCs, CallTypes
    <3>2. CASE PutBump(p)
      <4>1. idx' = [idx EXCEPT ![obj[p]] = seen[p] + 1] /\ seen[p] + 1 > 0
        BY <3>1, <3>2 DEF PutBump
      <4> QED BY <3>1, <4>1 DEF StoreTypes
    <3>3. CASE PutUndo(p)
      <4>1. idx' = [idx EXCEPT ![obj[p]] = seen[p]] /\ seen[p] > 0
        BY <3>3 DEF PutUndo, CursorInv
      <4> QED BY <3>1, <4>1 DEF StoreTypes
    <3>4. CASE PutIndex(p)
      <4>1. idx' = [idx EXCEPT ![obj[p]] = 1] /\ 1 > 0
        BY <3>4 DEF PutIndex
      <4> QED BY <3>1, <4>1 DEF StoreTypes
    <3> QED BY <1>3, <3>2, <3>3, <3>4
  <2> QED BY <2>1, <2>2, <2>3, LogFrame DEF diskVars, LogInv
<1>4. ASSUME NEW p \in Clients, PutAddRef(p) PROVE LogInv'
  <2> DEFINE d == Slot(obj[p], pos[p])
  <2>1. obj[p] \in Objects /\ pos[p] \in 1..NEntries(obj[p]) + 1 /\ pos[p] <= NEntries(obj[p])
    BY <1>4 DEF PutAddRef, CallInv, CursorInv, PutPCs
  <2>2. d \in Chunks /\ Rec("inc", d) \in Records
    BY <2>1, SlotType DEF Records, Rec
  <2>3. /\ idx' = idx /\ idxFile' = idxFile /\ refsFile' = refsFile /\ pc' = pc
        /\ refs' = [refs EXCEPT ![d] = @ + 1] /\ journal' = Append(journal, Rec("inc", d))
        /\ pc[p] = "put_refs"
    BY <1>4, DiskAssumption DEF PutAddRef, Log
  <2> HIDE DEF d
  <2>4. ASSUME NEW c \in Chunks
        PROVE  refs'[c] <= refsFile'[c] + Cardinality(Logged(c)')
    <3>1. /\ Cardinality(Logged(c)) \in Nat
          /\ Cardinality(Logged(c)') =
                Cardinality(Logged(c)) + IF Rec("inc", d) = Rec("inc", c) THEN 1 ELSE 0
      BY <2>2, <2>3, LoggedAppend DEF StoreTypes
    <3>2. /\ refs[c] <= refsFile[c] + Cardinality(Logged(c))
          /\ refs[c] \in Nat /\ refsFile[c] \in Nat
      BY DEF LogInv, StoreTypes
    <3>3. CASE c = d
      <4>1. refs'[c] = refs[c] + 1
        BY <2>3, <3>3 DEF StoreTypes
      <4> QED BY <2>3, <3>1, <3>2, <3>3, <4>1
    <3>4. CASE c # d
      <4>1. refs'[c] = refs[c] /\ Rec("inc", d) # Rec("inc", c)
        BY <2>3, <3>4 DEF StoreTypes, Rec
      <4> QED BY <2>3, <3>1, <3>2, <4>1
    <3> QED BY <3>3, <3>4
  <2>5. \A q \in Clients : pc'[q] # "save_trunc"
    BY <2>3
  <2> QED BY <2>3, <2>4, <2>5 DEF LogInv
<1>5. ASSUME NEW p \in Clients, PutAddRefFail(p) PROVE LogInv'
  <2>1. obj[p] \in Objects /\ pos[p] \in 1..NEntries(obj[p]) + 1 /\ pos[p] <= NEntries(obj[p])
    BY <1>5 DEF PutAddRefFail, CallInv, CursorInv, PutPCs
  <2>2. Slot(obj[p], pos[p]) \in Chunks
    BY <2>1, SlotType
  <2>3. /\ idx' = idx /\ idxFile' = idxFile /\ refsFile' = refsFile /\ refs' = refs
        /\ journal' = journal \/ \E r \in Records : journal' = Append(journal, r)
    BY <1>5, <2>2 DEF PutAddRefFail, storeVars, Records, Rec
  <2>4. \A q \in Clients : pc'[q] # "save_trunc"
    BY <1>5 DEF PutAddRefFail, Goto, CallTypes
  <2>5. ASSUME NEW c \in Chunks
        PROVE  refs'[c] <= refsFile'[c] + Cardinality(Logged(c)')
    <3>1. /\ refs[c] <= refsFile[c] + Cardinality(Logged(c))
          /\ refs[c] \in Nat /\ refsFile[c] \in Nat
      BY DEF LogInv, StoreTypes
    <3>2. CASE journal' = journal
      <4>1. Logged(c)' = Logged(c)
        BY <3>2 DEF Logged
      <4> QED BY <2>3, <3>1, <4>1
    <3>3. ASSUME NEW r \in Records, journal' = Append(journal, r)
          PROVE  refs'[c] <= refsFile'[c] + Cardinality(Logged(c)')
      <4>1. /\ Cardinality(Logged(c)) \in Nat
            /\ Cardinality(Logged(c)') =
                  Cardinality(Logged(c)) + IF r = Rec("inc", c) THEN 1 ELSE 0
        BY <3>3, LoggedAppend DEF StoreTypes
      <4>2. CASE r = Rec("inc", c)
        BY <2>3, <3>1, <4>1, <4>2
      <4>3. CASE r # Rec("inc", c)
        BY <2>3, <3>1, <4>1, <4>3
      <4> QED BY <4>2, <4>3
    <3> QED BY <2>3, <3>2, <3>3
  <2> QED BY <2>3, <2>4, <2>5 DEF LogInv
<1>6. ASSUME NEW p \in Clients, PersistIndex(p) PROVE LogInv'
  <2>1. idxFile' = idx /\ idx' = idx /\ refs' = refs /\ refsFile' = refsFile
        /\ journal' = journal
    <3>1. ~Fault("rename")
      <4> SUFFICES ASSUME Fault("rename") PROVE FALSE
        OBVIOUS
      <4>1. faults' = Append(faults, "rename") /\ faults \in Seq(FaultKinds)
        BY DEF Fault, StoreTypes
      <4> QED BY <4>1, FaultSeen
    <3> QED BY <1>6, <3>1 DEF PersistIndex, storeVars
  <2>2. \A q \in Clients : pc'[q] = "save_trunc" => pc[q] = "save_trunc"
    BY <1>6 DEF PersistIndex, Goto, CallTypes
  <2> QED BY <2>1, <2>2, LogFrame
<1>7. ASSUME NEW p \in Clients, PersistRefs(p) PROVE LogInv'
  <2>1. idx' = idx /\ idxFile' = idxFile /\ refs' = refs /\ refsFile' = refs
        /\ journal' = journal
    <3>1. ~Fault("rename")
      <4> SUFFICES ASSUME Fault("rename") PROVE FALSE
        OBVIOUS
      <4>1. faults' = Append(faults, "rename") /\ faults \in Seq(FaultKinds)
        BY DEF Fault, StoreTypes
      <4> QED BY <4>1, FaultSeen
    <3> QED BY <1>7, <3>1 DEF PersistRefs, storeVars
  <2>2. ASSUME NEW c \in Chunks
        PROVE  /\ refs'[c] <= refsFile'[c] + Cardinality(Logged(c)')
               /\ refs'[c] <= refsFile'[c]
    <3>1. Logged(c)' = Logged(c)
      BY <2>1 DEF Logged
    <3>2. Cardinality(Logged(c)) \in Nat /\ refs[c] \in Nat
      BY LoggedCount DEF StoreTypes
    <3> QED BY <2>1, <3>1, <3>2
  <2> QED BY <2>1, <2>2 DEF LogInv
<1>8. ASSUME NEW p \in Clients, PersistTruncate(p) \/ PersistFail(p) PROVE LogInv'
  <2>1. /\ idx' = idx /\ idxFile' = idxFile /\ refs' = refs /\ refsFile' = refsFile
        /\ journal' = journal \/ (pc[p] = "save_trunc" /\ journal' = <<>>)
    BY <1>8 DEF PersistTruncate, PersistFail, storeVars
  <2>2. \A q \in Clients : pc'[q] # "save_trunc"
    BY <1>8 DEF PersistTruncate, PersistFail, AfterPersist, Goto, CallTypes
  <2>3. ASSUME NEW c \in Chunks
        PROVE  refs'[c] <= refsFile'[c] + Cardinality(Logged(c)')
    <3>1. CASE journal' = journal
      <4>1. Logged(c)' = Logged(c)
        BY <3>1 DEF Logged
      <4> QED BY <2>1, <4>1 DEF LogInv
    <3>2. CASE pc[p] = "save_trunc" /\ journal' = <<>>
      <4>1. Logged(c)' = {}
        <5>1. Len(journal') = 0
          BY <3>2, EmptySeq
        <5> QED BY <5>1 DEF Logged
      <4>2. Cardinality({}) = 0
        BY FS_EmptySet
      <4>3. refs[c] <= refsFile[c] /\ refs[c] \in Nat /\ refsFile[c] \in Nat
        BY <3>2 DEF LogInv, StoreTypes
      <4> QED BY <2>1, <4>1, <4>2, <4>3
    <3> QED BY <2>1, <3>1, <3>2
  <2> QED BY <2>1, <2>2, <2>3 DEF LogInv
<1>9. ASSUME NEW p \in Clients,
             DeleteStep(p) \/ DeleteSubRefFail(p) \/ DeleteManifestFail(p)
      PROVE  FALSE
  BY <1>1, <1>9 DEF DeleteStep, DeleteLock, DeleteDec, DeleteSubRef, DeleteUnderflow,
     DeleteIndex, DeleteManifest, DeleteSubRefFail, DeleteManifestFail, DeletePCs
<1>10. CASE UNCHANGED vars
  <2>1. idx' = idx /\ refs' = refs /\ UNCHANGED diskVars /\ pc' = pc
    BY <1>10 DEF vars, storeVars
  <2> QED BY <2>1, LogFrame DEF diskVars, LogInv
<1> HIDE DEF Typing, TypeOK
<1> QED BY <1>2, <1>3, <1>4, <1>5, <1>6, <1>7, <1>8, <1>9, <1>10 DEF Next, Call, Step,
   Failure, PutStep, PersistStep, PersistBegin, GetStep, ExclStep

\* A store that starts empty.
LEMMA RecoverInit == CrashInit => RecoverInv
<1> SUFFICES ASSUME CrashInit PROVE RecoverInv
  OBVIOUS
<1>1. Init /\ journal = <<>> /\ faults = <<>>
  BY DEF CrashInit, Init
<1>2. Len(journal) = 0 /\ Len(faults) = 0
  BY <1>1, EmptySeq
<1>3. FenceInv /\ RefsCover /\ ChunkInv
  BY <1>1, StoreInvInit DEF StoreInv, Discipline, RefsInv
<1>4. NoDeletes /\ OnlyIncs
  BY <1>1, <1>2 DEF Init, NoDeletes, NoFault, OnlyIncs
<1>5. LogInv
  <2>1. ASSUME NEW c \in Chunks PROVE refs[c] <= refsFile[c] + Cardinality(Logged(c))
    <3>1. Logged(c) = {}
      BY <1>2 DEF Logged
    <3>2. refs[c] = 0 /\ refsFile[c] = 0 /\ Cardinality({}) = 0
      BY <1>1, FS_EmptySet DEF Init
    <3> QED BY <3>1, <3>2
  <2> QED BY <1>1, <2>1 DEF Init, LogInv
<1> QED BY <1>3, <1>4, <1>5 DEF RecoverInv

\* A step of the running store.
LEMMA RecoverRun ==
    ASSUME "delete" \notin Ops, \A p, q \in Clients : p = q,
           CrashInv, RecoverInv, [Next]_vars
    PROVE  RecoverInv'
<1>1. Typing /\ LockInv /\ RecordInv /\ FenceInv /\ NoDeletes /\ OnlyIncs
  BY DEF CrashInv, RecoverInv
<1>2. FenceInv' /\ NoDeletes' /\ OnlyIncs'
  BY <1>1, FenceStep, IncsStep
<1>3. ASSUME NoFault({"rename"})'
      PROVE  RefsCover' /\ ChunkInv' /\ LogInv'
  <2>1. NoFault({"rename"})
    BY <1>1, <1>3, FaultsKept DEF Typing, TypeOK, StoreTypes
  <2>2. RefsCover /\ ChunkInv /\ LogInv
    BY <2>1 DEF RecoverInv
  <2>3. RefsCover'
    BY <1>1, <2>2, CountsStep DEF CountsKept
  <2>4. ChunkInv'
    BY <1>1, <2>2, ChunkStep
  <2>5. LogInv'
    BY <1>1, <1>3, <2>2, LogStep
  <2> QED BY <2>3, <2>4, <2>5
<1> QED BY <1>2, <1>3 DEF RecoverInv

\* Between calls an entry is counted just when its object is indexed.
LEMMA QuietHolders ==
    ASSUME Typing, LockInv, RecordInv, NoDeletes, Stopped',
           \A o \in Objects : idx'[o] > 0 => idx[o] > 0, NEW c
    PROVE  Cardinality(Holders(c)') <= Cardinality(Holders(c))
<1> USE DEF Typing, TypeOK
<1>1. ASSUME NEW o \in Objects, NEW i, Counted(o, i)' PROVE Counted(o, i)
  <2>1. idx'[o] > 0
    BY <1>1 DEF Counted, Stopped
  <2>2. idx[o] > 0
    BY <2>1
  <2>3. ASSUME NEW p \in Clients, objLock[o] = p PROVE pc[p] \notin {"put_refs", "del_refs"}
    <3>1. p # NoClient
      BY NoneAssumption
    <3>2. obj[p] = o /\ (InObject(p) \/ pc[p] = "finish")
      BY <2>3, <3>1 DEF LockInv
    <3>3. ASSUME pc[p] = "put_refs" PROVE FALSE
      <4>1. idx[obj[p]] = Record(p)
        BY <3>3 DEF RecordInv, InObject
      <4>2. Record(p) = 0
        BY <3>3 DEF Record, SavePCs
      <4> QED BY <2>2, <3>2, <4>1, <4>2
    <3>4. pc[p] # "del_refs"
      BY DEF NoDeletes, CallInv, DeletePCs
    <3> QED BY <3>3, <3>4
  <2>4. objLock[o] # NoClient => pc[objLock[o]] \notin {"put_refs", "del_refs"}
    BY <2>3 DEF LockTypes
  <2> QED BY <2>2, <2>4 DEF Counted
<1>2. Holders(c)' \subseteq Holders(c)
  <2>1. ASSUME NEW s \in Slots, Counted(s[1], s[2])' PROVE Counted(s[1], s[2])
    <3>1. s[1] \in Objects
      BY DEF Slots
    <3> QED BY <1>1, <2>1, <3>1
  <2> QED BY <2>1 DEF Holders
<1> QED BY <1>2, HoldersFinite, FS_Subset

\* Nobody relies on a chunk, and what becomes visible was visible before.
LEMMA QuietChunks ==
    ASSUME NoDeletes, ChunkInv, Stopped',
           blobs' = blobs, manifests' = manifests,
           \A o \in Objects : idx'[o] > 0 => idx[o] > 0
    PROVE  ChunkInv'
<1>1. \A p \in Clients : Needs(p)' = {}
  BY DEF Stopped, Needs
<1>2. VisibleReadable'
  <2> SUFFICES ASSUME NEW o \in Objects, idx'[o] > 0
               PROVE  o \in manifests' /\ ChunksOf(o) \subseteq blobs'
    BY DEF VisibleReadable, ChunksOf
  <2> QED BY DEF ChunkInv, VisibleReadable, NoDeletes
<1> QED BY <1>1, <1>2 DEF ChunkInv, PinInv

\* A crash takes nothing from the files.
LEMMA RecoverCrash ==
    ASSUME CrashInv, RecoverInv, Crash
    PROVE  RecoverInv'
<1>1. /\ Volatile /\ Stopped'
      /\ UNCHANGED <<idx, refs, blobs, manifests, idxFile, refsFile, faults>>
      /\ journal' = journal \/ journal' = Append(journal, Torn)
  BY DEF Crash, Volatile, Stopped, fileVars
<1>2. /\ Typing /\ LockInv /\ RecordInv /\ FenceInv /\ NoDeletes /\ OnlyIncs
      /\ journal \in Seq(Records) /\ Torn \in Records
  BY DEF CrashInv, RecoverInv, Typing, TypeOK, StoreTypes, Records
<1>3. FenceInv'
  BY <1>1, NoneAssumption DEF Volatile, FenceInv, InShared, Exclusive, PutPCs, DeletePCs, GetPCs,
     SavePCs
<1>4. NoDeletes'
  BY <1>1, <1>2 DEF Volatile, NoDeletes, NoFault
<1>5. OnlyIncs'
  BY <1>1, <1>2, IncsGrow DEF Grows
<1>6. ASSUME NoFault({"rename"})'
      PROVE  RefsCover' /\ ChunkInv' /\ LogInv'
  <2>1. RefsCover /\ ChunkInv /\ LogInv
    BY <1>1, <1>6 DEF RecoverInv, NoFault
  <2>2. RefsCover'
    <3>1. ASSUME NEW c \in Chunks PROVE Cardinality(Holders(c)') <= refs'[c]
      <4>1. Cardinality(Holders(c)') <= Cardinality(Holders(c))
        BY <1>1, <1>2, QuietHolders
      <4>2. Cardinality(Holders(c)) <= refs[c] /\ refs'[c] = refs[c] /\ refs[c] \in Nat
        BY <1>1, <1>2, <2>1 DEF RefsCover, NoDeletes, Typing, TypeOK, StoreTypes
      <4> QED BY <4>1, <4>2, HoldersFinite, HoldersFiniteNext
    <3> QED BY <3>1 DEF RefsCover
  <2>3. ChunkInv'
    BY <1>1, <1>2, <2>1, QuietChunks
  <2>4. LogInv'
    <3>1. ASSUME NEW c \in Chunks
          PROVE  Cardinality(Logged(c)') = Cardinality(Logged(c))
      <4>1. CASE journal' = journal
        BY <4>1 DEF Logged
      <4>2. CASE journal' = Append(journal, Torn)
        <5>1. Torn # Rec("inc", c)
          <6>1. Len(Torn) = 1 /\ Len(Rec("inc", c)) = 2
            BY DEF Torn, Rec
          <6> QED BY <6>1
        <5>2. /\ Cardinality(Logged(c)) \in Nat
              /\ Cardinality(Logged(c)') =
                    Cardinality(Logged(c)) + IF Torn = Rec("inc", c) THEN 1 ELSE 0
          BY <1>2, <4>2, LoggedAppend
        <5> QED BY <5>1, <5>2
      <4> QED BY <1>1, <4>1, <4>2
    <3>2. \A p \in Clients : pc'[p] # "save_trunc"
      BY <1>1 DEF Stopped
    <3> QED BY <1>1, <2>1, <3>1, <3>2 DEF LogInv
  <2> QED BY <2>2, <2>3, <2>4
<1> QED BY <1>3, <1>4, <1>5, <1>6 DEF RecoverInv

\* Open gives every chunk at least the count it had.
LEMMA RecoverOpen ==
    ASSUME CrashInv, RecoverInv, Open
    PROVE  RecoverInv'
<1>1. /\ Typing /\ LockInv /\ RecordInv /\ FenceInv /\ NoDeletes /\ OnlyIncs /\ Stopped
      /\ journal \in Seq(Records) /\ refsFile \in [Chunks -> Nat] /\ refs \in [Chunks -> Nat]
  BY DEF Open, CrashInv, RecoverInv, Typing, TypeOK, StoreTypes
<1>2. /\ UNCHANGED <<blobs, manifests, idxFile, refsFile, journal, shared, writer, objLock, pc,
                     op, faults>>
      /\ Stopped'
  BY <1>1 DEF Open, Stopped, fileVars, diskVars, lockVars, callVars
<1>3. PICK parts \in [TornAt -> 1..RecSize - 1] :
         IF ~Replayed(parts).ok
         THEN UNCHANGED <<idx, refs>>
         ELSE idx' = idxFile /\ refs' = Replayed(parts).counts
  BY DEF Open
<1>4. FenceInv'
  BY <1>1, <1>2 DEF FenceInv, InShared, Exclusive
<1>5. NoDeletes' /\ OnlyIncs'
  BY <1>1, <1>2 DEF NoDeletes, NoFault, OnlyIncs
<1>6. ASSUME NoFault({"rename"})'
      PROVE  RefsCover' /\ ChunkInv' /\ LogInv'
  <2>1. RefsCover /\ ChunkInv /\ LogInv
    BY <1>2, <1>6 DEF RecoverInv, NoFault
  <2>2. \A o \in Objects : idx'[o] > 0 => idx[o] > 0
    BY <1>3, <2>1 DEF LogInv
  <2>3. \A o \in Objects : idxFile'[o] > 0 => idx'[o] > 0
    BY <1>2, <1>3, <2>1 DEF LogInv
  <2>4. ASSUME NEW c \in Chunks
        PROVE  /\ refs[c] <= refs'[c] /\ refs'[c] \in Nat
               /\ refs'[c] <= refsFile'[c] + Cardinality(Logged(c)')
    <3>1. /\ Logged(c)' = Logged(c) /\ refsFile' = refsFile
          /\ Cardinality(Logged(c)) \in Nat /\ refs[c] \in Nat /\ refsFile[c] \in Nat
          /\ refs[c] <= refsFile[c] + Cardinality(Logged(c))
      BY <1>1, <1>2, <2>1, LoggedCount DEF Logged, LogInv
    <3>2. CASE ~Replayed(parts).ok
      BY <1>3, <3>1, <3>2
    <3>3. CASE Replayed(parts).ok
      <4>1. Replayed(parts).counts[c] = refsFile[c] + Cardinality(Logged(c))
        BY <1>1, <3>3, ReplayCounts
      <4> QED BY <1>3, <3>1, <3>3, <4>1
    <3> QED BY <3>2, <3>3
  <2>5. RefsCover'
    <3>1. ASSUME NEW c \in Chunks PROVE Cardinality(Holders(c)') <= refs'[c]
      <4>1. Cardinality(Holders(c)') <= Cardinality(Holders(c))
        BY <1>1, <1>2, <2>2, QuietHolders
      <4>2. Cardinality(Holders(c)) <= refs[c] /\ refs[c] \in Nat
        BY <1>1, <2>1 DEF RefsCover, NoDeletes
      <4> QED BY <2>4, <4>1, <4>2, HoldersFinite, HoldersFiniteNext
    <3> QED BY <3>1 DEF RefsCover
  <2>6. ChunkInv'
    BY <1>1, <1>2, <2>1, <2>2, QuietChunks
  <2>7. LogInv'
    <3>1. \A p \in Clients : pc'[p] # "save_trunc"
      BY <1>2 DEF Stopped
    <3> QED BY <2>3, <2>4, <3>1 DEF LogInv
  <2> QED BY <2>5, <2>6, <2>7
<1> QED BY <1>4, <1>5, <1>6 DEF RecoverInv

\* Every step of one client, every crash and every Open.
LEMMA RecoverStep ==
    ASSUME "delete" \notin Ops, \A p, q \in Clients : p = q
    PROVE  CrashInv /\ RecoverInv /\ [CrashNext]_allVars => RecoverInv'
<1> SUFFICES ASSUME CrashInv, RecoverInv, [CrashNext]_allVars PROVE RecoverInv'
  OBVIOUS
<1>1. CASE Run
  BY <1>1, RecoverRun DEF Run
<1>2. CASE UNCHANGED allVars
  BY <1>2, RecoverRun DEF allVars
<1> QED BY <1>1, <1>2, RecoverCrash, RecoverOpen DEF CrashNext

\* Open fails only if the journal has half a record inside.
LEMMA OpenFailsStep ==
    ASSUME "delete" \notin Ops
    PROVE  CrashInv /\ NoDeletes /\ OnlyIncs /\ OpenFailsOnlyOnTorn /\ [CrashNext]_allVars
             => (NoDeletes /\ OnlyIncs /\ OpenFailsOnlyOnTorn)'
<1> SUFFICES ASSUME CrashInv, NoDeletes, OnlyIncs, OpenFailsOnlyOnTorn, [CrashNext]_allVars
             PROVE  NoDeletes' /\ OnlyIncs' /\ OpenFailsOnlyOnTorn'
  OBVIOUS
<1>1. Typing /\ journal \in Seq(Records) /\ Torn \in Records /\ refsFile \in [Chunks -> Nat]
  BY DEF CrashInv, Typing, TypeOK, StoreTypes, Records
<1>2. CASE Run
  <2>1. NoDeletes' /\ OnlyIncs'
    BY <1>1, <1>2, IncsStep DEF Run
  <2> QED BY <1>2, <2>1 DEF Run, OpenFailsOnlyOnTorn
<1>3. CASE Crash
  <2>1. NoDeletes'
    BY <1>3 DEF Crash, Volatile, NoDeletes, NoFault
  <2>2. OnlyIncs'
    BY <1>1, <1>3, IncsGrow DEF Crash, Grows
  <2> QED BY <1>3, <2>1, <2>2 DEF Crash, OpenFailsOnlyOnTorn
<1>4. CASE Open
  <2>1. journal' = journal /\ op' = op /\ faults' = faults
    BY <1>4 DEF Open, diskVars, callVars
  <2>2. NoDeletes' /\ OnlyIncs'
    BY <2>1 DEF NoDeletes, NoFault, OnlyIncs
  <2>3. PICK parts \in [TornAt -> 1..RecSize - 1] : up' = "failed" => ~Replayed(parts).ok
    BY <1>4 DEF Open
  <2>4. up' = "failed" => \E i \in 1..Len(journal) - 1 : journal[i] = Torn
    BY <1>1, <2>3, ReplayPasses
  <2> QED BY <2>1, <2>2, <2>4 DEF OpenFailsOnlyOnTorn
<1>5. CASE UNCHANGED allVars
  BY <1>5 DEF allVars, vars, crashVars, diskVars, callVars, NoDeletes, NoFault, OnlyIncs,
     OpenFailsOnlyOnTorn
<1> QED BY <1>2, <1>3, <1>4, <1>5 DEF CrashNext

-----------------------------------------------------------------------------

\* Without Deletes, whatever concurrent calls do and wherever they are cut
\* short, the one thing that keeps Open from succeeding is half a record with
\* other records behind it (Journal.Replay, appendRec).
THEOREM OnlyTornFailsOpen ==
    ASSUME "delete" \notin Ops
    PROVE  CrashSpec => []OpenFailsOnlyOnTorn
<1> DEFINE I == CrashInv /\ NoDeletes /\ OnlyIncs /\ OpenFailsOnlyOnTorn
<1>1. CrashInit => I
  BY CrashInvInit, RecoverInit DEF RecoverInv, CrashInit, OpenFailsOnlyOnTorn
<1>2. I /\ [CrashNext]_allVars => I'
  BY CrashInvStep, OpenFailsStep
<1>3. I => OpenFailsOnlyOnTorn
  OBVIOUS
<1> QED BY <1>1, <1>2, <1>3, PTL DEF CrashSpec

\* With one client that deletes nothing, the counts cover all references after
\* any number of crashes, at any step: replaying records that the snapshot
\* already has counts too much, never too little (persist, Journal.Replay).
THEOREM RecoveryCovers ==
    ASSUME "delete" \notin Ops, \A p, q \in Clients : p = q
    PROVE  CrashSpec => [](NoFault({"rename"}) => RecoveredCovered)
<1>1. CrashInit => CrashInv /\ RecoverInv
  BY CrashInvInit, RecoverInit
<1>2. CrashInv /\ RecoverInv /\ [CrashNext]_allVars => (CrashInv /\ RecoverInv)'
  BY CrashInvStep, RecoverStep
<1>3. RecoverInv => (NoFault({"rename"}) => RecoveredCovered)
  BY DEF RecoverInv, RefsCover, NoDeletes, RecoveredCovered
<1> QED BY <1>1, <1>2, <1>3, PTL DEF CrashSpec

\* So does every object stay readable, through crashes and the GCs after them.
THEOREM RecoveryKeepsReadable ==
    ASSUME "delete" \notin Ops, \A p, q \in Clients : p = q
    PROVE  CrashSpec => [](NoFault({"rename"}) => RecoveredReadable)
<1>1. CrashInit => CrashInv /\ RecoverInv
  BY CrashInvInit, RecoverInit
<1>2. CrashInv /\ RecoverInv /\ [CrashNext]_allVars => (CrashInv /\ RecoverInv)'
  BY CrashInvStep, RecoverStep
<1>3. RecoverInv => (NoFault({"rename"}) => RecoveredReadable)
  BY DEF RecoverInv, ChunkInv, VisibleReadable, NoDeletes, RecoveredReadable
<1> QED BY <1>1, <1>2, <1>3, PTL DEF CrashSpec
=============================================================================
