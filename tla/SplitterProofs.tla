--------------------------- MODULE SplitterProofs ---------------------------
(***************************************************************************)
(* The splitter for every policy, content and reader.  The invariant       *)
(* SplitInv says where each byte that was read is; with CutsAlike, that    *)
(* the pieces so far are the first ones of cutting the whole content at    *)
(* once.  From the two follow all of Splitter's properties.                *)
(*                                                                         *)
(* The recursions of the model (Fed, SumOf, FlattenSeq, the pieces of the  *)
(* whole content) are first shown to have the values their steps give.     *)
(***************************************************************************)
EXTENDS Splitter, TLAPS, SequenceTheorems, FiniteSetTheorems, WellFoundedInduction

-----------------------------------------------------------------------------
(* The policy *)

\* The largest of them, 4 MiB.
Largest == 4194304

\* Two powers of two less than a factor of two apart are the same.
LEMMA PowersApart ==
    ASSUME NEW a \in PowersOfTwo, NEW b \in PowersOfTwo, a < b
    PROVE  2 * a <= b
  BY SMT DEF PowersOfTwo, Largest

\* Every size up to the largest lies between a power of two and its double.
LEMMA PowerBelow ==
    ASSUME NEW n \in Int, 1 <= n, n <= Largest
    PROVE  \E a \in PowersOfTwo : a <= n /\ n < 2 * a
  BY SMT DEF PowersOfTwo, Largest

\* Powers of two are sizes.
LEMMA PowersNat == \A a \in PowersOfTwo : a \in Int /\ 1 <= a /\ a <= Largest
  BY SMT DEF PowersOfTwo, Largest

\* The greater and the smaller one of two numbers.
LEMMA MaxOfTwo ==
    ASSUME NEW a \in Int, NEW b \in Int
    PROVE  Max({a, b}) = IF a >= b THEN a ELSE b
<1> DEFINE m == IF a >= b THEN a ELSE b
<1>1. m \in {a, b} /\ \A y \in {a, b} : m >= y
  OBVIOUS
<1>2. \A x \in {a, b} : (\A y \in {a, b} : x >= y) => x = m
  BY <1>1
<1> QED BY <1>1, <1>2 DEF Max

\* Likewise.
LEMMA MinOfTwo ==
    ASSUME NEW a \in Int, NEW b \in Int
    PROVE  Min({a, b}) = IF a <= b THEN a ELSE b
<1> DEFINE m == IF a <= b THEN a ELSE b
<1>1. m \in {a, b} /\ \A y \in {a, b} : m <= y
  OBVIOUS
<1>2. \A x \in {a, b} : (\A y \in {a, b} : x <= y) => x = m
  BY <1>1
<1> QED BY <1>1, <1>2 DEF Min

\* Clamp as a case distinction.
LEMMA ClampIs ==
    ASSUME NEW x \in Int, NEW lo \in Int, NEW hi \in Int, lo <= hi
    PROVE  Clamp(x, lo, hi) = IF x < lo THEN lo ELSE IF x > hi THEN hi ELSE x
<1> DEFINE m == IF x <= hi THEN x ELSE hi
<1>1. Min({x, hi}) = m /\ m \in Int
  BY MinOfTwo
<1> HIDE DEF m
<1>2. Max({lo, m}) = IF lo >= m THEN lo ELSE m
  BY <1>1, MaxOfTwo
<1> USE DEF m
<1> QED BY <1>1, <1>2 DEF Clamp

\* The power of two below n is what NearestPow2 looks for.
LEMMA LargestPower ==
    ASSUME NEW n \in Int, NEW a \in PowersOfTwo, a <= n, n < 2 * a
    PROVE  Max({m \in PowersOfTwo : m <= n}) = a
<1> DEFINE S == {m \in PowersOfTwo : m <= n}
<1>1. a \in S /\ \A y \in S : a >= y
  <2> SUFFICES ASSUME NEW y \in PowersOfTwo, y <= n PROVE a >= y
    OBVIOUS
  <2>1. a \in Int /\ y \in Int
    BY PowersNat
  <2>2. a < y => 2 * a <= y
    BY PowersApart
  <2> QED BY <2>1, <2>2
<1>2. \A x \in S : (\A y \in S : x >= y) => x = a
  <2> TAKE x \in S
  <2> SUFFICES ASSUME \A y \in S : x >= y PROVE x = a
    OBVIOUS
  <2>1. x >= a /\ a >= x /\ x \in Int /\ a \in Int
    BY <1>1, PowersNat
  <2> QED BY <2>1
<1> HIDE DEF S
<1>3. Max(S) = a
  BY <1>1, <1>2 DEF Max
<1> QED BY <1>3 DEF S

\* NearestPow2 gives a power of two within the limit, and keeps one.
LEMMA NearestIs ==
    ASSUME NEW n \in 1..MaxAvgSize
    PROVE  /\ NearestPow2(n) \in PowersOfTwo /\ NearestPow2(n) <= MaxAvgSize
           /\ n \in PowersOfTwo => NearestPow2(n) = n
<1>1. MaxAvgSize \in PowersOfTwo /\ MaxAvgSize \in Int /\ MaxAvgSize <= Largest /\ Largest \in Int
  <2>1. Largest \in Int
    BY SMT DEF Largest
  <2> QED BY <2>1, SizesAssumption, PowersNat
<1>2. PICK a \in PowersOfTwo : a <= n /\ n < 2 * a
  <2>1. n \in Int /\ 1 <= n /\ n <= Largest
    BY <1>1
  <2> QED BY <2>1, PowerBelow
<1>3. a \in Int /\ a > 0 /\ Max({m \in PowersOfTwo : m <= n}) = a
  BY <1>2, LargestPower, PowersNat
<1>4. NearestPow2(n) = IF n - a <= 2 * a - n THEN a ELSE 2 * a
  BY <1>3 DEF NearestPow2
<1>5. a <= MaxAvgSize
  BY <1>1, <1>2, <1>3
<1>6. n # a => 2 * a <= MaxAvgSize /\ 2 * a \in PowersOfTwo
  <2> SUFFICES ASSUME n # a PROVE 2 * a <= MaxAvgSize /\ 2 * a \in PowersOfTwo
    OBVIOUS
  <2>1. a < MaxAvgSize
    BY <1>1, <1>2, <1>3
  <2>2. 2 * a <= MaxAvgSize
    BY <1>1, <2>1, PowersApart
  <2>3. 2 * a <= Largest
    BY <1>1, <1>3, <2>2
  <2>4. 2 * a \in PowersOfTwo
    BY <1>2, <2>3, SMT DEF PowersOfTwo, Largest
  <2> QED BY <2>2, <2>4
<1>7. n \in PowersOfTwo => n = a
  <2> SUFFICES ASSUME n \in PowersOfTwo, n # a PROVE FALSE
    OBVIOUS
  <2>1. 2 * a <= n
    BY <1>2, <1>3, PowersApart
  <2> QED BY <1>2, <1>3, <2>1
<1>8. n = a => NearestPow2(n) = n
  BY <1>3, <1>4
<1> QED BY <1>2, <1>4, <1>5, <1>6, <1>7, <1>8

\* The policies Normalize is asked about, and the ones it gives.
Policies == [Mode : {"fixed", "cdc"}, Avg : Int, Min : Int, Max : Int]
Sound(p) == /\ p \in [Mode : {"fixed", "cdc"}, Avg : Nat, Min : Nat, Max : Nat]
            /\ p.Avg \in PowersOfTwo /\ p.Avg <= MaxAvgSize
            /\ 1 <= p.Min /\ p.Min <= p.Avg /\ p.Avg <= p.Max /\ p.Max <= MaxAvgSize * 4

\* The largest size is one.
LEMMA SizesAre ==
    /\ MaxAvgSize \in PowersOfTwo /\ MaxAvgSize \in Nat /\ 1 <= MaxAvgSize
    /\ DefaultAvgSize \in Nat /\ 1 <= DefaultAvgSize /\ DefaultAvgSize <= MaxAvgSize
  BY SizesAssumption, PowersNat

\* AvgOf gives a power of two within the limits, and keeps one.
LEMMA AvgIs ==
    ASSUME NEW p \in Policies
    PROVE  /\ AvgOf(p) \in PowersOfTwo /\ AvgOf(p) \in Nat /\ 1 <= AvgOf(p)
           /\ AvgOf(p) <= MaxAvgSize
           /\ p.Avg \in PowersOfTwo /\ p.Avg <= MaxAvgSize => AvgOf(p) = p.Avg
<1> DEFINE n == IF p.Avg <= 0 THEN DefaultAvgSize ELSE Clamp(p.Avg, MinAvgSize, MaxAvgSize)
<1>1. p.Avg \in Int
  BY DEF Policies
<1>2. /\ n \in 1..MaxAvgSize
      /\ 1 <= p.Avg /\ p.Avg <= MaxAvgSize => n = p.Avg
  <2>1. Clamp(p.Avg, 1, MaxAvgSize) =
            IF p.Avg < 1 THEN 1 ELSE IF p.Avg > MaxAvgSize THEN MaxAvgSize ELSE p.Avg
    BY <1>1, SizesAre, ClampIs
  <2> QED BY <1>1, <2>1, SizesAre DEF MinAvgSize
<1>3. AvgOf(p) = NearestPow2(n)
  BY DEF AvgOf
<1> HIDE DEF n
<1> QED BY <1>2, <1>3, NearestIs, PowersNat

\* Normalize gives a sound policy, and keeps one.
LEMMA NormalizeIs ==
    ASSUME NEW p \in Policies
    PROVE  Sound(Normalize(p)) /\ (Sound(p) => Normalize(p) = p)
<1> DEFINE a == AvgOf(p)
           lo == MinOf(p)
           hi == MaxOf(p)
<1>1. /\ a \in PowersOfTwo /\ a \in Nat /\ 1 <= a /\ a <= MaxAvgSize
      /\ p.Avg \in PowersOfTwo /\ p.Avg <= MaxAvgSize => a = p.Avg
  BY AvgIs
<1>2. p.Mode \in {"fixed", "cdc"} /\ p.Min \in Int /\ p.Max \in Int
  BY DEF Policies
<1>3. lo \in Int /\ hi \in Int
  <2>1. lo = (IF p.Min <= 0 THEN a \div 4 ELSE p.Min) /\ hi = (IF p.Max <= 0 THEN a * 4 ELSE p.Max)
    BY DEF MinOf, MaxOf
  <2> HIDE DEF a
  <2> QED BY <1>1, <1>2, <2>1
<1>4. Normalize(p) = [Mode |-> p.Mode, Avg |-> a, Min |-> Clamp(lo, 1, a),
                      Max |-> Clamp(hi, a, MaxAvgSize * 4)]
  BY DEF Normalize
<1>5. p.Min > 0 => lo = p.Min
  BY <1>2 DEF MinOf
<1>6. p.Max > 0 => hi = p.Max
  BY <1>2 DEF MaxOf
<1> HIDE DEF a, lo, hi
<1>7. Clamp(lo, 1, a) = IF lo < 1 THEN 1 ELSE IF lo > a THEN a ELSE lo
  BY <1>1, <1>3, ClampIs
<1>8. /\ MaxAvgSize * 4 \in Int /\ a <= MaxAvgSize * 4
      /\ Clamp(hi, a, MaxAvgSize * 4) =
            IF hi < a THEN a ELSE IF hi > MaxAvgSize * 4 THEN MaxAvgSize * 4 ELSE hi
  <2>1. MaxAvgSize * 4 \in Int /\ a <= MaxAvgSize * 4 /\ a \in Int
    BY <1>1, SizesAre
  <2> DEFINE m == MaxAvgSize * 4
  <2> HIDE DEF m
  <2>2. m \in Int /\ a <= m
    BY <2>1 DEF m
  <2>3. Clamp(hi, a, m) = IF hi < a THEN a ELSE IF hi > m THEN m ELSE hi
    BY <1>3, <2>1, <2>2, ClampIs
  <2> QED BY <2>2, <2>3 DEF m
<1>9. Sound(Normalize(p))
  <2>1. Clamp(lo, 1, a) \in Nat /\ 1 <= Clamp(lo, 1, a) /\ Clamp(lo, 1, a) <= a
    BY <1>1, <1>3, <1>7
  <2>2. /\ Clamp(hi, a, MaxAvgSize * 4) \in Nat /\ a <= Clamp(hi, a, MaxAvgSize * 4)
        /\ Clamp(hi, a, MaxAvgSize * 4) <= MaxAvgSize * 4
    BY <1>1, <1>3, <1>8
  <2> QED BY <1>1, <1>2, <1>4, <2>1, <2>2 DEF Sound
<1>10. ASSUME Sound(p) PROVE Normalize(p) = p
  <2>1. a = p.Avg /\ lo = p.Min /\ hi = p.Max
    BY <1>1, <1>5, <1>6, <1>10 DEF Sound
  <2>2. Clamp(lo, 1, a) = p.Min /\ Clamp(hi, a, MaxAvgSize * 4) = p.Max
    BY <1>3, <1>7, <1>8, <1>10, <2>1 DEF Sound
  <2>3. p = [Mode |-> p.Mode, Avg |-> p.Avg, Min |-> p.Min, Max |-> p.Max]
    BY DEF Policies
  <2> QED BY <1>4, <2>1, <2>2, <2>3
<1> QED BY <1>9, <1>10

\* What the options overwrite.
Overwritten(r) == [DefaultPolicy EXCEPT !.Avg = r.size, !.Mode = ModeOf(r.cdc)]

\* The default policy is sound, and so is every store's.
LEMMA ApplySound ==
    ASSUME NEW r \in Requests
    PROVE  /\ Sound(DefaultPolicy) /\ Sound(Apply(r))
           /\ Overwritten(r) \in Policies /\ Apply(r) = Normalize(Overwritten(r))
           /\ Apply(r).Mode = ModeOf(r.cdc) /\ Apply(r).Avg = AvgOf(Overwritten(r))
           /\ Overwritten(r).Min = DefaultPolicy.Min /\ Overwritten(r).Max = DefaultPolicy.Max
<1> DEFINE d == [Mode |-> "fixed", Avg |-> DefaultAvgSize, Min |-> 0, Max |-> 0]
<1>1. d \in Policies
  BY SizesAre DEF Policies
<1>2. DefaultPolicy = Normalize(d)
  BY DEF DefaultPolicy
<1> HIDE DEF d
<1>3. Sound(DefaultPolicy)
  BY <1>1, <1>2, NormalizeIs
<1>4. DefaultPolicy \in [Mode : {"fixed", "cdc"}, Avg : Nat, Min : Nat, Max : Nat]
  BY <1>3 DEF Sound
<1>5. r.size \in Int /\ ModeOf(r.cdc) \in {"fixed", "cdc"}
  BY InputAssumption DEF ModeOf
<1>6. /\ Overwritten(r) \in Policies /\ Overwritten(r).Mode = ModeOf(r.cdc)
      /\ Overwritten(r).Min = DefaultPolicy.Min /\ Overwritten(r).Max = DefaultPolicy.Max
  <2> DEFINE e == DefaultPolicy
             m == ModeOf(r.cdc)
             z == r.size
             f == [e EXCEPT !.Avg = z]
             o == [f EXCEPT !.Mode = m]
  <2>1. Overwritten(r) = o
    BY DEF Overwritten
  <2> HIDE DEF e, m, z
  <2>2. e \in Policies /\ z \in Int /\ m \in {"fixed", "cdc"}
    BY <1>4, <1>5 DEF e, m, z, Policies
  <2>3. f \in Policies /\ f.Min = e.Min /\ f.Max = e.Max
    BY <2>2 DEF Policies
  <2> HIDE DEF f
  <2>4. o \in Policies /\ o.Mode = m /\ o.Min = f.Min /\ o.Max = f.Max
    BY <2>2, <2>3 DEF Policies
  <2> QED BY <2>1, <2>3, <2>4 DEF e, m
<1>7. Apply(r) = Normalize(Overwritten(r))
  BY DEF Apply, Overwritten
<1>8. Sound(Apply(r))
  BY <1>6, <1>7, NormalizeIs
<1>9. Apply(r).Mode = ModeOf(r.cdc) /\ Apply(r).Avg = AvgOf(Overwritten(r))
  BY <1>6, <1>7 DEF Normalize
<1> QED BY <1>3, <1>6, <1>7, <1>8, <1>9

\* Two stores with the same mode and size have the same policy.
LEMMA SameSizeSamePolicy ==
    ASSUME NEW r \in Requests, NEW q \in Requests,
           Apply(r).Mode = Apply(q).Mode, Apply(r).Avg = Apply(q).Avg
    PROVE  Apply(r) = Apply(q)
<1>1. /\ Overwritten(r).Min = Overwritten(q).Min /\ Overwritten(r).Max = Overwritten(q).Max
      /\ AvgOf(Overwritten(r)) = AvgOf(Overwritten(q))
  BY ApplySound
<1>2. /\ MinOf(Overwritten(r)) = MinOf(Overwritten(q))
      /\ MaxOf(Overwritten(r)) = MaxOf(Overwritten(q))
  BY <1>1 DEF MinOf, MaxOf
<1>3. Overwritten(r).Mode = Overwritten(q).Mode
  <2>1. Apply(r).Mode = Overwritten(r).Mode /\ Apply(q).Mode = Overwritten(q).Mode
    BY ApplySound DEF Normalize
  <2> QED BY <2>1
<1> QED BY <1>1, <1>2, <1>3, ApplySound DEF Normalize

\* The splitter's policy and algorithm are those some options amount to.
Opened == \E r \in Requests : algo = r.algo /\ policy = Apply(r)

\* A sound policy is what PolicySound says.
LEMMA SoundPolicy == Opened => Sound(policy) /\ PolicySound
<1> SUFFICES ASSUME NEW r \in Requests, policy = Apply(r) PROVE Sound(policy) /\ PolicySound
  BY DEF Opened
<1>1. Sound(policy)
  BY ApplySound
<1>2. policy \in Policies
  BY <1>1 DEF Sound, Policies
<1>3. Normalize(policy) = policy
  BY <1>1, <1>2, NormalizeIs
<1> QED BY <1>1, <1>3 DEF PolicySound, Sound

\* The configuration tells the policies of two stores apart.
LEMMA ReopenAlike == Opened => ReopenSplitsAlike
<1> SUFFICES ASSUME NEW q \in Requests, algo = q.algo, policy = Apply(q),
                    NEW r \in Requests
             PROVE  LET accepted == Compatible(Config(algo, policy), Config(r.algo, Apply(r)))
                    IN /\ accepted => Apply(r) = policy /\ Lookup(r.algo) = Lookup(algo)
                       /\ Apply(r) = policy /\ r.algo = algo => accepted
  BY DEF Opened, ReopenSplitsAlike
<1> DEFINE accepted == Compatible(Config(algo, policy), Config(r.algo, Apply(r)))
<1>1. accepted <=> /\ algo = r.algo /\ policy.Avg = Apply(r).Avg
                   /\ (policy.Mode = "cdc") = (Apply(r).Mode = "cdc")
  BY DEF Compatible, Config
<1>2. policy.Mode \in {"fixed", "cdc"} /\ Apply(r).Mode \in {"fixed", "cdc"}
  BY ApplySound DEF Sound
<1>3. accepted => Apply(r) = policy
  BY <1>1, <1>2, SameSizeSamePolicy
<1> QED BY <1>1, <1>3

\* Opening fixes the policy and the algorithm.
LEMMA OpenedInvariant == Spec => []Opened
<1>1. Init => Opened
  BY DEF Init, Opened
<1>2. Opened /\ [Next]_vars => Opened'
  <2> SUFFICES ASSUME Opened, [Next]_vars PROVE Opened'
    OBVIOUS
  <2>1. algo' = algo /\ policy' = policy
    BY DEF Next, NextEOF, NextFixed, ScanCarry, ReadCDC, vars, inputVars
  <2> QED BY <2>1 DEF Opened
<1> QED BY <1>1, <1>2, PTL DEF Spec

\* Whatever options a store is opened with, its splitter's policy is sound.
THEOREM PoliciesSound == Spec => []PolicySound
  BY OpenedInvariant, SoundPolicy, PTL

\* A later Open of the root is refused or splits as this store does.
THEOREM ReopensAlike == Spec => []ReopenSplitsAlike
  BY OpenedInvariant, ReopenAlike, PTL

-----------------------------------------------------------------------------
(* Folds, and the rolling hash *)

\* A nonempty set of numbers has a least one.
LEMMA LeastOf ==
    ASSUME NEW T \in SUBSET Nat, T # {}
    PROVE  \E m \in T : \A u \in T : m <= u
<1>1. PICK n \in T : TRUE
  OBVIOUS
<1> DEFINE S == 1..n
           Q == {1..u : u \in {v \in T : v <= n}}
<1>2. IsFiniteSet(S)
  BY FS_Interval
<1>3. IsWellFoundedOn(StrictSubsetOrdering(S), FiniteSubsetsOf(S))
  BY <1>2, FS_StrictSubsetOrderingWellFounded
<1>4. FiniteSubsetsOf(S) = SUBSET S
  BY <1>2, FS_FiniteSubsetsOfFinite
<1>5. Q \subseteq FiniteSubsetsOf(S) /\ Q # {}
  <2>1. \A u \in T : u <= n => 1..u \subseteq S
    OBVIOUS
  <2> QED BY <1>1, <1>4, <2>1
<1> HIDE DEF Q, S
<1>6. PICK w \in Q : \A y \in Q : <<y, w>> \notin StrictSubsetOrdering(S)
  BY <1>3, <1>5, WFMin
<1> USE DEF Q, S
<1>7. PICK m \in T : m <= n /\ w = 1..m
  OBVIOUS
<1>8. ASSUME NEW u \in T, u < m
      PROVE  FALSE
  <2>1. 1..u \in Q /\ 1..u \in SUBSET S /\ w \in SUBSET S
    BY <1>7, <1>8
  <2>2. 1..u \subseteq 1..m /\ m \in 1..m /\ m \notin 1..u
    BY <1>8
  <2>3. <<1..u, w>> \in StrictSubsetOrdering(S)
    BY <1>7, <2>1, <2>2 DEF StrictSubsetOrdering
  <2> QED BY <1>6, <2>1, <2>3
<1> QED BY <1>7, <1>8

\* g folds the steps over the subsets of 1..n, the greatest index last.
Folding(g, b, n, step) ==
    /\ g[{}] = b
    /\ \A t \in SUBSET (1..n) : t # {} => g[t] = step[Max(t)][g[t \ {Max(t)}]]

\* There is such a function.
LEMMA FoldExists ==
    ASSUME NEW X, NEW b \in X, NEW n \in Nat, NEW step \in [1..n -> [X -> X]]
    PROVE  \E g \in [SUBSET (1..n) -> X] : Folding(g, b, n, step)
<1> USE DEF Folding
<1> DEFINE Folds(g, k) == Folding(g, b, k, step)
           Folded(k) == \E g \in [SUBSET (1..k) -> X] : Folds(g, k)
           T == {k \in 0..n : ~Folded(k)}
<1> SUFFICES ASSUME T # {} PROVE FALSE
  <2>1. n \in 0..n
    OBVIOUS
  <2>2. T = {} => Folded(n)
    <3> HIDE DEF Folded
    <3> QED BY <2>1
  <2> QED BY <2>2
<1>1. PICK m \in T : \A u \in T : m <= u
  <2>1. T \in SUBSET Nat
    OBVIOUS
  <2> HIDE DEF T
  <2> QED BY <2>1, LeastOf
<1>2. CASE m = 0
  <2>1. SUBSET (1..m) = {{}}
    BY <1>2
  <2> DEFINE h == [t \in SUBSET (1..m) |-> b]
  <2>2. h \in [SUBSET (1..m) -> X] /\ Folds(h, m)
    BY <2>1
  <2> QED BY <2>2
<1>3. CASE m # 0
  <2>1. m \in 1..n /\ m - 1 \in 0..n /\ m - 1 \notin T
    <3>1. m \in 0..n
      OBVIOUS
    <3> HIDE DEF T
    <3> QED BY <1>1, <1>3, <3>1
  <2>2. PICK g \in [SUBSET (1..(m - 1)) -> X] : Folds(g, m - 1)
    BY <2>1
  <2> DEFINE h == [t \in SUBSET (1..m) |-> IF m \in t THEN step[m][g[t \ {m}]] ELSE g[t]]
  <2>3. \A t \in SUBSET (1..m) : /\ m \in t => t \ {m} \in SUBSET (1..(m - 1))
                                 /\ m \notin t => t \in SUBSET (1..(m - 1))
    BY <2>1
  <2>4. h \in [SUBSET (1..m) -> X]
    BY <2>1, <2>3
  <2>5. h[{}] = b
    BY <2>2
  <2>6. ASSUME NEW t \in SUBSET (1..m), t # {}
        PROVE  h[t] = step[Max(t)][h[t \ {Max(t)}]]
    <3>1. CASE m \in t
      <4>1. Max(t) = m
        <5>1. \A y \in t : m >= y
          BY <2>1
        <5>2. \A x \in t : (\A y \in t : x >= y) => x = m
          BY <2>1, <3>1
        <5> QED BY <3>1, <5>1, <5>2 DEF Max
      <4>2. t \ {m} \in SUBSET (1..m) /\ m \notin t \ {m}
        OBVIOUS
      <4>3. h[t \ {m}] = g[t \ {m}]
        BY <4>2
      <4> QED BY <3>1, <4>1, <4>3
    <3>2. CASE m \notin t
      <4>1. /\ t \in SUBSET (1..(m - 1))
            /\ t \ {Max(t)} \in SUBSET (1..m) /\ m \notin t \ {Max(t)}
        BY <2>3, <3>2
      <4>2. h[t] = g[t] /\ h[t \ {Max(t)}] = g[t \ {Max(t)}]
        BY <3>2, <4>1
      <4> QED BY <2>2, <2>6, <4>1, <4>2
    <3> QED BY <3>1, <3>2
  <2>7. Folds(h, m)
    BY <2>5, <2>6
  <2> QED BY <2>4, <2>7
<1> QED BY <1>2, <1>3

\* A nonempty set of indices has a greatest one.
LEMMA MaxIn ==
    ASSUME NEW n \in Nat, NEW t \in SUBSET (1..n), t # {}
    PROVE  Max(t) \in t
<1> DEFINE T == {n - u : u \in t}
<1>1. T \in SUBSET Nat /\ T # {}
  <2>1. \A u \in t : n - u \in Nat
    OBVIOUS
  <2> QED BY <2>1
<1> HIDE DEF T
<1>2. PICK m \in T : \A u \in T : m <= u
  BY <1>1, LeastOf
<1> USE DEF T
<1>3. PICK x \in t : m = n - x
  OBVIOUS
<1>4. \A y \in t : x >= y
  <2> TAKE y \in t
  <2>1. n - y \in T
    OBVIOUS
  <2>2. n - x <= n - y
    <3> HIDE DEF T
    <3> QED BY <1>2, <1>3, <2>1
  <2>3. x \in 1..n /\ y \in 1..n
    OBVIOUS
  <2> QED BY <2>2, <2>3
<1> QED BY <1>4 DEF Max

\* The greatest index of a prefix is its last one.
LEMMA MaxOfPrefix ==
    ASSUME NEW k \in Nat \ {0}
    PROVE  1..k # {} /\ Max(1..k) = k /\ (1..k) \ {k} = 1..(k - 1)
<1>1. k \in 1..k /\ \A y \in 1..k : k >= y
  OBVIOUS
<1>2. \A x \in 1..k : (\A y \in 1..k : x >= y) => x = k
  BY <1>1
<1>3. Max(1..k) = k
  BY <1>1, <1>2 DEF Max
<1>4. (1..k) \ {k} = 1..(k - 1)
  OBVIOUS
<1> QED BY <1>1, <1>3, <1>4

\* The values the rolling hash takes over a sequence, one byte at a time.
Gears == [hash : 0..(HashRange - 1), n : Nat]
Push(g, b) == [hash |-> (2 * g.hash + GearTable[b]) % HashRange, n |-> g.n + 1]
Rolls(h, g, s) == /\ h \in [0..Len(s) -> Gears] /\ h[0] = g
                  /\ \A k \in 1..Len(s) : h[k] = Push(h[k - 1], s[k])

\* Pushing a byte gives one of these values.
LEMMA PushTyped ==
    ASSUME NEW g \in Gears, NEW b \in Bytes
    PROVE  Push(g, b) \in Gears
<1> DEFINE v == 2 * g.hash + GearTable[b]
<1>1. HashRange \in Nat \ {0} /\ GearTable[b] \in Nat
  BY SizesAssumption, GearAssumption
<1>2. v \in Nat /\ g.n + 1 \in Nat
  <2>1. g.hash \in Nat /\ g.n \in Nat
    BY DEF Gears
  <2> QED BY <1>1, <2>1
<1> HIDE DEF v
<1>3. v % HashRange \in 0..(HashRange - 1)
  BY <1>1, <1>2
<1> QED BY <1>2, <1>3 DEF Push, Gears, v

\* What FoldLeft goes through for Fed.
FedFolds(f, g, s) ==
    f = [t \in SUBSET DOMAIN s |->
            IF t = {} THEN g ELSE Push(f[t \ {Max(t)}], s[Max(t)])]

\* Fed is what that function gives for all of the bytes.
LEMMA FedIs ==
    ASSUME NEW g, NEW s
    PROVE  Fed(g, s) = (CHOOSE f : FedFolds(f, g, s))[DOMAIN s]
  BY DEF Fed, FoldLeft, MapThenFoldSet, FedFolds, Push

\* Fed is the last value of the rolling hash.
LEMMA FedRolls ==
    ASSUME NEW g \in Gears, NEW s \in Seq(Bytes)
    PROVE  \E h : Rolls(h, g, s) /\ Fed(g, s) = h[Len(s)]
<1> DEFINE n == Len(s)
           G == CHOOSE f : FedFolds(f, g, s)
<1>1. n \in Nat /\ DOMAIN s = 1..n /\ \A i \in 1..n : s[i] \in Bytes
  BY LenProperties
<1>2. Fed(g, s) = G[1..n]
  BY <1>1, FedIs
<1> HIDE DEF n
<1>3. FedFolds(G, g, s)
  <2> DEFINE step == [i \in 1..n |-> [x \in Gears |-> Push(x, s[i])]]
  <2>1. step \in [1..n -> [Gears -> Gears]]
    BY <1>1, PushTyped
  <2> HIDE DEF step
  <2>2. PICK f \in [SUBSET (1..n) -> Gears] : Folding(f, g, n, step)
    BY <1>1, <2>1, FoldExists
  <2>3. ASSUME NEW t \in SUBSET (1..n), t # {}
        PROVE  f[t] = Push(f[t \ {Max(t)}], s[Max(t)])
    <3>1. Max(t) \in t
      BY <1>1, <2>3, MaxIn
    <3>2. f[t \ {Max(t)}] \in Gears /\ Max(t) \in 1..n
      BY <3>1
    <3>3. step[Max(t)][f[t \ {Max(t)}]] = Push(f[t \ {Max(t)}], s[Max(t)])
      BY <3>2 DEF step
    <3> QED BY <2>2, <2>3, <3>3 DEF Folding
  <2>4. f = [t \in SUBSET (1..n) |-> f[t]]
    OBVIOUS
  <2>5. f[{}] = g
    BY <2>2 DEF Folding
  <2>6. FedFolds(f, g, s)
    BY <1>1, <2>3, <2>4, <2>5 DEF FedFolds
  <2> QED BY <2>6
<1> HIDE DEF G
<1>4. /\ G[{}] = g
      /\ \A t \in SUBSET (1..n) : t # {} => G[t] = Push(G[t \ {Max(t)}], s[Max(t)])
  <2> DEFINE body(t) == IF t = {} THEN g ELSE Push(G[t \ {Max(t)}], s[Max(t)])
  <2>1. G = [t \in SUBSET (1..n) |-> body(t)]
    BY <1>1, <1>3 DEF FedFolds
  <2> HIDE DEF body
  <2>2. \A t \in SUBSET (1..n) : G[t] = body(t)
    BY <2>1
  <2> QED BY <2>2 DEF body
<1> DEFINE h == [k \in 0..n |-> G[1..k]]
<1>5. h[0] = g
  <2>1. 1..0 = {}
    OBVIOUS
  <2> QED BY <1>1, <1>4, <2>1
<1>6. \A k \in 1..n : h[k] = Push(h[k - 1], s[k])
  <2> TAKE k \in 1..n
  <2>1. 1..k \in SUBSET (1..n) /\ 1..k # {} /\ Max(1..k) = k /\ (1..k) \ {k} = 1..(k - 1)
    <3>1. 1..k \in SUBSET (1..n) /\ k \in Nat \ {0}
      BY <1>1
    <3> QED BY <3>1, MaxOfPrefix
  <2>2. k \in 0..n /\ k - 1 \in 0..n
    BY <1>1
  <2>3. h[k] = G[1..k] /\ h[k - 1] = G[1..(k - 1)]
    BY <2>2
  <2> HIDE DEF h
  <2> QED BY <1>4, <2>1, <2>3
<1>7. h[n] = G[1..n]
  BY <1>1
<1>8. \A k \in 0..n : h[k] \in Gears
  <2> HIDE DEF h
  <2> DEFINE T == {k \in 0..n : h[k] \notin Gears}
  <2> SUFFICES ASSUME T # {} PROVE FALSE
    OBVIOUS
  <2>1. T \in SUBSET Nat
    OBVIOUS
  <2>2. PICK m \in T : \A u \in T : m <= u
    <3> HIDE DEF T
    <3> QED BY <2>1, LeastOf
  <2>3. m \in 0..n /\ m # 0
    BY <1>5
  <2>4. m \in 1..n /\ m - 1 \in 0..n /\ m - 1 \notin T
    <3> HIDE DEF T
    <3> QED BY <1>1, <2>2, <2>3
  <2>5. h[m - 1] \in Gears /\ s[m] \in Bytes
    BY <1>1, <2>4
  <2>6. h[m] \in Gears
    BY <1>6, <2>4, <2>5, PushTyped
  <2> QED BY <2>6
<1>9. DOMAIN h = 0..n
  OBVIOUS
<1> HIDE DEF h
<1>10. h \in [0..n -> Gears]
  <2>1. h = [k \in 0..n |-> h[k]]
    BY DEF h
  <2> QED BY <1>8, <2>1
<1>11. Rolls(h, g, s)
  BY <1>5, <1>6, <1>10 DEF Rolls, n
<1> QED BY <1>2, <1>7, <1>11 DEF n

\* Where two sequences agree, so does the rolling hash.
LEMMA RollsAgree ==
    ASSUME NEW g \in Gears, NEW s \in Seq(Bytes), NEW t \in Seq(Bytes), Len(s) <= Len(t),
           \A i \in 1..Len(s) : s[i] = t[i],
           NEW h, Rolls(h, g, s), NEW f, Rolls(f, g, t)
    PROVE  \A k \in 0..Len(s) : h[k] = f[k]
<1> DEFINE T == {k \in 0..Len(s) : h[k] # f[k]}
<1> SUFFICES ASSUME T # {} PROVE FALSE
  OBVIOUS
<1>1. T \in SUBSET Nat /\ Len(s) \in Nat /\ Len(t) \in Nat
  BY LenProperties
<1>2. PICK m \in T : \A u \in T : m <= u
  <2> HIDE DEF T
  <2> QED BY <1>1, LeastOf
<1>3. m \in 0..Len(s) /\ h[m] # f[m] /\ m # 0
  BY DEF Rolls
<1>4. m \in 1..Len(s) /\ m - 1 \in 0..Len(s) /\ m - 1 \notin T /\ m \in 1..Len(t)
  <2> HIDE DEF T
  <2> QED BY <1>1, <1>2, <1>3
<1>5. h[m - 1] = f[m - 1]
  BY <1>4
<1> HIDE DEF T
<1>6. h[m] = Push(h[m - 1], s[m]) /\ f[m] = Push(f[m - 1], t[m])
  BY <1>4, ZenonT(60) DEF Rolls
<1> QED BY <1>3, <1>4, <1>5, <1>6

\* The first i bytes of a sequence.
LEMMA UptoIs ==
    ASSUME NEW X, NEW s \in Seq(X), NEW i \in 0..Len(s)
    PROVE  /\ Upto(s, i) \in Seq(X) /\ Len(Upto(s, i)) = i
           /\ \A j \in 1..i : Upto(s, i)[j] = s[j]
<1>1. i \in Nat /\ 1 \in Int /\ i \in Int /\ \A j \in 1..i : j \in 1..Len(s)
  BY LenProperties
<1>2. \A j \in 1..i : s[j] \in X
  BY <1>1, ElementOfSeq, SMTT(30)
<1>3. /\ SubSeq(s, 1, i) \in Seq(X)
      /\ Len(SubSeq(s, 1, i)) = IF 1 <= i THEN i - 1 + 1 ELSE 0
      /\ \A j \in 1..(i - 1 + 1) : SubSeq(s, 1, i)[j] = s[1 + j - 1]
  BY <1>1, <1>2, SubSeqProperties, SMTT(30)
<1>4. i - 1 + 1 = i /\ \A j \in 1..i : 1 + j - 1 = j
  BY <1>1, SMTT(30)
<1> QED BY <1>1, <1>3, <1>4 DEF Upto

\* The bytes after the first i.
LEMMA AfterIs ==
    ASSUME NEW X, NEW s \in Seq(X), NEW i \in 0..Len(s)
    PROVE  /\ After(s, i) \in Seq(X) /\ Len(After(s, i)) = Len(s) - i
           /\ \A j \in 1..(Len(s) - i) : After(s, i)[j] = s[i + j]
<1>1. i \in Nat /\ i + 1 \in Int /\ Len(s) \in Int /\ \A j \in i + 1..Len(s) : j \in 1..Len(s)
  BY LenProperties
<1>2. \A j \in i + 1..Len(s) : s[j] \in X
  BY <1>1, ElementOfSeq
<1>3. /\ SubSeq(s, i + 1, Len(s)) \in Seq(X)
      /\ Len(SubSeq(s, i + 1, Len(s))) = IF i + 1 <= Len(s) THEN Len(s) - (i + 1) + 1 ELSE 0
      /\ \A j \in 1..(Len(s) - (i + 1) + 1) : SubSeq(s, i + 1, Len(s))[j] = s[i + 1 + j - 1]
  BY <1>1, <1>2, SubSeqProperties
<1>4. /\ Len(s) - (i + 1) + 1 = Len(s) - i /\ \A j \in 1..(Len(s) - i) : i + 1 + j - 1 = i + j
      /\ (IF i + 1 <= Len(s) THEN Len(s) - (i + 1) + 1 ELSE 0) = Len(s) - i
  <2>1. i \in Int /\ i <= Len(s)
    BY <1>1
  <2> QED BY <1>1, <2>1
<1>5. \A j \in 1..(Len(s) - i) : SubSeq(s, i + 1, Len(s))[j] = s[i + j]
  BY <1>3, <1>4
<1> QED BY <1>3, <1>4, <1>5 DEF After

\* The hash after the first k bytes is a value it takes over all of them.
LEMMA FedUpto ==
    ASSUME NEW g \in Gears, NEW s \in Seq(Bytes), NEW h, Rolls(h, g, s),
           NEW k \in 0..Len(s)
    PROVE  Fed(g, Upto(s, k)) = h[k]
<1>1. /\ Upto(s, k) \in Seq(Bytes) /\ Len(Upto(s, k)) = k
      /\ \A j \in 1..k : Upto(s, k)[j] = s[j]
  BY UptoIs
<1>2. PICK f : Rolls(f, g, Upto(s, k)) /\ Fed(g, Upto(s, k)) = f[k]
  BY <1>1, FedRolls
<1>3. k <= Len(s) /\ k \in 0..k /\ Len(s) \in Nat
  BY LenProperties
<1>4. \A j \in 0..k : f[j] = h[j]
  BY <1>1, <1>2, <1>3, RollsAgree
<1> QED BY <1>2, <1>3, <1>4

\* The rolling hash is typed, and counts the bytes.
LEMMA FedTyped ==
    ASSUME NEW g \in Gears, NEW s \in Seq(Bytes)
    PROVE  Fed(g, s) \in Gears /\ Fed(g, s).n = g.n + Len(s)
<1>1. PICK h : Rolls(h, g, s) /\ Fed(g, s) = h[Len(s)]
  BY FedRolls
<1>2. Len(s) \in Nat /\ Len(s) \in 0..Len(s)
  BY LenProperties
<1>3. Fed(g, s) \in Gears
  BY <1>1, <1>2 DEF Rolls
<1>4. \A k \in 0..Len(s) : h[k].n = g.n + k
  <2> DEFINE T == {k \in 0..Len(s) : h[k].n # g.n + k}
  <2> SUFFICES ASSUME T # {} PROVE FALSE
    OBVIOUS
  <2>1. T \in SUBSET Nat
    BY <1>2
  <2>2. PICK m \in T : \A u \in T : m <= u
    <3> HIDE DEF T
    <3> QED BY <2>1, LeastOf
  <2>3. m \in 0..Len(s) /\ m # 0
    BY <1>1 DEF Rolls, Gears
  <2>4. m \in 1..Len(s) /\ m - 1 \in 0..Len(s) /\ m - 1 \notin T
    <3> HIDE DEF T
    <3> QED BY <1>2, <2>2, <2>3
  <2>5. h[m - 1].n = g.n + (m - 1) /\ g.n \in Nat
    BY <2>4 DEF Gears
  <2>6. h[m].n = h[m - 1].n + 1
    <3>1. h[m] = Push(h[m - 1], s[m])
      BY <1>1, <2>4 DEF Rolls
    <3> QED BY <3>1 DEF Push
  <2> QED BY <2>4, <2>5, <2>6
<1> QED BY <1>1, <1>2, <1>3, <1>4

\* Hashing goes on where it stopped.
LEMMA FedConcat ==
    ASSUME NEW g \in Gears, NEW s \in Seq(Bytes), NEW t \in Seq(Bytes)
    PROVE  Fed(Fed(g, s), t) = Fed(g, s \o t)
<1> DEFINE u == s \o t
           n == Len(s)
           m == Len(t)
<1>1. /\ u \in Seq(Bytes) /\ n \in Nat /\ m \in Nat /\ Len(u) = n + m
      /\ \A i \in 1..n + m : u[i] = IF i <= n THEN s[i] ELSE t[i - n]
  BY ConcatProperties, LenProperties
<1>2. PICK h : Rolls(h, g, u) /\ Fed(g, u) = h[n + m]
  BY <1>1, FedRolls
<1>3. PICK f : Rolls(f, g, s) /\ Fed(g, s) = f[n]
  BY FedRolls
<1>4. Fed(g, s) = h[n] /\ Fed(g, s) \in Gears
  <2>1. \A i \in 1..Len(s) : s[i] = u[i]
    BY <1>1
  <2>2. u \in Seq(Bytes) /\ Len(s) <= Len(u) /\ n \in 0..Len(s)
    BY <1>1
  <2> HIDE DEF u
  <2>3. Rolls(h, g, u) /\ Rolls(f, g, s)
    BY <1>2, <1>3
  <2>4. \A k \in 0..Len(s) : f[k] = h[k]
    <3> HIDE DEF n
    <3> QED BY <2>1, <2>2, <2>3, RollsAgree
  <2> QED BY <1>3, <2>2, <2>4, FedTyped
<1> DEFINE e == [k \in 0..m |-> h[n + k]]
<1>5. Rolls(e, Fed(g, s), t)
  <2> HIDE DEF u, n, m
  <2>1. \A k \in 0..m : n + k \in 0..Len(u)
    BY <1>1
  <2>2. e \in [0..m -> Gears]
    BY <1>1, <1>2, <2>1 DEF Rolls
  <2>3. e[0] = Fed(g, s)
    BY <1>1, <1>4
  <2>4. ASSUME NEW k \in 1..m PROVE e[k] = Push(e[k - 1], t[k])
    <3>1. k \in 0..m /\ k - 1 \in 0..m /\ n + k \in 1..Len(u) /\ (n + k) - 1 = n + (k - 1)
      BY <1>1
    <3>2. u[n + k] = t[k]
      BY <1>1, <3>1, SMTT(30)
    <3>3. h[n + k] = Push(h[(n + k) - 1], u[n + k])
      BY <1>2, <3>1 DEF Rolls
    <3>4. e[k] = h[n + k] /\ e[k - 1] = h[n + (k - 1)]
      BY <3>1
    <3> QED BY <3>1, <3>2, <3>3, <3>4
  <2> HIDE DEF e
  <2> QED BY <2>2, <2>3, <2>4 DEF Rolls, m
<1>6. e[m] = h[n + m]
  BY <1>1
<1> HIDE DEF e, u, n, m
<1>7. PICK d : Rolls(d, Fed(g, s), t) /\ Fed(Fed(g, s), t) = d[Len(t)]
  BY <1>4, FedRolls
<1>8. d[Len(t)] = e[Len(t)]
  <2>1. Len(t) \in 0..Len(t) /\ Len(t) <= Len(t)
    BY LenProperties
  <2> QED BY <1>4, <1>5, <1>7, <2>1, RollsAgree
<1> QED BY <1>2, <1>6, <1>7, <1>8 DEF m, u

\* Nothing hashed changes nothing.
LEMMA FedNone ==
    ASSUME NEW g \in Gears
    PROVE  Fed(g, <<>>) = g
<1>1. <<>> \in Seq(Bytes) /\ Len(<<>>) = 0
  OBVIOUS
<1>2. PICK h : Rolls(h, g, <<>>) /\ Fed(g, <<>>) = h[0]
  BY <1>1, FedRolls
<1> QED BY <1>2 DEF Rolls

-----------------------------------------------------------------------------
(* Sums, and sequences put together *)

\* The sums of the first numbers of a sequence.
Sums(h, s) == /\ h \in [0..Len(s) -> Nat] /\ h[0] = 0
              /\ \A k \in 1..Len(s) : h[k] = h[k - 1] + s[k]

\* What FoldLeft goes through for SumOf.
SumFolds(f, s) ==
    f = [t \in SUBSET DOMAIN s |-> IF t = {} THEN 0 ELSE f[t \ {Max(t)}] + s[Max(t)]]

\* SumOf is what that function gives for all of the numbers.
LEMMA SumIs ==
    ASSUME NEW s
    PROVE  SumOf(s) = (CHOOSE f : SumFolds(f, s))[DOMAIN s]
  BY DEF SumOf, FoldLeft, MapThenFoldSet, SumFolds

\* SumOf is the last of the sums.
LEMMA SumOfSums ==
    ASSUME NEW s \in Seq(Nat)
    PROVE  \E h : Sums(h, s) /\ SumOf(s) = h[Len(s)]
<1> DEFINE n == Len(s)
           G == CHOOSE f : SumFolds(f, s)
<1>1. n \in Nat /\ DOMAIN s = 1..n /\ \A i \in 1..n : s[i] \in Nat
  BY LenProperties
<1>2. SumOf(s) = G[1..n]
  BY <1>1, SumIs
<1> HIDE DEF n
<1>3. SumFolds(G, s)
  <2> DEFINE step == [i \in 1..n |-> [x \in Nat |-> x + s[i]]]
  <2>1. step \in [1..n -> [Nat -> Nat]] /\ 0 \in Nat
    BY <1>1
  <2> HIDE DEF step
  <2>2. PICK f \in [SUBSET (1..n) -> Nat] : Folding(f, 0, n, step)
    BY <1>1, <2>1, FoldExists
  <2>3. ASSUME NEW t \in SUBSET (1..n), t # {}
        PROVE  f[t] = f[t \ {Max(t)}] + s[Max(t)]
    <3>1. Max(t) \in t
      BY <1>1, <2>3, MaxIn
    <3>2. f[t \ {Max(t)}] \in Nat /\ Max(t) \in 1..n
      BY <3>1
    <3>3. step[Max(t)][f[t \ {Max(t)}]] = f[t \ {Max(t)}] + s[Max(t)]
      BY <3>2 DEF step
    <3> QED BY <2>2, <2>3, <3>3 DEF Folding
  <2>4. f = [t \in SUBSET (1..n) |-> f[t]]
    OBVIOUS
  <2>5. f[{}] = 0
    BY <2>2 DEF Folding
  <2>6. SumFolds(f, s)
    BY <1>1, <2>3, <2>4, <2>5 DEF SumFolds
  <2> QED BY <2>6
<1> HIDE DEF G
<1>4. /\ G[{}] = 0
      /\ \A t \in SUBSET (1..n) : t # {} => G[t] = G[t \ {Max(t)}] + s[Max(t)]
  <2> DEFINE body(t) == IF t = {} THEN 0 ELSE G[t \ {Max(t)}] + s[Max(t)]
  <2>1. G = [t \in SUBSET (1..n) |-> body(t)]
    BY <1>1, <1>3 DEF SumFolds
  <2> HIDE DEF body
  <2>2. \A t \in SUBSET (1..n) : G[t] = body(t)
    BY <2>1
  <2> QED BY <2>2 DEF body
<1> DEFINE h == [k \in 0..n |-> G[1..k]]
<1>5. h[0] = 0
  <2>1. 1..0 = {}
    OBVIOUS
  <2> QED BY <1>1, <1>4, <2>1
<1>6. \A k \in 1..n : h[k] = h[k - 1] + s[k]
  <2> TAKE k \in 1..n
  <2>1. 1..k \in SUBSET (1..n) /\ 1..k # {} /\ Max(1..k) = k /\ (1..k) \ {k} = 1..(k - 1)
    <3>1. 1..k \in SUBSET (1..n) /\ k \in Nat \ {0}
      BY <1>1
    <3> QED BY <3>1, MaxOfPrefix
  <2>2. k \in 0..n /\ k - 1 \in 0..n
    BY <1>1
  <2>3. h[k] = G[1..k] /\ h[k - 1] = G[1..(k - 1)]
    BY <2>2
  <2> HIDE DEF h
  <2> QED BY <1>4, <2>1, <2>3
<1>7. h[n] = G[1..n]
  BY <1>1
<1>8. \A k \in 0..n : h[k] \in Nat
  <2> HIDE DEF h
  <2> DEFINE T == {k \in 0..n : h[k] \notin Nat}
  <2> SUFFICES ASSUME T # {} PROVE FALSE
    OBVIOUS
  <2>1. T \in SUBSET Nat
    OBVIOUS
  <2>2. PICK m \in T : \A u \in T : m <= u
    <3> HIDE DEF T
    <3> QED BY <2>1, LeastOf
  <2>3. m \in 0..n /\ m # 0
    BY <1>5
  <2>4. m \in 1..n /\ m - 1 \in 0..n /\ m - 1 \notin T
    <3> HIDE DEF T
    <3> QED BY <1>1, <2>2, <2>3
  <2>5. h[m - 1] \in Nat /\ s[m] \in Nat
    BY <1>1, <2>4
  <2>6. h[m] \in Nat
    BY <1>6, <2>4, <2>5
  <2> QED BY <2>6
<1>9. h = [k \in 0..n |-> h[k]]
  OBVIOUS
<1> HIDE DEF h
<1>10. h \in [0..n -> Nat]
  BY <1>8, <1>9
<1>11. Sums(h, s)
  BY <1>5, <1>6, <1>10 DEF Sums, n
<1> QED BY <1>2, <1>7, <1>11 DEF n

\* One more number adds itself to the sum.
LEMMA SumAppend ==
    ASSUME NEW s \in Seq(Nat), NEW x \in Nat
    PROVE  SumOf(s) \in Nat /\ SumOf(Append(s, x)) = SumOf(s) + x
<1> DEFINE t == Append(s, x)
<1>1. /\ t \in Seq(Nat) /\ Len(t) = Len(s) + 1 /\ t[Len(s) + 1] = x
      /\ \A i \in 1..Len(s) : t[i] = s[i]
  BY AppendProperties
<1> HIDE DEF t
<1>2. PICK h : Sums(h, s) /\ SumOf(s) = h[Len(s)]
  BY SumOfSums
<1>3. PICK f : Sums(f, t) /\ SumOf(t) = f[Len(t)]
  BY <1>1, SumOfSums
<1>4. Len(s) \in Nat
  BY LenProperties
<1>5. \A k \in 0..Len(s) : h[k] = f[k]
  <2> DEFINE T == {k \in 0..Len(s) : h[k] # f[k]}
  <2> SUFFICES ASSUME T # {} PROVE FALSE
    OBVIOUS
  <2>1. T \in SUBSET Nat
    BY <1>4
  <2>2. PICK m \in T : \A u \in T : m <= u
    <3> HIDE DEF T
    <3> QED BY <2>1, LeastOf
  <2>3. m \in 0..Len(s) /\ h[m] # f[m] /\ m # 0
    BY <1>2, <1>3 DEF Sums
  <2>4. m \in 1..Len(s) /\ m - 1 \in 0..Len(s) /\ m - 1 \notin T /\ m \in 1..Len(t)
    <3> HIDE DEF T
    <3> QED BY <1>1, <1>4, <2>2, <2>3
  <2>5. h[m - 1] = f[m - 1]
    BY <2>4
  <2> HIDE DEF T
  <2>6. h[m] = h[m - 1] + s[m] /\ f[m] = f[m - 1] + t[m]
    BY <1>2, <1>3, <2>4 DEF Sums
  <2> QED BY <1>1, <2>3, <2>4, <2>5, <2>6
<1>6. h[Len(s)] \in Nat /\ h[Len(s)] = f[Len(s)]
  BY <1>2, <1>4, <1>5 DEF Sums
<1>7. f[Len(s) + 1] = f[Len(s)] + x
  <2>1. Len(s) + 1 \in 1..Len(t) /\ (Len(s) + 1) - 1 = Len(s)
    BY <1>1, <1>4
  <2> QED BY <1>1, <1>3, <2>1 DEF Sums
<1> QED BY <1>1, <1>2, <1>3, <1>6, <1>7 DEF t

\* The sum of nothing.
LEMMA SumNone == SumOf(<<>>) = 0
<1>1. <<>> \in Seq(Nat) /\ Len(<<>>) = 0
  OBVIOUS
<1>2. PICK h : Sums(h, <<>>) /\ SumOf(<<>>) = h[0]
  BY <1>1, SumOfSums
<1> QED BY <1>2 DEF Sums

\* The first sequences of a sequence put together.
Joins(h, s, X) == /\ h \in [0..Len(s) -> Seq(X)] /\ h[0] = <<>>
                  /\ \A k \in 1..Len(s) : h[k] = h[k - 1] \o s[k]

\* What FlattenSeq goes through.
Flattens(g, s) == g = [i \in 1..Len(s) |-> IF i = 1 THEN s[i] ELSE g[i - 1] \o s[i]]

\* FlattenSeq is the last value of that function.
LEMMA FlattenIs ==
    ASSUME NEW s
    PROVE  FlattenSeq(s) = IF Len(s) = 0 THEN s ELSE (CHOOSE g : Flattens(g, s))[Len(s)]
  BY DEF FlattenSeq, Flattens

\* Sequences can be put together.
LEMMA JoinsExist ==
    ASSUME NEW X, NEW s \in Seq(Seq(X))
    PROVE  \E h : Joins(h, s, X)
<1> DEFINE n == Len(s)
           step == [i \in 1..n |-> [x \in Seq(X) |-> x \o s[i]]]
<1>1. n \in Nat /\ \A i \in 1..n : s[i] \in Seq(X)
  BY LenProperties
<1>2. step \in [1..n -> [Seq(X) -> Seq(X)]] /\ <<>> \in Seq(X)
  BY <1>1
<1> HIDE DEF step, n
<1>3. PICK f \in [SUBSET (1..n) -> Seq(X)] : Folding(f, <<>>, n, step)
  BY <1>1, <1>2, FoldExists
<1> DEFINE h == [k \in 0..n |-> f[1..k]]
<1>4. \A k \in 0..n : 1..k \in SUBSET (1..n)
  BY <1>1
<1>5. h \in [0..n -> Seq(X)]
  BY <1>4
<1>6. h[0] = <<>>
  <2>1. 1..0 = {}
    OBVIOUS
  <2> QED BY <1>1, <1>3, <2>1 DEF Folding
<1>7. ASSUME NEW k \in 1..n PROVE h[k] = h[k - 1] \o s[k]
  <2>1. 1..k \in SUBSET (1..n) /\ 1..k # {} /\ Max(1..k) = k /\ (1..k) \ {k} = 1..(k - 1)
    <3>1. 1..k \in SUBSET (1..n) /\ k \in Nat \ {0}
      BY <1>1
    <3> QED BY <3>1, MaxOfPrefix
  <2>2. k \in 0..n /\ k - 1 \in 0..n
    BY <1>1
  <2>3. f[1..k] = step[k][f[1..(k - 1)]]
    BY <1>3, <2>1 DEF Folding
  <2>4. h[k] = f[1..k] /\ h[k - 1] = f[1..(k - 1)]
    BY <2>2
  <2>5. h[k - 1] \in Seq(X)
    BY <1>5, <2>2
  <2> HIDE DEF h
  <2> QED BY <2>3, <2>4, <2>5 DEF step
<1> HIDE DEF h
<1> QED BY <1>5, <1>6, <1>7 DEF Joins, n

\* FlattenSeq gives the last of these.
LEMMA FlattenJoins ==
    ASSUME NEW X, NEW s \in Seq(Seq(X)), NEW h, Joins(h, s, X)
    PROVE  FlattenSeq(s) = h[Len(s)]
<1> DEFINE n == Len(s)
           G == CHOOSE g : Flattens(g, s)
<1>1. n \in Nat /\ \A i \in 1..n : s[i] \in Seq(X)
  BY LenProperties
<1>2. CASE n = 0
  <2>1. s = <<>>
    BY <1>2, LenProperties, EmptySeq
  <2> QED BY <1>2, <2>1, FlattenIs DEF Joins
<1>3. CASE n # 0
  <2>1. FlattenSeq(s) = G[n]
    BY <1>3, FlattenIs
  <2> HIDE DEF n
  <2>2. /\ h[0] = <<>> /\ h \in [0..n -> Seq(X)]
        /\ \A k \in 1..n : h[k] = h[k - 1] \o s[k]
    BY DEF Joins, n
  <2>3. Flattens(G, s)
    <3> DEFINE g == [i \in 1..n |-> h[i]]
    <3>1. ASSUME NEW i \in 1..n
          PROVE  g[i] = IF i = 1 THEN s[i] ELSE g[i - 1] \o s[i]
      <4>1. CASE i = 1
        <5>1. h[1] = h[0] \o s[1]
          <6>1. 1 \in 1..n /\ 1 - 1 = 0
            BY <1>1, <1>3
          <6> QED BY <2>2, <6>1
        <5>2. <<>> \o s[1] = s[1]
          BY <1>1, <4>1, ConcatEmptySeq
        <5> QED BY <2>2, <4>1, <5>1, <5>2
      <4>2. CASE i # 1
        <5>1. i - 1 \in 1..n
          BY <1>1, <4>2
        <5>2. g[i - 1] = h[i - 1] /\ g[i] = h[i]
          BY <5>1
        <5> HIDE DEF g
        <5> QED BY <2>2, <4>2, <5>2
      <4> QED BY <4>1, <4>2
    <3>2. g = [i \in 1..n |-> g[i]]
      OBVIOUS
    <3> HIDE DEF g
    <3>3. Flattens(g, s)
      BY <3>1, <3>2 DEF Flattens, n
    <3> QED BY <3>3
  <2> HIDE DEF G
  <2>4. \A i \in 1..n : G[i] = IF i = 1 THEN s[i] ELSE G[i - 1] \o s[i]
    <3> DEFINE body(i) == IF i = 1 THEN s[i] ELSE G[i - 1] \o s[i]
    <3>1. G = [i \in 1..n |-> body(i)]
      BY <2>3 DEF Flattens, n
    <3> HIDE DEF body
    <3>2. \A i \in 1..n : G[i] = body(i)
      BY <3>1
    <3> QED BY <3>2 DEF body
  <2>5. \A i \in 1..n : G[i] = h[i]
    <3> DEFINE T == {k \in 1..n : G[k] # h[k]}
    <3> SUFFICES ASSUME T # {} PROVE FALSE
      OBVIOUS
    <3>1. T \in SUBSET Nat
      OBVIOUS
    <3>2. PICK m \in T : \A u \in T : m <= u
      <4> HIDE DEF T
      <4> QED BY <3>1, LeastOf
    <3>3. m \in 1..n /\ G[m] # h[m]
      OBVIOUS
    <3>4. CASE m = 1
      <4>1. h[1] = h[0] \o s[1] /\ G[1] = s[1]
        <5>1. 1 \in 1..n /\ 1 - 1 = 0
          BY <3>3, <3>4
        <5> QED BY <2>2, <2>4, <5>1
      <4>2. <<>> \o s[1] = s[1]
        BY <1>1, <3>3, <3>4, ConcatEmptySeq
      <4> QED BY <2>2, <3>3, <3>4, <4>1, <4>2
    <3>5. CASE m # 1
      <4>1. m - 1 \in 1..n /\ m - 1 \notin T
        <5> HIDE DEF T
        <5> QED BY <1>1, <3>2, <3>3, <3>5
      <4>2. G[m - 1] = h[m - 1]
        BY <4>1
      <4> HIDE DEF T
      <4> QED BY <2>2, <2>4, <3>3, <3>5, <4>2
    <3> QED BY <3>4, <3>5
  <2>6. n \in 1..n
    BY <1>1, <1>3
  <2> QED BY <2>1, <2>5, <2>6 DEF n
<1> QED BY <1>2, <1>3

\* One more sequence is added at the end.
LEMMA FlattenAppend ==
    ASSUME NEW X, NEW s \in Seq(Seq(X)), NEW x \in Seq(X)
    PROVE  /\ FlattenSeq(s) \in Seq(X) /\ FlattenSeq(<<>>) = <<>>
           /\ FlattenSeq(Append(s, x)) = FlattenSeq(s) \o x
<1> DEFINE t == Append(s, x)
<1>1. /\ t \in Seq(Seq(X)) /\ Len(t) = Len(s) + 1 /\ t[Len(s) + 1] = x
      /\ \A i \in 1..Len(s) : t[i] = s[i]
  BY AppendProperties
<1> HIDE DEF t
<1>2. PICK f : Joins(f, t, X)
  BY <1>1, JoinsExist
<1>3. Len(s) \in Nat
  BY LenProperties
<1> DEFINE h == [k \in 0..Len(s) |-> f[k]]
<1>4. Joins(h, s, X)
  <2>1. \A k \in 0..Len(s) : k \in 0..Len(t)
    BY <1>1, <1>3
  <2>2. h \in [0..Len(s) -> Seq(X)] /\ h[0] = <<>>
    BY <1>2, <1>3, <2>1 DEF Joins
  <2>3. ASSUME NEW k \in 1..Len(s) PROVE h[k] = h[k - 1] \o s[k]
    <3>1. k \in 1..Len(t) /\ k \in 0..Len(s) /\ k - 1 \in 0..Len(s)
      BY <1>1, <1>3
    <3>2. f[k] = f[k - 1] \o t[k]
      BY <1>2, <3>1 DEF Joins
    <3> QED BY <1>1, <3>1, <3>2
  <2> HIDE DEF h
  <2> QED BY <2>2, <2>3 DEF Joins
<1>5. h[Len(s)] = f[Len(s)] /\ h[Len(s)] \in Seq(X)
  <2>1. Len(s) \in 0..Len(s)
    BY <1>3
  <2>2. h[Len(s)] = f[Len(s)]
    BY <2>1
  <2> HIDE DEF h
  <2> QED BY <1>4, <2>1, <2>2 DEF Joins
<1> HIDE DEF h
<1>6. FlattenSeq(s) = h[Len(s)] /\ FlattenSeq(t) = f[Len(t)]
  BY <1>1, <1>2, <1>4, FlattenJoins
<1>7. f[Len(s) + 1] = f[Len(s)] \o x
  <2>1. Len(s) + 1 \in 1..Len(t) /\ (Len(s) + 1) - 1 = Len(s)
    BY <1>1, <1>3
  <2> QED BY <1>1, <1>2, <2>1 DEF Joins
<1>8. FlattenSeq(<<>>) = <<>>
  BY FlattenIs
<1> QED BY <1>1, <1>5, <1>6, <1>7, <1>8 DEF t

-----------------------------------------------------------------------------
(* Parts of the content *)

\* The elements a+1 to b of a sequence.
Slice(s, a, b) == SubSeq(s, a + 1, b)

\* Its length and its elements.
LEMMA SliceIs ==
    ASSUME NEW X, NEW s \in Seq(X), NEW a \in Nat, NEW b \in Nat, a <= b, b <= Len(s)
    PROVE  /\ Slice(s, a, b) \in Seq(X) /\ Len(Slice(s, a, b)) = b - a
           /\ \A j \in 1..(b - a) : Slice(s, a, b)[j] = s[a + j]
<1>1. a + 1 \in Int /\ b \in Int /\ Len(s) \in Nat /\ \A j \in a + 1..b : j \in 1..Len(s)
  <2>1. Len(s) \in Nat
    BY LenProperties
  <2> QED BY <2>1
<1>2. \A j \in a + 1..b : s[j] \in X
  BY <1>1, ElementOfSeq
<1>3. /\ SubSeq(s, a + 1, b) \in Seq(X)
      /\ Len(SubSeq(s, a + 1, b)) = IF a + 1 <= b THEN b - (a + 1) + 1 ELSE 0
      /\ \A j \in 1..(b - (a + 1) + 1) : SubSeq(s, a + 1, b)[j] = s[a + 1 + j - 1]
  BY <1>1, <1>2, SubSeqProperties
<1>4. /\ (IF a + 1 <= b THEN b - (a + 1) + 1 ELSE 0) = b - a
      /\ b - (a + 1) + 1 = b - a /\ \A j \in 1..(b - a) : a + 1 + j - 1 = a + j
  OBVIOUS
<1>5. \A j \in 1..(b - a) : SubSeq(s, a + 1, b)[j] = s[a + j]
  BY <1>3, <1>4
<1> QED BY <1>3, <1>4, <1>5 DEF Slice

\* Slices that meet make one.
LEMMA SlicesMeet ==
    ASSUME NEW X, NEW s \in Seq(X), NEW a \in Nat, NEW b \in Nat, NEW c \in Nat,
           a <= b, b <= c, c <= Len(s)
    PROVE  Slice(s, a, b) \o Slice(s, b, c) = Slice(s, a, c)
<1>1. Len(s) \in Nat
  BY LenProperties
<1>2. a + 1 \in 1..Len(s) + 1 /\ b \in (a + 1) - 1..Len(s) /\ c \in b..Len(s)
  BY <1>1
<1> QED BY <1>2, ConcatAdjacentSubSeq DEF Slice

\* The beginning and the rest of a slice.
LEMMA SliceParts ==
    ASSUME NEW X, NEW s \in Seq(X), NEW a \in Nat, NEW b \in Nat, a <= b, b <= Len(s),
           NEW i \in 0..(b - a)
    PROVE  /\ Upto(Slice(s, a, b), i) = Slice(s, a, a + i)
           /\ After(Slice(s, a, b), i) = Slice(s, a + i, b)
<1> DEFINE t == Slice(s, a, b)
<1>1. /\ t \in Seq(X) /\ Len(t) = b - a
      /\ \A j \in 1..(b - a) : t[j] = s[a + j]
  BY SliceIs
<1>2. /\ i \in Nat /\ a + i \in Nat /\ Len(s) \in Nat
      /\ a <= a + i /\ a + i <= b /\ a + i <= Len(s)
  BY LenProperties
<1>3. /\ Slice(s, a, a + i) \in Seq(X) /\ Len(Slice(s, a, a + i)) = (a + i) - a
      /\ \A j \in 1..((a + i) - a) : Slice(s, a, a + i)[j] = s[a + j]
  BY <1>2, SliceIs, ZenonT(60)
<1>4. /\ Slice(s, a + i, b) \in Seq(X) /\ Len(Slice(s, a + i, b)) = b - (a + i)
      /\ \A j \in 1..(b - (a + i)) : Slice(s, a + i, b)[j] = s[a + i + j]
  BY <1>2, SliceIs
<1> HIDE DEF t
<1>5. /\ Upto(t, i) \in Seq(X) /\ Len(Upto(t, i)) = i /\ \A j \in 1..i : Upto(t, i)[j] = t[j]
  BY <1>1, UptoIs, ZenonT(60)
<1>6. /\ After(t, i) \in Seq(X) /\ Len(After(t, i)) = (b - a) - i
      /\ \A j \in 1..((b - a) - i) : After(t, i)[j] = t[i + j]
  BY <1>1, AfterIs, SMTT(30)
<1>7. Upto(t, i) = Slice(s, a, a + i)
  <2>1. (a + i) - a = i /\ \A j \in 1..i : j \in 1..(b - a)
    BY <1>2
  <2>2. \A j \in 1..i : Upto(t, i)[j] = Slice(s, a, a + i)[j]
    BY <1>1, <1>3, <1>5, <2>1
  <2> QED BY <1>3, <1>5, <2>1, <2>2, SeqEqual
<1>8. After(t, i) = Slice(s, a + i, b)
  <2>1. /\ (b - a) - i = b - (a + i)
        /\ \A j \in 1..((b - a) - i) : i + j \in 1..(b - a) /\ a + (i + j) = a + i + j
    BY <1>2
  <2>2. \A j \in 1..((b - a) - i) : After(t, i)[j] = Slice(s, a + i, b)[j]
    <3> TAKE j \in 1..((b - a) - i)
    <3>1. After(t, i)[j] = t[i + j] /\ t[i + j] = s[a + (i + j)]
      BY <1>1, <1>6, <2>1
    <3>2. Slice(s, a + i, b)[j] = s[a + i + j]
      BY <1>4, <2>1
    <3> QED BY <2>1, <3>1, <3>2
  <2> QED BY <1>4, <1>6, <2>1, <2>2, SeqEqual
<1> QED BY <1>7, <1>8 DEF t

\* Upto and After cut a sequence in two slices.
LEMMA SlicesOfAll ==
    ASSUME NEW s
    PROVE  \A a : Upto(s, a) = Slice(s, 0, a) /\ After(s, a) = Slice(s, a, Len(s))
<1>1. 0 + 1 = 1
  OBVIOUS
<1> QED BY <1>1 DEF Upto, After, Slice

\* The empty slice, and the only way to one.
LEMMA SliceEmpty ==
    ASSUME NEW X, NEW s \in Seq(X), NEW a \in Nat, NEW b \in Nat, a <= b, b <= Len(s)
    PROVE  Slice(s, a, b) = <<>> <=> a = b
<1>1. Slice(s, a, b) \in Seq(X) /\ Len(Slice(s, a, b)) = b - a
  BY SliceIs
<1>2. Len(Slice(s, a, b)) = 0 <=> Slice(s, a, b) = <<>>
  BY <1>1, EmptySeq
<1> QED BY <1>1, <1>2

-----------------------------------------------------------------------------
(* Boundaries *)

\* A nonempty set of numbers has its least one as Min.
LEMMA MinIn ==
    ASSUME NEW T \in SUBSET Nat, T # {}
    PROVE  Min(T) \in T /\ \A u \in T : Min(T) <= u
<1>1. PICK m \in T : \A u \in T : m <= u
  BY LeastOf
<1> QED BY <1>1 DEF Min

\* The fresh hash is one.
LEMMA FreshGear == Fresh \in Gears /\ Fresh.n = 0
<1>1. HashRange \in Nat \ {0}
  BY SizesAssumption
<1>2. 0 \in 0..(HashRange - 1)
  BY <1>1
<1> QED BY <1>2 DEF Fresh, Gears

\* Boundaries are positions; the beginning of a sequence has those of the whole.
LEMMA CutsOfPrefix ==
    ASSUME NEW g \in Gears, NEW s \in Seq(Bytes), NEW k \in 0..Len(s)
    PROVE  /\ Cuts(g, s) \in SUBSET (1..Len(s)) /\ Cuts(g, s) \in SUBSET Nat
           /\ Cuts(g, Upto(s, k)) = {i \in Cuts(g, s) : i <= k}
<1>1. /\ Upto(s, k) \in Seq(Bytes) /\ Len(Upto(s, k)) = k
      /\ k \in Nat /\ Len(s) \in Nat /\ k <= Len(s)
  BY UptoIs, LenProperties
<1>2. Upto(s, k) = Slice(s, 0, k)
  BY SlicesOfAll
<1>3. \A i \in 1..k : SubSeq(Upto(s, k), 1, i) = SubSeq(s, 1, i)
  <2> TAKE i \in 1..k
  <2>1. i \in 0..(k - 0) /\ 0 + i = i /\ i \in Nat /\ 0 \in Nat
    BY <1>1
  <2>2. Upto(Slice(s, 0, k), i) = Slice(s, 0, 0 + i)
    BY <1>1, <2>1, SliceParts
  <2>3. Upto(Slice(s, 0, k), i) = Upto(s, i)
    BY <2>1, <2>2, SlicesOfAll
  <2> QED BY <1>2, <2>3 DEF Upto
<1>4. \A i \in 1..k : i \in 1..Len(s)
  BY <1>1
<1>5. Cuts(g, s) \in SUBSET (1..Len(s))
  BY DEF Cuts
<1>6. \A i \in Cuts(g, s) : i <= k => i \in 1..k
  BY <1>1, <1>5
<1>7. Cuts(g, Upto(s, k)) = {i \in 1..k : AtBoundary(Fed(g, SubSeq(s, 1, i)))}
  BY <1>1, <1>3 DEF Cuts
<1> QED BY <1>4, <1>5, <1>6, <1>7 DEF Cuts

\* Searching goes on where it stopped.
LEMMA CutsOfConcat ==
    ASSUME NEW s \in Seq(Bytes), NEW t \in Seq(Bytes), Cuts(Fresh, s) = {}
    PROVE  Cuts(Fresh, s \o t) = {Len(s) + i : i \in Cuts(Fed(Fresh, s), t)}
<1> DEFINE u == s \o t
           n == Len(s)
           m == Len(t)
<1>1. u \in Seq(Bytes) /\ n \in Nat /\ m \in Nat /\ Len(u) = n + m
  BY ConcatProperties, LenProperties
<1>2. Upto(u, n) = s
  <2>1. /\ Upto(u, n) \in Seq(Bytes) /\ Len(Upto(u, n)) = n
        /\ \A j \in 1..n : Upto(u, n)[j] = u[j]
    <3>1. n \in 0..Len(u)
      BY <1>1
    <3> QED BY <1>1, <3>1, UptoIs
  <2>2. \A j \in 1..n : u[j] = s[j]
    BY <1>1, ConcatProperties
  <2> QED BY <2>1, <2>2, SeqEqual
<1>3. \A i \in 1..m : Fed(Fresh, Upto(u, n + i)) = Fed(Fed(Fresh, s), Upto(t, i))
  <2> TAKE i \in 1..m
  <2>1. /\ Upto(t, i) \in Seq(Bytes) /\ Len(Upto(t, i)) = i
        /\ \A j \in 1..i : Upto(t, i)[j] = t[j]
    <3>1. i \in 0..m
      OBVIOUS
    <3> QED BY <3>1, UptoIs
  <2>2. n + i \in 0..Len(u)
    BY <1>1
  <2>3. /\ Upto(u, n + i) \in Seq(Bytes) /\ Len(Upto(u, n + i)) = n + i
        /\ \A j \in 1..n + i : Upto(u, n + i)[j] = u[j]
    BY <1>1, <2>2, UptoIs
  <2>4. /\ s \o Upto(t, i) \in Seq(Bytes) /\ Len(s \o Upto(t, i)) = n + i
        /\ \A j \in 1..n + i : (s \o Upto(t, i))[j] = IF j <= n THEN s[j] ELSE Upto(t, i)[j - n]
    BY <2>1, ConcatProperties, ZenonT(60)
  <2>5. \A j \in 1..n + i : u[j] = (s \o Upto(t, i))[j]
    <3> TAKE j \in 1..n + i
    <3>1. j \in 1..n + m /\ (j > n => j - n \in 1..i)
      BY <1>1
    <3>2. u[j] = IF j <= n THEN s[j] ELSE t[j - n]
      BY <3>1, ConcatProperties
    <3>3. j > n \/ j <= n
      BY <1>1
    <3> HIDE DEF u, n, m
    <3> QED BY <2>1, <2>4, <3>1, <3>2, <3>3
  <2>6. Upto(u, n + i) = s \o Upto(t, i)
    <3> HIDE DEF u, n, m
    <3> QED BY <2>3, <2>4, <2>5, SeqEqual
  <2>7. Fed(Fed(Fresh, s), Upto(t, i)) = Fed(Fresh, s \o Upto(t, i))
    BY <2>1, FedConcat, FreshGear
  <2> QED BY <2>6, <2>7
<1>4. \A i \in Cuts(Fresh, u) : i > n
  <2>1. n \in 0..Len(u)
    BY <1>1
  <2>2. Cuts(Fresh, s) = {i \in Cuts(Fresh, u) : i <= n} /\ Cuts(Fresh, u) \in SUBSET Nat
    <3> HIDE DEF u, n
    <3> QED BY <1>1, <1>2, <2>1, CutsOfPrefix, FreshGear
  <2> HIDE DEF u, n
  <2> QED BY <1>1, <2>2
<1>5. \A i \in 1..m : n + i \in Cuts(Fresh, u) <=> i \in Cuts(Fed(Fresh, s), t)
  <2> TAKE i \in 1..m
  <2>1. n + i \in 1..Len(u) /\ Len(t) = m
    BY <1>1
  <2>2. n + i \in Cuts(Fresh, u) <=> AtBoundary(Fed(Fresh, Upto(u, n + i)))
    BY <2>1 DEF Cuts, Upto
  <2>3. i \in Cuts(Fed(Fresh, s), t) <=> AtBoundary(Fed(Fed(Fresh, s), Upto(t, i)))
    BY <2>1 DEF Cuts, Upto
  <2> QED BY <1>3, <2>2, <2>3
<1>6. Cuts(Fresh, u) \in SUBSET (1..n + m) /\ Cuts(Fed(Fresh, s), t) \in SUBSET (1..m)
  BY <1>1 DEF Cuts
<1> HIDE DEF u, n, m
<1>7. ASSUME NEW j \in Cuts(Fresh, u)
      PROVE  j \in {n + i : i \in Cuts(Fed(Fresh, s), t)}
  <2>1. j \in 1..n + m /\ j > n
    BY <1>4, <1>6
  <2>2. j - n \in 1..m /\ n + (j - n) = j
    BY <1>1, <2>1
  <2> QED BY <1>5, <2>2
<1>8. ASSUME NEW i \in Cuts(Fed(Fresh, s), t)
      PROVE  n + i \in Cuts(Fresh, u)
  BY <1>5, <1>6
<1> QED BY <1>7, <1>8 DEF u, n

\* Max bytes always hold a boundary.
LEMMA CutsBelowMax ==
    ASSUME Sound(policy), NEW s \in Seq(Bytes)
    PROVE  /\ Cuts(Fresh, s) = {} => Len(s) < policy.Max
           /\ Cuts(Fresh, s) # {} => Min(Cuts(Fresh, s)) <= policy.Max
<1> DEFINE m == policy.Max
           C == Cuts(Fresh, s)
<1>1. m \in Nat /\ 1 <= m /\ policy.Min \in Nat /\ policy.Min <= m /\ Len(s) \in Nat
  <2>1. Len(s) \in Nat
    BY LenProperties
  <2> QED BY <2>1 DEF Sound
<1>2. m <= Len(s) => m \in C
  <2> SUFFICES ASSUME m <= Len(s) PROVE m \in C
    OBVIOUS
  <2>1. m \in 1..Len(s) /\ m \in 0..Len(s)
    BY <1>1
  <2>2. Upto(s, m) \in Seq(Bytes) /\ Len(Upto(s, m)) = m
    <3> HIDE DEF m
    <3> QED BY <2>1, UptoIs
  <2>3. Fed(Fresh, Upto(s, m)).n = 0 + m
    <3> HIDE DEF m
    <3> QED BY <2>2, FedTyped, FreshGear
  <2>4. AtBoundary(Fed(Fresh, Upto(s, m)))
    BY <1>1, <2>3 DEF AtBoundary
  <2> QED BY <2>1, <2>4 DEF Cuts, Upto
<1>3. C \in SUBSET (1..Len(s)) /\ C \in SUBSET Nat
  BY <1>1 DEF Cuts
<1>4. C # {} => Min(C) \in C /\ \A u \in C : Min(C) <= u
  <2> HIDE DEF C
  <2> QED BY <1>3, MinIn
<1> HIDE DEF C, m
<1>5. C # {} => Min(C) \in 1..Len(s) /\ (m \in C => Min(C) <= m)
  BY <1>3, <1>4
<1>6. (C = {} => Len(s) < m) /\ (C # {} => Min(C) <= m)
  BY <1>1, <1>2, <1>5
<1> QED BY <1>6 DEF C, m

-----------------------------------------------------------------------------
(* The inductive invariant *)

\* Every variable keeps to its domain.
PieceSet == [Index : Nat, Offset : Nat, Data : Seq(Bytes)]
Shapes ==
    /\ Opened /\ content \in Contents /\ ending \in Endings
    /\ told \in BOOLEAN /\ eof \in BOOLEAN /\ running \in BOOLEAN
    /\ err \in {"none"} \cup Errors
    /\ at \in 0..Len(content) /\ offset \in 0..at /\ index = Len(out)
    /\ out \in Seq(PieceSet) /\ carry \in Seq(Bytes) /\ buf \in Seq(Bytes)
    /\ gear \in Gears /\ gear.n <= policy.Max

\* Between two Reads the gear has seen the piece so far and no boundary.
Phases ==
    /\ running => /\ policy.Mode = "cdc" /\ carry = <<>> /\ ~eof /\ err = "none"
                  /\ gear = Fed(Fresh, buf) /\ Cuts(Fresh, buf) = {}
    /\ ~running => buf = <<>>
    /\ policy.Mode = "fixed" => carry = <<>>

\* What was read and is in no piece is held; at the end nothing is.
Held ==
    /\ err \in {"none", "EOF"} => buf \o carry = Slice(content, offset, at)
    /\ eof => offset = Len(content)
    /\ err = "EOF" => eof

\* The pieces are what was read up to the offset.
Sizes(pieces) == [i \in DOMAIN pieces |-> Len(pieces[i].Data)]
PiecesFit ==
    /\ \A i \in DOMAIN out : out[i].Data # <<>>
    /\ Fits(out) /\ SumOf(Sizes(out)) = offset
    /\ Assembled(out) = Slice(content, 0, offset)

\* In fixed mode only the last piece may be short.
FixedSizes ==
    policy.Mode = "fixed" =>
        \A i \in DOMAIN out : /\ Len(out[i].Data) <= policy.Avg
                              /\ i < Len(out) \/ ~eof => Len(out[i].Data) = policy.Avg

\* A complete piece of bytes of the last Read.
CompleteByLastRead(piece) ==
    Complete(piece.Data) /\ piece.Offset + Len(piece.Data) > at - BufSize

\* How the reader has ended, and that a piece is complete since.
Ends ==
    /\ told => ending = "failed once" /\ at = Len(content)
    /\ eof => \/ ending = "EOF" \/ told
              \/ ending = "UnexpectedEOF" /\ policy.Mode = "fixed"
    /\ told /\ err \in {"none", "EOF"} => \E i \in DOMAIN out : CompleteByLastRead(out[i])

\* The length of the piece that begins at k when all of the content is at hand,
\* and the pieces from there on.
LengthAt(k) == LET rest == After(content, k)
               IN IF policy.Mode = "fixed" THEN Min({policy.Avg, Len(rest)})
                                           ELSE FindBoundary(rest)
CutsUp(f) ==
    f = [k \in 0..Len(content) |->
            IF k = Len(content) THEN <<>>
            ELSE <<Upto(After(content, k), LengthAt(k))>> \o f[k + LengthAt(k)]]
PiecesFrom == CHOOSE f : CutsUp(f)

\* The pieces so far, and the ones that cutting the rest gives.
CutsAlike == PiecesFrom[0] = Datas(out) \o PiecesFrom[offset]

SplitInv == Shapes /\ Phases /\ Held /\ PiecesFit /\ FixedSizes /\ Ends

-----------------------------------------------------------------------------
(* Cutting all of the content at once *)

\* CutsIndependentOfReads, put in these terms.
LEMMA CutsIndependentIs ==
    CutsIndependentOfReads <=> /\ IsPrefix(Datas(out), PiecesFrom[0])
                               /\ err = "EOF" => Datas(out) = PiecesFrom[0]
  BY DEF CutsIndependentOfReads, PiecesFrom, CutsUp, LengthAt

\* The next piece is not empty and not longer than the rest.
LEMMA LengthAtIs ==
    ASSUME Sound(policy), content \in Seq(Bytes), NEW k \in Nat, k < Len(content)
    PROVE  LengthAt(k) \in 1..(Len(content) - k)
<1> DEFINE rest == After(content, k)
           n == Len(content) - k
<1>1. Len(content) \in Nat /\ k \in 0..Len(content) /\ n \in Nat /\ 1 <= n
  <2>1. Len(content) \in Nat
    BY LenProperties
  <2> QED BY <2>1
<1>2. rest \in Seq(Bytes) /\ Len(rest) = n
  BY <1>1, AfterIs
<1>3. policy.Avg \in Nat /\ 1 <= policy.Avg
  BY DEF Sound
<1> HIDE DEF rest, n
<1>4. CASE policy.Mode = "fixed"
  <2>1. LengthAt(k) = Min({policy.Avg, n})
    BY <1>2, <1>4 DEF LengthAt, rest
  <2>2. Min({policy.Avg, n}) = IF policy.Avg <= n THEN policy.Avg ELSE n
    BY <1>1, <1>3, MinOfTwo
  <2>3. LengthAt(k) \in 1..n
    BY <1>1, <1>3, <2>1, <2>2
  <2> QED BY <2>3 DEF n
<1>5. CASE policy.Mode # "fixed"
  <2> DEFINE cuts == Cuts(Fresh, rest)
  <2>1. LengthAt(k) = IF cuts = {} THEN n ELSE Min(cuts)
    BY <1>2, <1>5 DEF LengthAt, rest, FindBoundary
  <2>2. cuts \in SUBSET (1..n) /\ cuts \in SUBSET Nat
    BY <1>2 DEF Cuts
  <2> HIDE DEF cuts
  <2>3. cuts # {} => Min(cuts) \in cuts
    BY <2>2, MinIn
  <2>4. CASE cuts = {}
    <3>1. LengthAt(k) = n /\ n \in 1..n
      BY <1>1, <2>1, <2>4
    <3> QED BY <3>1 DEF n
  <2>5. CASE cuts # {}
    <3>1. LengthAt(k) = Min(cuts) /\ Min(cuts) \in 1..n
      BY <2>1, <2>2, <2>3, <2>5
    <3> QED BY <3>1 DEF n
  <2> QED BY <2>4, <2>5
<1> QED BY <1>4, <1>5

\* The recursion is well founded: the pieces are those it describes.
LEMMA PiecesFromIs ==
    ASSUME Sound(policy), content \in Seq(Bytes)
    PROVE  /\ \A k \in 0..Len(content) : PiecesFrom[k] \in Seq(Seq(Bytes))
           /\ PiecesFrom[Len(content)] = <<>>
           /\ \A k \in 0..Len(content) : k # Len(content) =>
                 PiecesFrom[k] = <<Upto(After(content, k), LengthAt(k))>>
                                     \o PiecesFrom[k + LengthAt(k)]
<1> DEFINE z == Len(content)
           X == Seq(Seq(Bytes))
           piece(k) == <<Upto(After(content, k), LengthAt(k))>>
           Covers(f, j) == /\ f \in [(z - j)..z -> X]
                           /\ \A k \in (z - j)..z : f[k] = IF k = z THEN <<>>
                                                    ELSE piece(k) \o f[k + LengthAt(k)]
           T == {j \in 0..z : ~\E f : Covers(f, j)}
<1>1. z \in Nat
  BY LenProperties
<1>2. \A k \in Nat : k < z => LengthAt(k) \in 1..(z - k)
  BY LengthAtIs
<1>3. \A k \in Nat : k < z => piece(k) \in X
  <2> TAKE k \in Nat
  <2> HAVE k < z
  <2>1. k \in 0..z /\ LengthAt(k) \in 0..(z - k)
    BY <1>1, <1>2
  <2>2. After(content, k) \in Seq(Bytes) /\ Len(After(content, k)) = z - k
    BY <2>1, AfterIs
  <2>3. Upto(After(content, k), LengthAt(k)) \in Seq(Bytes)
    BY <2>1, <2>2, UptoIs
  <2> QED BY <2>3
<1> HIDE DEF z, piece
<1>4. T = {}
  <2> SUFFICES ASSUME T # {} PROVE FALSE
    OBVIOUS
  <2>1. T \in SUBSET Nat
    BY <1>1
  <2>2. PICK m \in T : \A u \in T : m <= u
    <3> HIDE DEF T
    <3> QED BY <2>1, LeastOf
  <2>3. m \in 0..z /\ ~\E f : Covers(f, m)
    OBVIOUS
  <2>4. CASE m = 0
    <3> DEFINE f == [k \in (z - 0)..z |-> <<>>]
    <3>1. \A k \in (z - 0)..z : k = z
      BY <1>1
    <3>2. <<>> \in X
      OBVIOUS
    <3>3. Covers(f, 0)
      BY <3>1, <3>2
    <3> QED BY <2>3, <2>4, <3>3
  <2>5. CASE m # 0
    <3>1. m - 1 \in 0..z /\ m - 1 \notin T
      <4> HIDE DEF T
      <4> QED BY <1>1, <2>2, <2>3, <2>5
    <3>2. PICK g : Covers(g, m - 1)
      BY <3>1
    <3> DEFINE b == z - m
               f == [k \in b..z |-> IF k = b THEN piece(b) \o g[b + LengthAt(b)] ELSE g[k]]
    <3>3. /\ b \in Nat /\ b < z /\ b + 1 = z - (m - 1)
          /\ \A k \in b..z : k # b => k \in b + 1..z
      BY <1>1, <2>3, <2>5
    <3>4. LengthAt(b) \in 1..(z - b) /\ b + LengthAt(b) \in b + 1..z /\ piece(b) \in X
      <4>1. LengthAt(b) \in 1..(z - b) /\ piece(b) \in X
        BY <1>2, <1>3, <3>3
      <4> HIDE DEF b
      <4> QED BY <1>1, <3>3, <4>1
    <3>5. /\ g \in [b + 1..z -> X]
          /\ \A k \in b + 1..z : g[k] = IF k = z THEN <<>> ELSE piece(k) \o g[k + LengthAt(k)]
      BY <3>2, <3>3
    <3> HIDE DEF b
    <3>6. piece(b) \o g[b + LengthAt(b)] \in X
      <4>1. g[b + LengthAt(b)] \in X
        BY <3>4, <3>5
      <4> QED BY <3>4, <4>1, ConcatProperties
    <3>7. f \in [b..z -> X]
      BY <3>3, <3>5, <3>6
    <3>8. ASSUME NEW k \in b..z
          PROVE  f[k] = IF k = z THEN <<>> ELSE piece(k) \o f[k + LengthAt(k)]
      <4>1. CASE k = b
        <5>1. f[b + LengthAt(b)] = g[b + LengthAt(b)]
          BY <1>1, <3>3, <3>4
        <5>2. f[k] = piece(b) \o g[b + LengthAt(b)]
          BY <4>1
        <5> HIDE DEF f
        <5> QED BY <3>3, <4>1, <5>1, <5>2, SMTT(30)
      <4>2. CASE k # b
        <5>1. k \in b + 1..z /\ f[k] = g[k]
          BY <3>3, <4>2
        <5>2. k # z => f[k + LengthAt(k)] = g[k + LengthAt(k)]
          <6> SUFFICES ASSUME k # z PROVE f[k + LengthAt(k)] = g[k + LengthAt(k)]
            OBVIOUS
          <6>1. k \in Nat /\ k < z
            BY <1>1, <3>3, <5>1
          <6>2. LengthAt(k) \in 1..(z - k)
            BY <1>2, <6>1
          <6>3. k + LengthAt(k) \in b..z /\ k + LengthAt(k) # b
            BY <1>1, <3>3, <5>1, <6>1, <6>2
          <6> QED BY <6>3
        <5> HIDE DEF f
        <5> QED BY <3>5, <5>1, <5>2
      <4> QED BY <4>1, <4>2
    <3> HIDE DEF f
    <3>9. Covers(f, m)
      BY <3>7, <3>8 DEF b
    <3> QED BY <2>3, <3>9
  <2> QED BY <2>4, <2>5
<1>5. PICK f : Covers(f, z)
  <2>1. z \in 0..z
    BY <1>1
  <2> QED BY <1>4, <2>1
<1>6. z - z = 0
  BY <1>1
<1>7. CutsUp(f)
  <2>1. f = [k \in 0..z |-> IF k = z THEN <<>> ELSE piece(k) \o f[k + LengthAt(k)]]
    BY <1>5, <1>6
  <2> QED BY <2>1 DEF CutsUp, z, piece
<1> DEFINE G == PiecesFrom
<1>8. CutsUp(G)
  BY <1>7 DEF PiecesFrom
<1> HIDE DEF G
<1>9. \A k \in 0..z : G[k] = IF k = z THEN <<>> ELSE piece(k) \o G[k + LengthAt(k)]
  <2> DEFINE body(k) == IF k = z THEN <<>> ELSE piece(k) \o G[k + LengthAt(k)]
  <2>1. G = [k \in 0..z |-> body(k)]
    BY <1>8 DEF CutsUp, z, piece
  <2> HIDE DEF body
  <2>2. \A k \in 0..z : G[k] = body(k)
    BY <2>1
  <2> QED BY <2>2 DEF body
<1>10. \A k \in 0..z : G[k] \in X
  <2> DEFINE U == {j \in 0..z : G[z - j] \notin X}
  <2>1. U = {}
    <3> SUFFICES ASSUME U # {} PROVE FALSE
      OBVIOUS
    <3>1. U \in SUBSET Nat
      BY <1>1
    <3>2. PICK m \in U : \A u \in U : m <= u
      <4> HIDE DEF U
      <4> QED BY <3>1, LeastOf
    <3>3. m \in 0..z /\ G[z - m] \notin X
      OBVIOUS
    <3>4. z - m \in 0..z
      BY <1>1, <3>3
    <3>5. CASE m = 0
      <4>1. z - m = z
        BY <1>1, <3>5
      <4>2. G[z] = <<>> /\ <<>> \in X
        BY <1>9, <3>4, <4>1
      <4> QED BY <3>3, <4>1, <4>2
    <3>6. CASE m # 0
      <4> DEFINE k == z - m
      <4>1. k \in Nat /\ k < z /\ k \in 0..z
        BY <1>1, <3>3, <3>6
      <4>2. LengthAt(k) \in 1..(z - k) /\ piece(k) \in X
        <5> HIDE DEF k
        <5> QED BY <1>2, <1>3, <4>1
      <4>3. z - (k + LengthAt(k)) \in 0..z /\ z - (k + LengthAt(k)) < m
        BY <1>1, <3>3, <4>2
      <4>4. z - (k + LengthAt(k)) \notin U
        <5> DEFINE j == z - (k + LengthAt(k))
        <5>1. j \in Int /\ m \in Int /\ j < m
          BY <1>1, <3>3, <4>3
        <5> HIDE DEF j, U
        <5>2. j \notin U
          BY <3>2, <5>1
        <5> QED BY <5>2 DEF j
      <4>5. z - (z - (k + LengthAt(k))) = k + LengthAt(k)
        BY <1>1, <3>3, <4>2
      <4>6. G[k + LengthAt(k)] \in X
        BY <4>3, <4>4, <4>5
      <4> HIDE DEF U
      <4>7. G[k] = piece(k) \o G[k + LengthAt(k)]
        <5> HIDE DEF k
        <5>1. k # z
          BY <1>1, <4>1
        <5> QED BY <1>9, <4>1, <5>1
      <4>8. G[k] \in X
        BY <4>2, <4>6, <4>7, ConcatProperties
      <4> QED BY <3>3, <4>8
    <3> QED BY <3>5, <3>6
  <2> TAKE k \in 0..z
  <2>2. z - k \in 0..z /\ z - (z - k) = k
    BY <1>1
  <2> QED BY <2>1, <2>2
<1>11. z \in 0..z
  BY <1>1
<1> QED BY <1>9, <1>10, <1>11 DEF G, z, piece

-----------------------------------------------------------------------------
(* One more piece *)

\* It does not matter in which order three sequences are put together.
LEMMA JoinsAssociate ==
    ASSUME NEW X, NEW s \in Seq(X), NEW t \in Seq(X), NEW u \in Seq(X)
    PROVE  (s \o t) \o u = s \o (t \o u)
<1> DEFINE st == s \o t
           tu == t \o u
           lhs == st \o u
           rhs == s \o tu
           n == Len(s)
           m == Len(t)
           k == Len(u)
<1>1. n \in Nat /\ m \in Nat /\ k \in Nat
  BY LenProperties
<1>2. /\ st \in Seq(X) /\ Len(st) = n + m
      /\ \A i \in 1..n + m : st[i] = IF i <= n THEN s[i] ELSE t[i - n]
  BY ConcatProperties
<1>3. /\ tu \in Seq(X) /\ Len(tu) = m + k
      /\ \A i \in 1..m + k : tu[i] = IF i <= m THEN t[i] ELSE u[i - m]
  BY ConcatProperties
<1> HIDE DEF st, tu
<1>4. /\ lhs \in Seq(X) /\ Len(lhs) = n + m + k
      /\ \A i \in 1..n + m + k : lhs[i] = IF i <= n + m THEN st[i] ELSE u[i - (n + m)]
  <2>1. /\ st \o u \in Seq(X) /\ Len(st \o u) = Len(st) + Len(u)
        /\ \A i \in 1..Len(st) + Len(u) :
              (st \o u)[i] = IF i <= Len(st) THEN st[i] ELSE u[i - Len(st)]
    <3>1. st \in Seq(X)
      BY <1>2
    <3> QED BY <3>1, ConcatProperties
  <2> HIDE DEF n, m
  <2> QED BY <1>2, <2>1
<1>5. /\ rhs \in Seq(X) /\ Len(rhs) = n + (m + k)
      /\ \A i \in 1..n + (m + k) : rhs[i] = IF i <= n THEN s[i] ELSE tu[i - n]
  <2>1. /\ s \o tu \in Seq(X) /\ Len(s \o tu) = Len(s) + Len(tu)
        /\ \A i \in 1..Len(s) + Len(tu) :
              (s \o tu)[i] = IF i <= Len(s) THEN s[i] ELSE tu[i - Len(s)]
    <3>1. tu \in Seq(X)
      BY <1>3
    <3> QED BY <3>1, ConcatProperties
  <2> HIDE DEF m, k
  <2> QED BY <1>3, <2>1
<1> HIDE DEF lhs, rhs, n, m, k
<1>6. ASSUME NEW i \in 1..n + m + k PROVE lhs[i] = rhs[i]
  <2>1. CASE i <= n
    <3>1. lhs[i] = s[i]
      BY <1>1, <1>2, <1>4, <2>1
    <3>2. rhs[i] = s[i]
      BY <1>1, <1>5, <2>1
    <3> QED BY <3>1, <3>2
  <2>2. CASE n < i /\ i <= n + m
    <3>1. lhs[i] = t[i - n]
      BY <1>1, <1>2, <1>4, <2>2
    <3>2. i - n \in 1..m + k /\ i - n <= m
      BY <1>1, <2>2
    <3>3. rhs[i] = t[i - n]
      BY <1>1, <1>3, <1>5, <2>2, <3>2
    <3> QED BY <3>1, <3>3
  <2>3. CASE n + m < i
    <3>1. lhs[i] = u[i - (n + m)]
      BY <1>1, <1>4, <2>3
    <3>2. i - n \in 1..m + k /\ ~(i - n <= m) /\ (i - n) - m = i - (n + m)
      BY <1>1, <2>3
    <3>3. tu[i - n] = u[i - (n + m)]
      BY <1>3, <3>2
    <3>4. rhs[i] = tu[i - n]
      BY <1>1, <1>5, <2>3
    <3> QED BY <3>1, <3>3, <3>4
  <2> QED BY <1>1, <2>1, <2>2, <2>3
<1>7. Len(lhs) = Len(rhs) /\ \A i \in 1..Len(lhs) : lhs[i] = rhs[i]
  BY <1>1, <1>4, <1>5, <1>6
<1>8. lhs = rhs
  BY <1>4, <1>5, <1>7, SeqEqual
<1> QED BY <1>8 DEF lhs, rhs, st, tu

\* So it is with sequences of pieces.
LEMMA PiecesAssociate ==
    ASSUME NEW d \in Seq(Seq(Bytes)), NEW x \in Seq(Seq(Bytes)), NEW rest \in Seq(Seq(Bytes))
    PROVE  (d \o x) \o rest = d \o (x \o rest)
<1> DEFINE Y == Seq(Bytes)
<1>1. d \in Seq(Y) /\ x \in Seq(Y) /\ rest \in Seq(Y)
  OBVIOUS
<1> HIDE DEF Y
<1> QED BY <1>1, JoinsAssociate, SMTT(30)

\* What PiecesFrom is does not change with the reading.
LEMMA PiecesFromKept ==
    ASSUME content' = content, policy' = policy
    PROVE  PiecesFrom' = PiecesFrom
<1>1. ASSUME NEW g PROVE AtBoundary(g)' <=> AtBoundary(g)
  BY DEF AtBoundary, MaskRange
<1>2. ASSUME NEW s PROVE FindBoundary(s)' = FindBoundary(s)
  <2>1. Cuts(Fresh, s)' = Cuts(Fresh, s)
    BY <1>1 DEF Cuts
  <2> QED BY <2>1 DEF FindBoundary
<1>3. ASSUME NEW k PROVE LengthAt(k)' = LengthAt(k)
  BY <1>2 DEF LengthAt
<1>4. ASSUME NEW f PROVE CutsUp(f)' <=> CutsUp(f)
  <2> DEFINE body(k) == IF k = Len(content) THEN <<>>
                        ELSE <<Upto(After(content, k), LengthAt(k))>> \o f[k + LengthAt(k)]
  <2>1. \A k : body(k)' = body(k)
    BY <1>3
  <2>2. [k \in 0..Len(content) |-> body(k)]' = [k \in 0..Len(content) |-> body(k)]
    <3> HIDE DEF body
    <3> QED BY <2>1
  <2> QED BY <2>2 DEF CutsUp
<1>5. \A f : CutsUp(f)' <=> CutsUp(f)
  BY <1>4
<1> QED BY <1>5 DEF PiecesFrom

\* The sizes and the bytes of the pieces are sequences.
LEMMA PiecesAre ==
    ASSUME out \in Seq(PieceSet)
    PROVE  /\ DOMAIN out = 1..Len(out) /\ Len(out) \in Nat
           /\ \A i \in 1..Len(out) : /\ out[i] \in PieceSet /\ out[i].Data \in Seq(Bytes)
                                     /\ Len(out[i].Data) \in Nat
           /\ Sizes(out) \in Seq(Nat) /\ Len(Sizes(out)) = Len(out)
           /\ \A i \in 1..Len(out) : Sizes(out)[i] = Len(out[i].Data)
           /\ Datas(out) \in Seq(Seq(Bytes)) /\ Len(Datas(out)) = Len(out)
           /\ \A i \in 1..Len(out) : Datas(out)[i] = out[i].Data
<1> DEFINE n == Len(out)
<1>1. n \in Nat /\ DOMAIN out = 1..n
  BY LenProperties
<1>2. \A i \in 1..n : out[i] \in PieceSet
  BY ElementOfSeq
<1>3. \A i \in 1..n : out[i].Data \in Seq(Bytes)
  BY <1>2 DEF PieceSet
<1>4. \A i \in 1..n : Len(out[i].Data) \in Nat
  BY <1>3, LenProperties
<1>5. Sizes(out) = [i \in 1..n |-> Len(out[i].Data)]
  BY <1>1 DEF Sizes
<1>6. Datas(out) = [i \in 1..n |-> out[i].Data]
  BY <1>1 DEF Datas
<1> HIDE DEF n
<1>7. Sizes(out) \in Seq(Nat) /\ Len(Sizes(out)) = n
  BY <1>1, <1>4, <1>5
<1>8. Datas(out) \in Seq(Seq(Bytes)) /\ Len(Datas(out)) = n
  BY <1>1, <1>3, <1>6
<1> QED BY <1>1, <1>2, <1>3, <1>4, <1>5, <1>6, <1>7, <1>8 DEF n

\* What Emit does to the sequences.
LEMMA EmitIs ==
    ASSUME out \in Seq(PieceSet), index = Len(out), offset \in Nat,
           NEW data \in Seq(Bytes), Emit(data)
    PROVE  /\ out' \in Seq(PieceSet) /\ Len(out') = Len(out) + 1 /\ index' = Len(out')
           /\ \A i \in 1..Len(out) : out'[i] = out[i]
           /\ out'[Len(out) + 1] = [Index |-> index, Offset |-> offset, Data |-> data]
           /\ offset' = offset + Len(data) /\ offset' \in Nat
           /\ Sizes(out') = Append(Sizes(out), Len(data))
           /\ Datas(out') = Append(Datas(out), data)
<1> DEFINE n == Len(out)
           p == [Index |-> index, Offset |-> offset, Data |-> data]
<1>1. n \in Nat /\ Len(data) \in Nat
  BY LenProperties
<1>2. p \in PieceSet
  BY <1>1 DEF PieceSet
<1>3. out' = Append(out, p) /\ offset' = offset + Len(data) /\ index' = index + 1
  BY DEF Emit
<1>4. p.Data = data
  OBVIOUS
<1> HIDE DEF p
<1>5. /\ out' \in Seq(PieceSet) /\ Len(out') = n + 1
      /\ \A i \in 1..n : out'[i] = out[i]
      /\ out'[n + 1] = p
  BY <1>2, <1>3, AppendProperties
<1>6. /\ Sizes(out) \in Seq(Nat) /\ Len(Sizes(out)) = n
      /\ \A i \in 1..n : Sizes(out)[i] = Len(out[i].Data)
      /\ Datas(out) \in Seq(Seq(Bytes)) /\ Len(Datas(out)) = n
      /\ \A i \in 1..n : Datas(out)[i] = out[i].Data
  BY PiecesAre
<1>7. DOMAIN out' = 1..n + 1
  BY <1>5, LenProperties
<1> DEFINE s == Append(Sizes(out), Len(data))
           d == Append(Datas(out), data)
<1>8. /\ s \in Seq(Nat) /\ Len(s) = n + 1 /\ s[n + 1] = Len(data)
      /\ \A i \in 1..n : s[i] = Sizes(out)[i]
  BY <1>1, <1>6, AppendProperties
<1>9. /\ d \in Seq(Seq(Bytes)) /\ Len(d) = n + 1 /\ d[n + 1] = data
      /\ \A i \in 1..n : d[i] = Datas(out)[i]
  BY <1>6, AppendProperties
<1> HIDE DEF s, d, n
<1>10. \A i \in 1..n + 1 : s[i] = Len(out'[i].Data) /\ d[i] = out'[i].Data
  <2> TAKE i \in 1..n + 1
  <2>1. CASE i = n + 1
    BY <1>4, <1>5, <1>8, <1>9, <2>1
  <2>2. CASE i # n + 1
    <3>1. i \in 1..n
      BY <1>1, <2>2
    <3> QED BY <1>5, <1>6, <1>8, <1>9, <3>1
  <2> QED BY <2>1, <2>2
<1>11. Sizes(out') = s
  <2>1. Sizes(out') = [i \in 1..n + 1 |-> Len(out'[i].Data)]
    BY <1>7 DEF Sizes
  <2>2. s = [i \in 1..n + 1 |-> s[i]]
    BY <1>8, LenProperties
  <2> QED BY <1>10, <2>1, <2>2
<1>12. Datas(out') = d
  <2>1. Datas(out') = [i \in 1..n + 1 |-> out'[i].Data]
    BY <1>7 DEF Datas
  <2>2. d = [i \in 1..n + 1 |-> d[i]]
    BY <1>9, LenProperties
  <2> QED BY <1>10, <2>1, <2>2
<1>13. index' = Len(out') /\ offset' \in Nat
  BY <1>1, <1>3, <1>5 DEF n
<1> QED BY <1>3, <1>5, <1>11, <1>12, <1>13 DEF n, p, s, d

\* The next piece: what was read from the offset on, up to a place where a
\* piece ends.
NextPiece(data) ==
    /\ Emit(data)
    /\ data \in Seq(Bytes) /\ data # <<>>
    /\ offset + Len(data) <= Len(content)
    /\ data = Slice(content, offset, offset + Len(data))

\* The pieces still fit, and make up one more part of the content.
LEMMA PieceFits ==
    ASSUME content \in Seq(Bytes), out \in Seq(PieceSet), index = Len(out), offset \in Nat,
           PiecesFit, NEW data, NextPiece(data), content' = content
    PROVE  PiecesFit'
<1> DEFINE n == Len(out)
<1>1. data \in Seq(Bytes) /\ data # <<>> /\ Emit(data)
  BY DEF NextPiece
<1>2. /\ out' \in Seq(PieceSet) /\ Len(out') = n + 1
      /\ \A i \in 1..n : out'[i] = out[i]
      /\ out'[n + 1] = [Index |-> index, Offset |-> offset, Data |-> data]
      /\ offset' = offset + Len(data) /\ offset' \in Nat
      /\ Sizes(out') = Append(Sizes(out), Len(data))
      /\ Datas(out') = Append(Datas(out), data)
  BY <1>1, EmitIs
<1>3. /\ n \in Nat /\ DOMAIN out = 1..n
      /\ Sizes(out) \in Seq(Nat) /\ Datas(out) \in Seq(Seq(Bytes))
      /\ Sizes(out) = [i \in DOMAIN out |-> Len(out[i].Data)]
  BY PiecesAre DEF Sizes
<1>4. DOMAIN out' = 1..n + 1
  BY <1>2, LenProperties
<1>5. /\ \A i \in DOMAIN out : out[i].Data # <<>>
      /\ SumOf(Sizes(out)) = offset
      /\ Assembled(out) = Slice(content, 0, offset)
      /\ \A i \in DOMAIN out : /\ out[i].Index = i - 1
                               /\ out[i].Offset = SumOf([j \in 1..i-1 |-> Len(out[j].Data)])
  BY DEF PiecesFit, Fits
<1>6. out'[n + 1].Index = index /\ out'[n + 1].Offset = offset /\ out'[n + 1].Data = data
  BY <1>2
<1>7. index = n
  OBVIOUS
<1> HIDE DEF n
<1>8. \A i \in 1..n + 1 : i # n + 1 => i \in 1..n
  BY <1>3
<1>9. \A i \in DOMAIN out' : out'[i].Data # <<>>
  BY <1>1, <1>2, <1>3, <1>4, <1>5, <1>6, <1>8
<1>10. ASSUME NEW i \in DOMAIN out'
       PROVE  /\ out'[i].Index = i - 1
              /\ out'[i].Offset = SumOf([j \in 1..i-1 |-> Len(out'[j].Data)])
  <2>1. [j \in 1..i-1 |-> Len(out'[j].Data)] = [j \in 1..i-1 |-> Len(out[j].Data)]
    <3>1. \A j \in 1..i-1 : out'[j] = out[j]
      BY <1>2, <1>3, <1>4, SMTT(30)
    <3> QED BY <3>1
  <2>2. CASE i = n + 1
    <3>1. i - 1 = n
      BY <1>3, <2>2
    <3>2. [j \in 1..i-1 |-> Len(out'[j].Data)] = Sizes(out)
      BY <1>3, <2>1, <3>1
    <3> QED BY <1>5, <1>6, <1>7, <2>2, <3>1, <3>2
  <2>3. CASE i # n + 1
    <3>1. i \in DOMAIN out /\ out'[i] = out[i]
      BY <1>2, <1>3, <1>4, <1>8, <2>3
    <3> QED BY <1>5, <2>1, <3>1
  <2> QED BY <2>2, <2>3
<1>11. Fits(out')
  BY <1>10 DEF Fits
<1>12. Len(data) \in Nat
  BY <1>1, LenProperties
<1>13. SumOf(Sizes(out')) = offset'
  BY <1>2, <1>3, <1>5, <1>12, SumAppend, ZenonT(60)
<1>14. Assembled(out') = Slice(content, 0, offset')
  <2>1. Assembled(out') = Assembled(out) \o data
    <3>1. FlattenSeq(Append(Datas(out), data)) = FlattenSeq(Datas(out)) \o data
      BY <1>1, <1>3, FlattenAppend
    <3> QED BY <1>2, <3>1 DEF Assembled
  <2>2. offset + Len(data) <= Len(content) /\ data = Slice(content, offset, offset + Len(data))
    BY DEF NextPiece
  <2>3. Slice(content, 0, offset) \o Slice(content, offset, offset') = Slice(content, 0, offset')
    <3>1. 0 \in Nat /\ 0 <= offset /\ offset <= offset' /\ offset' <= Len(content)
      BY <1>2, <1>12, <2>2, SMTT(30)
    <3> QED BY <1>2, <3>1, SlicesMeet
  <2> QED BY <1>2, <1>5, <2>1, <2>2, <2>3
<1> QED BY <1>9, <1>11, <1>13, <1>14 DEF PiecesFit

\* If the piece ends where cutting all of the content ends it, the pieces are
\* still the ones that gives.
LEMMA PieceAlike ==
    ASSUME Sound(policy), content \in Seq(Bytes), out \in Seq(PieceSet), index = Len(out),
           offset \in Nat, CutsAlike, NEW data, NextPiece(data), Len(data) = LengthAt(offset),
           content' = content, policy' = policy
    PROVE  CutsAlike'
<1>1. /\ data \in Seq(Bytes) /\ data # <<>> /\ Emit(data)
      /\ offset + Len(data) <= Len(content)
      /\ data = Slice(content, offset, offset + Len(data))
  BY DEF NextPiece
<1>2. offset' = offset + Len(data) /\ Datas(out') = Append(Datas(out), data)
  BY <1>1, EmitIs
<1>3. Datas(out) \in Seq(Seq(Bytes))
  BY PiecesAre
<1>4. Len(data) \in Nat /\ Len(data) # 0 /\ Len(content) \in Nat
  BY <1>1, LenProperties, EmptySeq
<1>5. offset \in 0..Len(content) /\ offset # Len(content) /\ offset' \in 0..Len(content)
  BY <1>1, <1>2, <1>4
<1>6. /\ PiecesFrom[offset'] \in Seq(Seq(Bytes))
      /\ PiecesFrom[offset] = <<Upto(After(content, offset), LengthAt(offset))>>
                                   \o PiecesFrom[offset + LengthAt(offset)]
  BY <1>5, PiecesFromIs
<1>7. Upto(After(content, offset), Len(data)) = data
  <2>1. After(content, offset) = Slice(content, offset, Len(content))
    BY SlicesOfAll
  <2> DEFINE n == Len(content)
             l == Len(data)
  <2>2. /\ content \in Seq(Bytes) /\ offset \in Nat /\ n \in Nat
        /\ offset <= n /\ n <= Len(content) /\ l \in 0..(n - offset)
    BY <1>1, <1>4
  <2> HIDE DEF n, l
  <2>3. Upto(Slice(content, offset, n), l) = Slice(content, offset, offset + l)
    BY <2>2, SliceParts
  <2> QED BY <1>1, <2>1, <2>3 DEF n, l
<1>8. PiecesFrom[offset] = <<data>> \o PiecesFrom[offset']
  BY <1>2, <1>6, <1>7
<1>9. Append(Datas(out), data) = Datas(out) \o <<data>> /\ <<data>> \in Seq(Seq(Bytes))
  BY <1>1, <1>3
<1>10. (Datas(out) \o <<data>>) \o PiecesFrom[offset']
           = Datas(out) \o (<<data>> \o PiecesFrom[offset'])
  BY <1>3, <1>6, <1>9, PiecesAssociate
<1>11. PiecesFrom[0] = Datas(out) \o PiecesFrom[offset]
  BY DEF CutsAlike
<1>12. PiecesFrom[0] = Datas(out') \o PiecesFrom[offset']
  BY <1>2, <1>8, <1>9, <1>10, <1>11
<1> QED BY <1>12, PiecesFromKept DEF CutsAlike

-----------------------------------------------------------------------------
(* Where the next piece ends *)

\* A boundary in the part at hand is where cutting all of the content cuts.
LEMMA BoundaryIs ==
    ASSUME policy.Mode = "cdc", content \in Seq(Bytes), NEW a \in Nat, NEW b \in Nat,
           a <= b, b <= Len(content), Cuts(Fresh, Slice(content, a, b)) # {}
    PROVE  LET i == Min(Cuts(Fresh, Slice(content, a, b)))
           IN /\ i \in Cuts(Fresh, Slice(content, a, b))
              /\ i \in 1..(b - a) /\ LengthAt(a) = i
<1> DEFINE s == Slice(content, a, b)
           rest == After(content, a)
           here == Cuts(Fresh, s)
           all == Cuts(Fresh, rest)
<1>1. Len(content) \in Nat
  BY LenProperties
<1>2. s \in Seq(Bytes) /\ Len(s) = b - a
  BY SliceIs
<1>3. a \in 0..Len(content) /\ b - a \in 0..(Len(content) - a) /\ a + (b - a) = b
  BY <1>1
<1>4. rest \in Seq(Bytes) /\ Len(rest) = Len(content) - a
  BY <1>3, AfterIs
<1>5. s = Upto(rest, b - a)
  <2>1. rest = Slice(content, a, Len(content))
    BY SlicesOfAll
  <2>2. a <= Len(content) /\ Len(content) <= Len(content)
    BY <1>1
  <2>3. Upto(Slice(content, a, Len(content)), b - a) = Slice(content, a, a + (b - a))
    BY <1>1, <1>3, <2>2, SliceParts
  <2> QED BY <1>3, <2>1, <2>3
<1>6. /\ all \in SUBSET Nat /\ here = {i \in all : i <= b - a}
  <2>1. b - a \in 0..Len(rest)
    BY <1>3, <1>4
  <2> HIDE DEF rest
  <2>2. /\ Cuts(Fresh, rest) \in SUBSET Nat
        /\ Cuts(Fresh, Upto(rest, b - a)) = {i \in Cuts(Fresh, rest) : i <= b - a}
    BY <1>4, <2>1, FreshGear, CutsOfPrefix
  <2> QED BY <1>5, <2>2
<1>7. here \in SUBSET (1..(b - a))
  BY <1>2 DEF Cuts
<1>8. LengthAt(a) = IF all = {} THEN Len(rest) ELSE Min(all)
  BY DEF LengthAt, FindBoundary
<1>9. here # {}
  OBVIOUS
<1> HIDE DEF s, rest, here, all
<1>10. here \in SUBSET Nat /\ all # {}
  BY <1>6, <1>9
<1>11. Min(here) \in here /\ \A u \in here : Min(here) <= u
  BY <1>9, <1>10, MinIn
<1>12. Min(all) \in all /\ \A u \in all : Min(all) <= u
  BY <1>6, <1>10, MinIn
<1>13. Min(here) \in all /\ Min(here) \in 1..(b - a)
  BY <1>6, <1>7, <1>11
<1>14. Min(all) \in here
  <2>1. Min(all) <= Min(here) /\ Min(all) \in Nat
    BY <1>6, <1>12, <1>13
  <2>2. Min(here) <= b - a /\ Min(here) \in Nat /\ b - a \in Int
    BY <1>13
  <2>3. Min(all) <= b - a
    BY <2>1, <2>2
  <2> QED BY <1>6, <1>12, <2>3
<1>15. Min(all) = Min(here)
  <2>1. Min(all) <= Min(here) /\ Min(here) <= Min(all) /\ Min(all) \in Nat /\ Min(here) \in Nat
    BY <1>6, <1>11, <1>12, <1>13, <1>14
  <2> QED BY <2>1
<1>16. Min(here) \in here /\ Min(here) \in 1..(b - a) /\ LengthAt(a) = Min(here)
  BY <1>8, <1>10, <1>11, <1>13, <1>15
<1> QED BY <1>16 DEF here, s

\* Without one up to the content's end, all the rest is the last piece.
LEMMA TailIs ==
    ASSUME policy.Mode = "cdc", content \in Seq(Bytes), NEW a \in Nat, a <= Len(content),
           Cuts(Fresh, Slice(content, a, Len(content))) = {}
    PROVE  LengthAt(a) = Len(content) - a
<1>1. a \in 0..Len(content)
  BY LenProperties
<1>2. Len(After(content, a)) = Len(content) - a
  BY <1>1, AfterIs
<1>3. After(content, a) = Slice(content, a, Len(content))
  BY SlicesOfAll
<1> QED BY <1>2, <1>3 DEF LengthAt, FindBoundary

\* Fixed pieces have the average size, the last one what is left.
LEMMA FixedLengthIs ==
    ASSUME policy.Mode = "fixed", content \in Seq(Bytes), NEW a \in Nat, a <= Len(content)
    PROVE  LengthAt(a) = Min({policy.Avg, Len(content) - a})
<1>1. a \in 0..Len(content)
  BY LenProperties
<1>2. Len(After(content, a)) = Len(content) - a
  BY <1>1, AfterIs
<1> QED BY <1>2 DEF LengthAt

-----------------------------------------------------------------------------
(* Steps *)

\* What the steps rely on.
LEMMA Basics ==
    ASSUME Shapes
    PROVE  /\ Sound(policy) /\ policy.Mode \in {"fixed", "cdc"}
           /\ policy.Avg \in Nat /\ 1 <= policy.Avg /\ policy.Max \in Nat
           /\ BufSize \in Nat /\ 1 <= BufSize
           /\ content \in Seq(Bytes) /\ Len(content) \in Nat
           /\ at \in Nat /\ offset \in Nat /\ offset <= at /\ at <= Len(content)
           /\ Left = Len(content) - at /\ Left \in Nat
           /\ out \in Seq(PieceSet) /\ index = Len(out)
           /\ ending \in EndingKinds
<1>1. Sound(policy)
  BY SoundPolicy DEF Shapes
<1>2. content \in Seq(Bytes) /\ ending \in EndingKinds
  BY InputAssumption DEF Shapes
<1>3. Len(content) \in Nat
  BY <1>2, LenProperties
<1>4. BufSize \in Nat /\ 1 <= BufSize
  BY SizesAssumption
<1>5. /\ policy.Mode \in {"fixed", "cdc"}
      /\ policy.Avg \in Nat /\ 1 <= policy.Avg /\ policy.Max \in Nat
  BY <1>1 DEF Sound
<1>6. at \in 0..Len(content) /\ offset \in 0..at /\ out \in Seq(PieceSet) /\ index = Len(out)
  BY DEF Shapes
<1>7. at \in Nat /\ offset \in Nat /\ offset <= at /\ at <= Len(content)
  BY <1>3, <1>6
<1>8. Left = Len(content) - at /\ Left \in Nat
  BY <1>3, <1>7 DEF Left
<1> QED BY <1>1, <1>2, <1>3, <1>4, <1>5, <1>6, <1>7, <1>8

\* Until an error, the bytes at hand are those between the offset and what was
\* read.
LEMMA AtHand ==
    ASSUME Shapes, Held, err = "none"
    PROVE  /\ buf \o carry = Slice(content, offset, at)
           /\ Slice(content, offset, at) \in Seq(Bytes)
           /\ Len(Slice(content, offset, at)) = at - offset
           /\ buf = <<>> => carry = Slice(content, offset, at)
           /\ carry = <<>> => buf = Slice(content, offset, at)
<1>1. buf \in Seq(Bytes) /\ carry \in Seq(Bytes)
  BY DEF Shapes
<1>2. buf \o carry = Slice(content, offset, at)
  BY DEF Held
<1>3. Slice(content, offset, at) \in Seq(Bytes) /\ Len(Slice(content, offset, at)) = at - offset
  <2>1. /\ content \in Seq(Bytes) /\ offset \in Nat /\ at \in Nat
        /\ offset <= at /\ at <= Len(content)
    BY Basics
  <2> QED BY <2>1, SliceIs
<1>4. <<>> \o carry = carry /\ buf \o <<>> = buf
  BY <1>1, ConcatEmptySeq
<1> QED BY <1>2, <1>3, <1>4

\* Complete pieces stay complete while nothing is read.
LEMMA CompletesKept ==
    ASSUME UNCHANGED <<policy, at, out>>
    PROVE  (\E i \in DOMAIN out : CompleteByLastRead(out[i])) =>
              (\E i \in DOMAIN out : CompleteByLastRead(out[i]))'
<1>1. ASSUME NEW i \in DOMAIN out
      PROVE  CompleteByLastRead(out[i])' <=> CompleteByLastRead(out[i])
  BY DEF CompleteByLastRead, Complete, AtBoundary, MaskRange
<1> QED BY <1>1

\* A step that adds no piece keeps the ones there are.
LEMMA NoPiece ==
    ASSUME UNCHANGED <<inputVars, offset, index, out>>
    PROVE  (PiecesFit => PiecesFit') /\ (CutsAlike => CutsAlike')
<1>1. content' = content /\ policy' = policy /\ offset' = offset /\ out' = out
  BY DEF inputVars
<1>2. PiecesFit => PiecesFit'
  BY <1>1 DEF PiecesFit
<1>3. CutsAlike => CutsAlike'
  BY <1>1, PiecesFromKept DEF CutsAlike
<1> QED BY <1>2, <1>3

\* A step that adds the piece that cutting all of the content would do.
NextAlike(data) == NextPiece(data) /\ Len(data) = LengthAt(offset)

\* What has to be shown of a step.
Progress ==
    /\ UNCHANGED inputVars
    /\ Shapes' /\ Phases' /\ Held' /\ FixedSizes' /\ Ends'
    /\ UNCHANGED <<offset, index, out>> \/ \E data \in Seq(Bytes) : NextAlike(data)

\* It is enough.
LEMMA ProgressIsEnough ==
    ASSUME SplitInv, CutsAlike, Progress
    PROVE  SplitInv' /\ CutsAlike'
<1>1. PiecesFit' /\ CutsAlike'
  <2>1. CASE UNCHANGED <<offset, index, out>>
    BY <2>1, NoPiece DEF SplitInv, Progress
  <2>2. CASE \E data \in Seq(Bytes) : NextAlike(data)
    <3>1. PICK data \in Seq(Bytes) : NextPiece(data) /\ Len(data) = LengthAt(offset)
      BY <2>2 DEF NextAlike
    <3>2. content' = content /\ policy' = policy
      BY DEF Progress, inputVars
    <3>3. /\ Sound(policy) /\ content \in Seq(Bytes) /\ out \in Seq(PieceSet)
          /\ index = Len(out) /\ offset \in Nat /\ PiecesFit
      BY Basics DEF SplitInv
    <3>4. PiecesFit'
      BY <3>1, <3>2, <3>3, PieceFits
    <3>5. CutsAlike'
      BY <3>1, <3>2, <3>3, PieceAlike
    <3> QED BY <3>4, <3>5
  <2> QED BY <2>1, <2>2 DEF Progress
<1> QED BY <1>1 DEF SplitInv, Progress

\* After Next has returned a piece, its offset and number are those of the
\* next; a complete piece stays, and the new one may be one.
LEMMA PieceAdded ==
    ASSUME Shapes, NEW data, NextPiece(data), UNCHANGED inputVars
    PROVE  /\ out' \in Seq(PieceSet) /\ index' = Len(out') /\ Len(out') = Len(out) + 1
           /\ DOMAIN out = 1..Len(out) /\ DOMAIN out' = 1..Len(out) + 1
           /\ \A i \in 1..Len(out) : out'[i] = out[i]
           /\ out'[Len(out) + 1].Data = data
           /\ offset' = offset + Len(data) /\ Len(data) \in Nat /\ Len(data) # 0
           /\ (\E i \in DOMAIN out : CompleteByLastRead(out[i])) /\ at' = at =>
                 (\E i \in DOMAIN out : CompleteByLastRead(out[i]))'
           /\ Complete(data) /\ offset + Len(data) > at' - BufSize =>
                 (\E i \in DOMAIN out : CompleteByLastRead(out[i]))'
<1>1. /\ data \in Seq(Bytes) /\ data # <<>> /\ Emit(data)
  BY DEF NextPiece
<1>2. out \in Seq(PieceSet) /\ index = Len(out) /\ offset \in Nat
  BY Basics
<1>3. /\ out' \in Seq(PieceSet) /\ Len(out') = Len(out) + 1 /\ index' = Len(out')
      /\ \A i \in 1..Len(out) : out'[i] = out[i]
      /\ out'[Len(out) + 1] = [Index |-> index, Offset |-> offset, Data |-> data]
      /\ offset' = offset + Len(data)
  BY <1>1, <1>2, EmitIs
<1>4. /\ out'[Len(out) + 1].Data = data /\ out'[Len(out) + 1].Offset = offset
  BY <1>3
<1>5. DOMAIN out = 1..Len(out) /\ Len(out) \in Nat /\ DOMAIN out' = 1..Len(out) + 1
  BY <1>2, <1>3, LenProperties
<1>6. Len(data) \in Nat /\ Len(data) # 0
  BY <1>1, LenProperties, EmptySeq
<1>7. ASSUME NEW d PROVE Complete(d)' <=> Complete(d)
  BY DEF Complete, AtBoundary, MaskRange, inputVars
<1>8. Len(out) + 1 \in DOMAIN out' /\ \A i \in DOMAIN out : i \in DOMAIN out'
  BY <1>5
<1>9. ASSUME NEW i \in DOMAIN out, CompleteByLastRead(out[i]), at' = at
      PROVE  CompleteByLastRead(out[i])'
  <2>1. out'[i] = out[i]
    BY <1>3, <1>5
  <2> QED BY <1>7, <1>9, <2>1 DEF CompleteByLastRead
<1>10. ASSUME NEW k, k = Len(out) + 1, Complete(data), offset + Len(data) > at' - BufSize
       PROVE  CompleteByLastRead(out[k])'
  <2>1. out'[k].Data = data /\ out'[k].Offset = offset
    BY <1>4, <1>10
  <2> QED BY <1>7, <1>10, <2>1 DEF CompleteByLastRead
<1>11. (\E i \in DOMAIN out : CompleteByLastRead(out[i])) /\ at' = at =>
          (\E i \in DOMAIN out : CompleteByLastRead(out[i]))'
  BY <1>8, <1>9
<1>12. Complete(data) /\ offset + Len(data) > at' - BufSize =>
          (\E i \in DOMAIN out : CompleteByLastRead(out[i]))'
  BY <1>8, <1>10
<1> QED BY <1>3, <1>4, <1>5, <1>6, <1>11, <1>12

\* No step changes what was opened or what is read.
LEMMA InputKept ==
    ASSUME Shapes, UNCHANGED inputVars
    PROVE  Opened' /\ content' \in Contents /\ ending' \in Endings
  BY DEF Shapes, Opened, inputVars

\* The errors a reader returns, and the endings they come of.
LEMMA ReaderErrIs ==
    ASSUME Shapes, Ends
    PROVE  /\ ReaderErr \in Errors
           /\ ReaderErr = "EOF" => ending = "EOF" \/ told
           /\ ReaderErr = "UnexpectedEOF" => ending = "UnexpectedEOF"
           /\ ReaderErr # "failed" /\ ending = "failed once" => told
<1>1. ending \in EndingKinds
  BY Basics
<1>2. told => ending = "failed once"
  BY DEF Ends
<1> QED BY <1>1, <1>2 DEF ReaderErr, EndingKinds, Errors

\* The reader has failed once only at the end of what it delivers.
LEMMA ToldIs ==
    ASSUME Shapes, Ends, UNCHANGED inputVars, NEW withEnd \in BOOLEAN, told' = Told(withEnd),
           NEW n \in Nat, n <= Left, withEnd => n = Left, at' = at + n
    PROVE  /\ told' \in BOOLEAN /\ (told => told')
           /\ told' => ending' = "failed once" /\ at' = Len(content')
           /\ told => n = 0
           /\ told' /\ ~told => withEnd
<1>1. at \in Nat /\ Left = Len(content) - at /\ Len(content) \in Nat
  BY Basics
<1>2. told \in BOOLEAN /\ (told => ending = "failed once" /\ at = Len(content))
  BY DEF Shapes, Ends
<1>3. told' = (told \/ (withEnd /\ ending = "failed once"))
  BY DEF Told
<1>4. ending' = ending /\ content' = content
  BY DEF inputVars
<1>5. ASSUME told PROVE n = 0 /\ at' = Len(content')
  <2>1. at = Len(content)
    BY <1>2, <1>5
  <2>2. n = 0
    BY <1>1, <2>1
  <2> QED BY <1>1, <1>4, <2>1, <2>2
<1>6. withEnd => at' = Len(content')
  BY <1>1, <1>4
<1>7. told' \in BOOLEAN /\ (told => told') /\ (told' /\ ~told => withEnd)
  BY <1>2, <1>3
<1>8. told' => ending = "failed once" /\ (told \/ withEnd)
  BY <1>2, <1>3
<1> QED BY <1>4, <1>5, <1>6, <1>7, <1>8

-----------------------------------------------------------------------------
(* NextEOF *)

\* Next says EOF once more.
LEMMA StepEOF ==
    ASSUME SplitInv, NextEOF
    PROVE  Progress
<1>1. /\ Shapes /\ Phases /\ Held /\ FixedSizes /\ Ends
      /\ err = "none" /\ ~running /\ eof /\ err' = "EOF"
      /\ UNCHANGED <<offset, index, out, at, told, carry, buf, gear, eof, running>>
      /\ UNCHANGED inputVars
  BY DEF SplitInv, NextEOF, CallsNext, Fail
<1>2. Shapes'
  BY <1>1, InputKept DEF Shapes, Errors, inputVars
<1>3. Phases'
  BY <1>1 DEF Phases, inputVars
<1>4. Held'
  BY <1>1 DEF Held, inputVars
<1>5. FixedSizes'
  BY <1>1 DEF FixedSizes, inputVars
<1>6. Ends'
  <2>1. (\E i \in DOMAIN out : CompleteByLastRead(out[i])) =>
           (\E i \in DOMAIN out : CompleteByLastRead(out[i]))'
    BY <1>1, CompletesKept DEF inputVars
  <2> QED BY <1>1, <2>1 DEF Ends, inputVars
<1> QED BY <1>1, <1>2, <1>3, <1>4, <1>5, <1>6 DEF Progress

-----------------------------------------------------------------------------
(* NextFixed *)

\* A piece of the fixed size, the short last one, the end or a failure.
LEMMA StepFixed ==
    ASSUME SplitInv, NextFixed
    PROVE  Progress
<1> DEFINE n == Min({policy.Avg, Left})
           e == ReadFull(policy.Avg).err
<1>1. Shapes /\ Phases /\ Held /\ FixedSizes /\ Ends
  BY DEF SplitInv
<1>2. /\ err = "none" /\ ~running /\ ~eof /\ policy.Mode = "fixed"
      /\ carry' = carry /\ buf' = buf /\ gear' = gear /\ running' = running
      /\ UNCHANGED inputVars
  BY DEF NextFixed, CallsNext
<1>3. e = IF n = policy.Avg THEN "none"
          ELSE IF ReaderErr = "EOF" /\ n > 0 THEN "UnexpectedEOF" ELSE ReaderErr
  BY DEF ReadFull
<1>4. ReadFull(policy.Avg).n = n
  BY DEF ReadFull
<1>5. /\ at' = at + n
      /\ \E withEnd \in BOOLEAN :
            /\ e # "none" => withEnd
            /\ withEnd => n = Left
            /\ told' = Told(withEnd)
      /\ eof' = (e \in {"EOF", "UnexpectedEOF"} \/ eof)
      /\ \/ n = 0 /\ e \in {"EOF", "UnexpectedEOF"} /\ Fail("EOF")
         \/ e = "failed" /\ Fail("failed")
         \/ n > 0 /\ e # "failed" /\ Emit(SubSeq(content, at + 1, at + n)) /\ UNCHANGED err
  <2> HIDE DEF n
  <2> QED BY <1>4 DEF NextFixed
<1>6. PICK withEnd \in BOOLEAN : /\ e # "none" => withEnd
                                 /\ withEnd => n = Left
                                 /\ told' = Told(withEnd)
  BY <1>5
<1>7. /\ Sound(policy) /\ policy.Avg \in Nat /\ 1 <= policy.Avg /\ BufSize \in Nat /\ 1 <= BufSize
      /\ content \in Seq(Bytes) /\ Len(content) \in Nat
      /\ at \in Nat /\ offset \in Nat /\ offset <= at /\ at <= Len(content)
      /\ Left = Len(content) - at /\ Left \in Nat
      /\ out \in Seq(PieceSet) /\ index = Len(out)
  BY <1>1, Basics
<1>8. n = IF policy.Avg <= Left THEN policy.Avg ELSE Left
  BY <1>7, MinOfTwo
<1> HIDE DEF n, e
<1>9. /\ n \in Nat /\ n <= Left /\ n <= policy.Avg /\ (n # policy.Avg => n = Left)
      /\ at + n \in Nat /\ at <= at + n /\ at + n <= Len(content)
  BY <1>7, <1>8
<1>10. /\ ReaderErr \in Errors
       /\ ReaderErr = "EOF" => ending = "EOF" \/ told
       /\ ReaderErr = "UnexpectedEOF" => ending = "UnexpectedEOF"
       /\ ReaderErr # "failed" /\ ending = "failed once" => told
  BY <1>1, ReaderErrIs
<1>11. /\ told' \in BOOLEAN /\ (told => told')
       /\ told' => ending' = "failed once" /\ at' = Len(content')
       /\ told => n = 0
       /\ told' /\ ~told => withEnd
  BY <1>1, <1>2, <1>5, <1>6, <1>9, ToldIs
<1>12. carry = <<>> /\ buf = <<>>
  BY <1>1, <1>2 DEF Phases
<1>13. offset = at
  <2>1. <<>> = Slice(content, offset, at)
    BY <1>1, <1>2, <1>12, AtHand
  <2> QED BY <1>7, <2>1, SliceEmpty
<1>14. /\ content' = content /\ policy' = policy /\ ending' = ending
       /\ Opened' /\ content' \in Contents /\ ending' \in Endings
  BY <1>1, <1>2, InputKept DEF inputVars
<1>15. /\ carry' \in Seq(Bytes) /\ buf' \in Seq(Bytes) /\ gear' \in Gears
       /\ gear'.n <= policy'.Max /\ running' \in BOOLEAN /\ eof' \in BOOLEAN
       /\ at' \in 0..Len(content')
  BY <1>1, <1>2, <1>5, <1>7, <1>9, <1>14 DEF Shapes
<1>16. Phases'
  BY <1>1, <1>2, <1>14 DEF Phases
<1>17. eof' => ending' = "EOF" \/ told' \/ (ending' = "UnexpectedEOF" /\ policy'.Mode = "fixed")
  BY <1>2, <1>3, <1>5, <1>10, <1>11, <1>14 DEF Errors
<1>18. told /\ err \in {"none", "EOF"} => \E i \in DOMAIN out : CompleteByLastRead(out[i])
  BY <1>1 DEF Ends
<1>19. CASE n > 0 /\ e # "failed" /\ Emit(SubSeq(content, at + 1, at + n)) /\ UNCHANGED err
  <2> DEFINE data == Slice(content, at, at + n)
  <2>1. data \in Seq(Bytes) /\ Len(data) = n
    <3>1. Len(data) = (at + n) - at /\ data \in Seq(Bytes)
      BY <1>7, <1>9, SliceIs
    <3> HIDE DEF data
    <3> QED BY <1>7, <1>9, <3>1
  <2>2. NextPiece(data)
    <3>1. data # <<>>
      BY <1>7, <1>9, <1>19, SliceEmpty
    <3>2. Emit(data)
      BY <1>19 DEF Slice
    <3> HIDE DEF data
    <3>3. offset + Len(data) <= Len(content)
      BY <1>9, <1>13, <2>1
    <3>4. data = Slice(content, offset, offset + Len(data))
      BY <1>13, <2>1 DEF data
    <3> QED BY <2>1, <3>1, <3>2, <3>3, <3>4 DEF NextPiece
  <2>3. Len(data) = LengthAt(offset)
    <3>1. LengthAt(at) = Min({policy.Avg, Len(content) - at})
      BY <1>2, <1>7, FixedLengthIs
    <3> QED BY <1>7, <1>13, <2>1, <3>1 DEF n
  <2> HIDE DEF data
  <2>4. /\ out' \in Seq(PieceSet) /\ index' = Len(out') /\ Len(out') = Len(out) + 1
        /\ DOMAIN out = 1..Len(out) /\ DOMAIN out' = 1..Len(out) + 1
        /\ \A i \in 1..Len(out) : out'[i] = out[i]
        /\ out'[Len(out) + 1].Data = data
        /\ offset' = offset + Len(data)
        /\ Complete(data) /\ offset + Len(data) > at' - BufSize =>
              (\E i \in DOMAIN out : CompleteByLastRead(out[i]))'
    BY <1>1, <1>2, <2>2, PieceAdded
  <2>5. offset' = at'
    BY <1>5, <1>13, <2>1, <2>4
  <2>6. err' = "none"
    BY <1>2, <1>19
  <2>7. offset' \in 0..at'
    BY <1>5, <1>9, <2>5
  <2>8. Shapes'
    BY <1>11, <1>14, <1>15, <2>4, <2>6, <2>7 DEF Shapes
  <2>9. e # "none" => n = Left
    BY <1>6
  <2>10. eof' => e # "none" /\ offset' = Len(content')
    <3>1. eof' => e # "none"
      BY <1>2, <1>5
    <3> QED BY <1>5, <1>7, <1>14, <2>5, <2>9, <3>1
  <2>11. Held'
    <3>1. Slice(content', offset', at') = <<>>
      BY <1>5, <1>7, <1>9, <1>14, <2>5, SliceEmpty
    <3>2. buf' \o carry' = <<>>
      BY <1>2, <1>12
    <3> QED BY <2>6, <2>10, <3>1, <3>2 DEF Held
  <2>12. ~eof' => n = policy.Avg
    <3>1. ~eof' => e \notin {"EOF", "UnexpectedEOF"}
      BY <1>5
    <3> QED BY <1>3, <1>10, <1>19, <3>1 DEF Errors
  <2>13. FixedSizes'
    <3>1. ASSUME NEW i \in DOMAIN out'
          PROVE  /\ Len(out'[i].Data) <= policy'.Avg
                 /\ i < Len(out') \/ ~eof' => Len(out'[i].Data) = policy'.Avg
      <4>1. CASE i = Len(out) + 1
        <5>1. ~(i < Len(out')) /\ Len(out'[i].Data) = n
          BY <1>7, <2>1, <2>4, <4>1
        <5> QED BY <1>9, <1>14, <2>12, <5>1
      <4>2. CASE i # Len(out) + 1
        <5>1. i \in DOMAIN out /\ out'[i] = out[i]
          BY <1>7, <2>4, <3>1, <4>2
        <5>2. Len(out[i].Data) = policy.Avg
          BY <1>1, <1>2, <5>1 DEF FixedSizes
        <5> QED BY <1>7, <1>14, <5>1, <5>2
      <4> QED BY <4>1, <4>2
    <3> QED BY <3>1 DEF FixedSizes
  <2>14. Ends'
    <3>1. ASSUME told'
          PROVE  (\E i \in DOMAIN out : CompleteByLastRead(out[i]))'
      <4>1. ~told /\ ending = "failed once"
        <5>1. n # 0
          BY <1>9, <1>19
        <5>2. ~told
          BY <1>11, <5>1
        <5> QED BY <1>11, <1>14, <3>1, <5>2
      <4>2. e = "none"
        BY <1>3, <1>10, <1>19, <4>1 DEF Errors
      <4>3. n = policy.Avg
        BY <1>3, <1>10, <4>2 DEF Errors
      <4>4. Complete(data)
        BY <1>2, <2>1, <4>3 DEF Complete
      <4>5. offset + Len(data) > at' - BufSize
        BY <1>5, <1>7, <1>9, <1>13, <2>1
      <4> QED BY <2>4, <4>4, <4>5
    <3> QED BY <1>11, <1>17, <3>1 DEF Ends
  <2> QED BY <1>2, <1>16, <2>1, <2>2, <2>3, <2>8, <2>11, <2>13, <2>14 DEF Progress, NextAlike
<1>20. CASE n = 0 /\ e \in {"EOF", "UnexpectedEOF"} /\ Fail("EOF")
  <2>1. err' = "EOF" /\ offset' = offset /\ index' = index /\ out' = out /\ at' = at
    BY <1>5, <1>7, <1>20 DEF Fail
  <2>2. Shapes'
    <3>1. offset' \in 0..at'
      BY <1>7, <2>1
    <3> QED BY <1>7, <1>11, <1>14, <1>15, <2>1, <3>1 DEF Shapes, Errors
  <2>3. Left = 0 /\ offset' = Len(content') /\ eof'
    BY <1>5, <1>7, <1>9, <1>13, <1>14, <1>20, <2>1
  <2>4. Held'
    <3>1. buf' \o carry' = Slice(content', offset', at')
      BY <1>1, <1>2, <1>14, <2>1 DEF Held
    <3> QED BY <2>1, <2>3, <3>1 DEF Held
  <2>5. FixedSizes'
    BY <1>1, <1>2, <1>14, <2>1 DEF FixedSizes
  <2>6. Ends'
    <3>1. told' => told
      BY <1>3, <1>10, <1>11, <1>14, <1>20 DEF Errors
    <3>2. (\E i \in DOMAIN out : CompleteByLastRead(out[i])) =>
             (\E i \in DOMAIN out : CompleteByLastRead(out[i]))'
      BY <1>14, <2>1, CompletesKept
    <3> QED BY <1>2, <1>11, <1>17, <1>18, <3>1, <3>2 DEF Ends
  <2> QED BY <1>2, <1>16, <2>1, <2>2, <2>4, <2>5, <2>6 DEF Progress
<1>21. CASE e = "failed" /\ Fail("failed")
  <2>1. err' = "failed" /\ offset' = offset /\ index' = index /\ out' = out /\ ~eof'
    BY <1>2, <1>5, <1>21 DEF Fail
  <2>2. offset' \in 0..at'
    BY <1>5, <1>7, <1>9, <2>1
  <2>3. Shapes'
    BY <1>7, <1>11, <1>14, <1>15, <2>1, <2>2 DEF Shapes, Errors
  <2>4. Held'
    BY <2>1 DEF Held
  <2>5. FixedSizes'
    BY <1>1, <1>2, <1>14, <2>1 DEF FixedSizes
  <2>6. Ends'
    BY <1>11, <2>1 DEF Ends
  <2> QED BY <1>2, <1>16, <2>1, <2>3, <2>4, <2>5, <2>6 DEF Progress
<1> QED BY <1>5, <1>19, <1>20, <1>21

-----------------------------------------------------------------------------
(* ScanCarry *)

\* The carry has the next piece, or becomes its beginning.
LEMMA StepScan ==
    ASSUME SplitInv, ScanCarry
    PROVE  Progress
<1> DEFINE s == Slice(content, offset, at)
           cuts == Cuts(Fresh, s)
           i == Min(cuts)
<1>1. Shapes /\ Phases /\ Held /\ FixedSizes /\ Ends
  BY DEF SplitInv
<1>2. /\ err = "none" /\ ~running /\ ~eof /\ policy.Mode = "cdc"
      /\ at' = at /\ told' = told /\ eof' = eof /\ err' = err
      /\ UNCHANGED inputVars
  BY DEF ScanCarry, CallsNext
<1>3. /\ Sound(policy) /\ policy.Max \in Nat
      /\ content \in Seq(Bytes) /\ Len(content) \in Nat
      /\ at \in Nat /\ offset \in Nat /\ offset <= at /\ at <= Len(content)
      /\ out \in Seq(PieceSet) /\ index = Len(out)
  BY <1>1, Basics
<1>4. buf = <<>>
  BY <1>1, <1>2 DEF Phases
<1>5. carry = s /\ s \in Seq(Bytes) /\ Len(s) = at - offset
  BY <1>1, <1>2, <1>4, AtHand
<1>6. \/ /\ cuts # {}
         /\ Emit(Upto(s, i)) /\ carry' = After(s, i) /\ gear' = Fed(Fresh, Upto(s, i))
         /\ buf' = buf /\ running' = running
      \/ /\ cuts = {}
         /\ buf' = s /\ carry' = <<>> /\ gear' = Fed(Fresh, s) /\ running' = TRUE
         /\ UNCHANGED <<offset, index, out>>
  <2> HIDE DEF s
  <2> QED BY <1>5 DEF ScanCarry
<1>7. /\ content' = content /\ policy' = policy /\ ending' = ending
      /\ Opened' /\ content' \in Contents /\ ending' \in Endings
  BY <1>1, <1>2, InputKept DEF inputVars
<1>8. /\ told' \in BOOLEAN /\ eof' \in BOOLEAN /\ ~eof' /\ err' = "none"
      /\ at' \in 0..Len(content')
  BY <1>1, <1>2, <1>3, <1>7 DEF Shapes
<1>9. /\ told' => ending' = "failed once" /\ at' = Len(content')
      /\ told' => \E j \in DOMAIN out : CompleteByLastRead(out[j])
  BY <1>1, <1>2, <1>7 DEF Ends
<1>10. policy'.Mode # "fixed" /\ FixedSizes'
  BY <1>2, <1>7 DEF FixedSizes
<1>11. CASE cuts # {}
  <2> DEFINE data == Slice(content, offset, offset + i)
  <2>1. i \in 1..(at - offset) /\ LengthAt(offset) = i
    BY <1>2, <1>3, <1>11, BoundaryIs
  <2>2. i <= policy.Max
    BY <1>3, <1>5, <1>11, CutsBelowMax
  <2> HIDE DEF cuts, i
  <2>3. i \in Nat /\ i # 0 /\ i \in 0..(at - offset) /\ i \in 0..Len(s)
        /\ offset + i \in Nat /\ offset <= offset + i /\ offset + i <= at
        /\ offset + i <= Len(content) /\ (offset + i) - offset = i
    BY <1>3, <1>5, <2>1
  <2>4. Upto(s, i) = data /\ After(s, i) = Slice(content, offset + i, at)
    BY <1>3, <2>3, SliceParts
  <2>5. data \in Seq(Bytes) /\ Len(data) = i
    BY <1>3, <2>3, SliceIs, ZenonT(60)
  <2>6. After(s, i) \in Seq(Bytes)
    BY <1>5, <2>3, AfterIs
  <2>7. /\ Emit(data) /\ carry' = Slice(content, offset + i, at) /\ gear' = Fed(Fresh, data)
        /\ buf' = <<>> /\ ~running' /\ carry' \in Seq(Bytes)
    BY <1>2, <1>4, <1>6, <1>11, <2>4, <2>6
  <2>8. NextPiece(data)
    <3>1. data # <<>>
      BY <1>3, <2>3, SliceEmpty
    <3>2. offset + Len(data) <= Len(content) /\ data = Slice(content, offset, offset + Len(data))
      BY <2>3, <2>5
    <3> HIDE DEF data
    <3> QED BY <2>5, <2>7, <3>1, <3>2 DEF NextPiece
  <2> HIDE DEF data, s
  <2>9. gear' \in Gears /\ gear'.n <= policy'.Max
    <3>1. Fed(Fresh, data) \in Gears /\ Fed(Fresh, data).n = 0 + Len(data)
      BY <2>5, FreshGear, FedTyped
    <3> QED BY <1>7, <2>2, <2>3, <2>5, <2>7, <3>1
  <2>10. /\ out' \in Seq(PieceSet) /\ index' = Len(out')
         /\ offset' = offset + i
         /\ (\E j \in DOMAIN out : CompleteByLastRead(out[j])) =>
              (\E j \in DOMAIN out : CompleteByLastRead(out[j]))'
    BY <1>1, <1>2, <2>5, <2>8, PieceAdded
  <2>11. offset' \in 0..at'
    BY <1>2, <1>3, <2>3, <2>10
  <2>12. buf' \in Seq(Bytes) /\ running' \in BOOLEAN
    <3>1. running' = running /\ buf' = buf
      BY <1>6, <1>11
    <3> QED BY <1>1, <3>1 DEF Shapes
  <2>13. Shapes'
    BY <1>7, <1>8, <2>7, <2>9, <2>10, <2>11, <2>12 DEF Shapes
  <2>14. Phases'
    BY <1>10, <2>7 DEF Phases
  <2>15. Held'
    <3>1. buf' \o carry' = carry'
      BY <2>7, ConcatEmptySeq
    <3>2. carry' = Slice(content', offset', at')
      BY <1>2, <1>7, <2>7, <2>10
    <3> QED BY <1>8, <3>1, <3>2 DEF Held
  <2>16. Ends'
    BY <1>8, <1>9, <2>10 DEF Ends
  <2> QED BY <1>2, <1>10, <2>1, <2>5, <2>8, <2>13, <2>14, <2>15, <2>16 DEF Progress, NextAlike
<1>12. CASE cuts = {}
  <2>1. /\ buf' = s /\ carry' = <<>> /\ gear' = Fed(Fresh, s) /\ running'
        /\ offset' = offset /\ index' = index /\ out' = out
    BY <1>6, <1>12
  <2>2. Len(s) < policy.Max
    BY <1>3, <1>5, <1>12, CutsBelowMax
  <2>3. Fed(Fresh, s) \in Gears /\ Fed(Fresh, s).n = 0 + Len(s)
    BY <1>5, FreshGear, FedTyped
  <2>4. gear' \in Gears /\ gear'.n <= policy'.Max
    <3>1. Len(s) \in Nat
      BY <1>5, LenProperties
    <3> HIDE DEF s
    <3> QED BY <1>3, <1>7, <2>1, <2>2, <2>3, <3>1
  <2>5. offset' \in 0..at' /\ buf' \in Seq(Bytes) /\ carry' \in Seq(Bytes) /\ running' \in BOOLEAN
    BY <1>2, <1>3, <1>5, <1>6, <1>12, <2>1
  <2>6. Shapes'
    BY <1>3, <1>7, <1>8, <2>1, <2>4, <2>5 DEF Shapes
  <2>7. (Cuts(Fresh, buf) = {})'
    BY <1>7, <1>12, <2>1 DEF Cuts, AtBoundary, MaskRange
  <2>8. Phases'
    BY <1>2, <1>7, <1>8, <2>1, <2>7 DEF Phases
  <2>9. Held'
    <3>1. buf' \o carry' = buf'
      BY <2>1, <2>5, ConcatEmptySeq
    <3>2. buf' = Slice(content', offset', at')
      BY <1>2, <1>7, <2>1
    <3> QED BY <1>8, <3>1, <3>2 DEF Held
  <2>10. Ends'
    <3>1. (\E j \in DOMAIN out : CompleteByLastRead(out[j])) =>
             (\E j \in DOMAIN out : CompleteByLastRead(out[j]))'
      BY <1>2, <1>7, <2>1, CompletesKept
    <3> QED BY <1>8, <1>9, <3>1 DEF Ends
  <2> QED BY <1>2, <1>10, <2>1, <2>6, <2>8, <2>9, <2>10 DEF Progress
<1> QED BY <1>11, <1>12

-----------------------------------------------------------------------------
(* ReadCDC *)

\* What one Read and its scan begin with: u is the piece so far and what the
\* Read returned.
ReadFacts(n, withEnd, got, u) ==
    /\ Shapes /\ Phases /\ Held /\ Ends
    /\ running /\ ~eof /\ err = "none" /\ policy.Mode = "cdc" /\ carry = <<>>
    /\ n \in Nat /\ n <= Left /\ n <= BufSize /\ withEnd \in BOOLEAN
    /\ (withEnd => n = Left) /\ (n = 0 => withEnd)
    /\ got = Slice(content, at, at + n) /\ u = Slice(content, offset, at + n)
    /\ at' = at + n /\ told' = Told(withEnd)
    /\ UNCHANGED inputVars

\* What follows of it.
LEMMA ReadKnown ==
    ASSUME NEW n, NEW withEnd, NEW got, NEW u, ReadFacts(n, withEnd, got, u)
    PROVE  /\ Sound(policy) /\ policy.Max \in Nat /\ BufSize \in Nat
           /\ content \in Seq(Bytes) /\ Len(content) \in Nat
           /\ at \in Nat /\ offset \in Nat /\ offset <= at /\ at <= Len(content)
           /\ at + n \in Nat /\ at <= at + n /\ at + n <= Len(content) /\ offset <= at + n
           /\ out \in Seq(PieceSet) /\ index = Len(out)
           /\ got \in Seq(Bytes) /\ Len(got) = n
           /\ u \in Seq(Bytes) /\ Len(u) = at + n - offset
           /\ buf \in Seq(Bytes) /\ buf = Slice(content, offset, at) /\ Len(buf) = at - offset
           /\ buf \o got = u
           /\ gear \in Gears /\ Fed(gear, got) = Fed(Fresh, u)
           /\ Cuts(Fresh, u) = {Len(buf) + i : i \in Cuts(gear, got)}
           /\ Cuts(gear, got) \in SUBSET (1..n)
<1>1. Shapes /\ Phases /\ Held /\ running /\ err = "none" /\ carry = <<>>
  BY DEF ReadFacts
<1>2. /\ Sound(policy) /\ policy.Max \in Nat /\ BufSize \in Nat
      /\ content \in Seq(Bytes) /\ Len(content) \in Nat
      /\ at \in Nat /\ offset \in Nat /\ offset <= at /\ at <= Len(content)
      /\ Left = Len(content) - at
      /\ out \in Seq(PieceSet) /\ index = Len(out)
  BY <1>1, Basics
<1>3. n \in Nat /\ n <= Left
  BY DEF ReadFacts
<1>4. /\ at + n \in Nat /\ at <= at + n /\ at + n <= Len(content) /\ offset <= at + n
      /\ (at + n) - at = n
  BY <1>2, <1>3
<1>5. got = Slice(content, at, at + n) /\ u = Slice(content, offset, at + n)
  BY DEF ReadFacts
<1> DEFINE m == at + n
<1>6. /\ content \in Seq(Bytes) /\ m \in Nat /\ m <= Len(content)
      /\ at \in Nat /\ at <= m /\ offset \in Nat /\ offset <= m
      /\ m - at = n /\ m - offset = at + n - offset
  BY <1>2, <1>3, <1>4
<1>7. /\ got \in Seq(Bytes) /\ Len(got) = n
      /\ u \in Seq(Bytes) /\ Len(u) = at + n - offset
  <2> HIDE DEF m
  <2>1. Slice(content, at, m) \in Seq(Bytes) /\ Len(Slice(content, at, m)) = m - at
    BY <1>6, SliceIs
  <2>2. Slice(content, offset, m) \in Seq(Bytes) /\ Len(Slice(content, offset, m)) = m - offset
    BY <1>6, SliceIs
  <2>3. got = Slice(content, at, m) /\ u = Slice(content, offset, m)
    BY <1>5 DEF m
  <2> QED BY <1>6, <2>1, <2>2, <2>3
<1>8. buf = Slice(content, offset, at) /\ buf \in Seq(Bytes) /\ Len(buf) = at - offset
  BY <1>1, AtHand
<1>9. buf \o got = u
  BY <1>2, <1>4, <1>5, <1>8, SlicesMeet, ZenonT(60)
<1>10. gear = Fed(Fresh, buf) /\ Cuts(Fresh, buf) = {} /\ gear \in Gears
  BY <1>1 DEF Phases, Shapes
<1>11. Fed(gear, got) = Fed(Fresh, u)
  BY <1>7, <1>8, <1>9, <1>10, FreshGear, FedConcat
<1>12. Cuts(Fresh, u) = {Len(buf) + i : i \in Cuts(gear, got)}
  BY <1>7, <1>8, <1>9, <1>10, CutsOfConcat
<1>13. Cuts(gear, got) \in SUBSET (1..n)
  BY <1>7 DEF Cuts
<1> QED BY <1>2, <1>4, <1>7, <1>8, <1>9, <1>10, <1>11, <1>12, <1>13

\* What every outcome of the Read leaves true.
LEMMA ReadKeeps ==
    ASSUME NEW n, NEW withEnd, NEW got, NEW u, ReadFacts(n, withEnd, got, u)
    PROVE  /\ content' = content /\ policy' = policy /\ ending' = ending
           /\ Opened' /\ content' \in Contents /\ ending' \in Endings
           /\ policy'.Mode # "fixed" /\ FixedSizes'
           /\ told' \in BOOLEAN /\ at' = at + n /\ at' \in 0..Len(content')
           /\ told' => ending' = "failed once" /\ at' = Len(content')
           /\ told => n = 0 /\ told'
           /\ told' /\ ~told => withEnd
           /\ withEnd => at' = Len(content')
           /\ ReaderErr \in Errors
           /\ ReaderErr = "EOF" => ending' = "EOF" \/ told'
           /\ ReaderErr = "EOF" /\ told' => told
<1>1. /\ Shapes /\ Ends /\ policy.Mode = "cdc" /\ UNCHANGED inputVars /\ n \in Nat /\ n <= Left
      /\ withEnd \in BOOLEAN /\ (withEnd => n = Left) /\ at' = at + n /\ told' = Told(withEnd)
  BY DEF ReadFacts
<1>2. /\ content' = content /\ policy' = policy /\ ending' = ending
      /\ Opened' /\ content' \in Contents /\ ending' \in Endings
  BY <1>1, InputKept DEF inputVars
<1>3. policy'.Mode # "fixed" /\ FixedSizes'
  BY <1>1, <1>2 DEF FixedSizes
<1>4. /\ told' \in BOOLEAN /\ (told => told')
      /\ told' => ending' = "failed once" /\ at' = Len(content')
      /\ told => n = 0
      /\ told' /\ ~told => withEnd
  BY <1>1, ToldIs
<1>5. /\ ReaderErr \in Errors
      /\ ReaderErr = "EOF" => ending = "EOF" \/ told
      /\ ReaderErr # "failed" /\ ending = "failed once" => told
  BY <1>1, ReaderErrIs
<1>6. at' \in 0..Len(content')
  BY <1>1, <1>2, ReadKnown
<1>7. withEnd => at' = Len(content')
  <2>1. Left = Len(content) - at /\ at \in Nat /\ Len(content) \in Nat
    BY <1>1, Basics
  <2> QED BY <1>1, <1>2, <2>1
<1>8. ReaderErr = "EOF" => ending' = "EOF" \/ told'
  BY <1>2, <1>4, <1>5
<1>9. ReaderErr = "EOF" /\ told' => told
  BY <1>2, <1>4, <1>5
<1> QED BY <1>1, <1>2, <1>3, <1>4, <1>5, <1>6, <1>7, <1>8, <1>9

\* A boundary in what was read.
LEMMA StepCut ==
    ASSUME NEW n, NEW withEnd, NEW got, NEW u, ReadFacts(n, withEnd, got, u),
           ReadCut(got, withEnd), running' = FALSE, buf' = <<>>
    PROVE  Progress
<1> DEFINE i == Min(Cuts(gear, got))
           k == Len(buf) + i
           e == at + i
           m == at + n
           data == Slice(content, offset, e)
<1>1. /\ Sound(policy) /\ policy.Max \in Nat /\ BufSize \in Nat
      /\ content \in Seq(Bytes) /\ Len(content) \in Nat
      /\ at \in Nat /\ offset \in Nat /\ offset <= at /\ at <= Len(content)
      /\ at + n \in Nat /\ at <= at + n /\ at + n <= Len(content) /\ offset <= at + n
      /\ out \in Seq(PieceSet) /\ index = Len(out)
      /\ got \in Seq(Bytes) /\ Len(got) = n
      /\ u \in Seq(Bytes) /\ Len(u) = at + n - offset
      /\ buf \in Seq(Bytes) /\ buf = Slice(content, offset, at) /\ Len(buf) = at - offset
      /\ buf \o got = u
      /\ gear \in Gears /\ Fed(gear, got) = Fed(Fresh, u)
      /\ Cuts(Fresh, u) = {Len(buf) + j : j \in Cuts(gear, got)}
      /\ Cuts(gear, got) \in SUBSET (1..n)
  BY ReadKnown
<1>2. /\ Shapes /\ Phases /\ Held /\ Ends /\ err = "none" /\ ~eof /\ policy.Mode = "cdc"
      /\ n \in Nat /\ n <= Left /\ n <= BufSize
      /\ got = Slice(content, at, at + n) /\ u = Slice(content, offset, at + n)
      /\ UNCHANGED inputVars
  BY DEF ReadFacts
<1>3. /\ content' = content /\ policy' = policy /\ ending' = ending
      /\ Opened' /\ content' \in Contents /\ ending' \in Endings
      /\ policy'.Mode # "fixed" /\ FixedSizes'
      /\ told' \in BOOLEAN /\ at' = at + n /\ at' \in 0..Len(content')
      /\ told' => ending' = "failed once" /\ at' = Len(content')
      /\ withEnd => at' = Len(content')
      /\ ReaderErr = "EOF" => ending' = "EOF" \/ told'
  BY ReadKeeps
<1>4. /\ Cuts(gear, got) # {}
      /\ Emit(buf \o Upto(got, i)) /\ carry' = After(got, i) /\ gear' = Fed(gear, Upto(got, i))
      /\ eof' = (withEnd /\ ReaderErr = "EOF" /\ i = Len(got))
      /\ err' = err
  BY DEF ReadCut
<1>5. i \in Cuts(gear, got) /\ \A j \in Cuts(gear, got) : i <= j
  <2>1. Cuts(gear, got) \in SUBSET Nat
    BY <1>1, <1>2, SMTT(30)
  <2> QED BY <1>4, <2>1, MinIn
<1> HIDE DEF i
<1>6. /\ i \in Nat /\ i \in 1..n /\ i \in 0..n /\ 1 <= i /\ i <= n
  BY <1>1, <1>2, <1>5
<1>7. /\ content \in Seq(Bytes) /\ offset \in Nat /\ at \in Nat /\ e \in Nat /\ m \in Nat
      /\ offset <= at /\ at <= e /\ e <= m /\ offset <= e /\ at <= m /\ offset <= m
      /\ m <= Len(content) /\ e <= Len(content)
      /\ offset # e /\ m - at = n /\ e - at = i /\ k = e - offset /\ k \in Nat /\ offset + k = e
      /\ k \in 0..(m - offset) /\ at + i = e /\ e > m - BufSize
      /\ got = Slice(content, at, m) /\ u = Slice(content, offset, m)
  <2>1. /\ Len(content) \in Nat /\ offset \in Nat /\ at \in Nat /\ i \in Nat /\ n \in Nat
        /\ BufSize \in Nat /\ offset <= at /\ 1 <= i /\ i <= n /\ n <= BufSize
        /\ at + n <= Len(content) /\ Len(buf) = at - offset /\ content \in Seq(Bytes)
    BY <1>1, <1>2, <1>6
  <2>2. got = Slice(content, at, m) /\ u = Slice(content, offset, m)
    BY <1>2
  <2> QED BY <2>1, <2>2
<1>8. Upto(got, i) = Slice(content, at, e) /\ After(got, i) = Slice(content, e, m)
  <2>1. /\ content \in Seq(Bytes) /\ at \in Nat /\ m \in Nat /\ at <= m /\ m <= Len(content)
        /\ i \in 0..(m - at)
    BY <1>6, <1>7
  <2> HIDE DEF e, m
  <2>2. /\ Upto(Slice(content, at, m), i) = Slice(content, at, at + i)
        /\ After(Slice(content, at, m), i) = Slice(content, at + i, m)
    BY <2>1, SliceParts
  <2> QED BY <1>7, <2>2
<1>9. buf \o Upto(got, i) = data
  <2> HIDE DEF e, m, k
  <2>1. /\ content \in Seq(Bytes) /\ offset \in Nat /\ at \in Nat /\ e \in Nat
        /\ offset <= at /\ at <= e /\ e <= Len(content)
    BY <1>7
  <2>2. Slice(content, offset, at) \o Slice(content, at, e) = Slice(content, offset, e)
    BY <2>1, SlicesMeet
  <2>3. buf = Slice(content, offset, at)
    BY <1>1
  <2> QED BY <1>8, <2>2, <2>3
<1>10. data \in Seq(Bytes) /\ Len(data) = k
  <2> HIDE DEF e, m, k
  <2>1. content \in Seq(Bytes) /\ offset \in Nat /\ e \in Nat /\ offset <= e /\ e <= Len(content)
    BY <1>7
  <2>2. data \in Seq(Bytes) /\ Len(data) = e - offset
    BY <2>1, SliceIs
  <2> QED BY <1>7, <2>2
<1>11. NextPiece(data)
  <2> HIDE DEF e, m, k
  <2>1. data # <<>>
    <3>1. /\ content \in Seq(Bytes) /\ offset \in Nat /\ e \in Nat /\ offset <= e
          /\ e <= Len(content) /\ offset # e
      BY <1>7
    <3> QED BY <3>1, SliceEmpty
  <2>2. Emit(data)
    BY <1>4, <1>9
  <2>3. offset + Len(data) = e
    BY <1>7, <1>10
  <2> HIDE DEF data
  <2>4. offset + Len(data) <= Len(content) /\ data = Slice(content, offset, offset + Len(data))
    BY <1>7, <2>3 DEF data
  <2> QED BY <1>10, <2>1, <2>2, <2>4 DEF NextPiece
<1> HIDE DEF data, e, m
<1>12. Cuts(Fresh, u) # {} /\ Min(Cuts(Fresh, u)) = k
  <2> DEFINE C == Cuts(Fresh, u)
             D == Cuts(gear, got)
             b == Len(buf)
  <2>1. C = {b + j : j \in D} /\ D \in SUBSET (1..n) /\ i \in D /\ (\A j \in D : i <= j)
        /\ b \in Nat /\ n \in Nat
    BY <1>1, <1>2, <1>5, LenProperties
  <2> HIDE DEF C, D, b
  <2>2. C \in SUBSET Nat /\ b + i \in C /\ C # {}
    BY <2>1
  <2>3. Min(C) \in C /\ \A x \in C : Min(C) <= x
    BY <2>2, MinIn
  <2>4. PICK j \in D : Min(C) = b + j
    BY <2>1, <2>3
  <2>5. i <= j /\ b + j <= b + i /\ i \in Nat /\ j \in Nat
    <3>1. Min(C) <= b + i
      BY <2>2, <2>3
    <3>2. i \in 1..n /\ j \in 1..n /\ i <= j
      BY <2>1, <2>4
    <3> QED BY <2>1, <2>4, <3>1, <3>2
  <2>6. Min(C) = b + i
    BY <2>1, <2>4, <2>5
  <2> QED BY <2>2, <2>6 DEF C, b
<1> HIDE DEF k
<1>13. LengthAt(offset) = k /\ k \in Cuts(Fresh, u)
  <2>1. Cuts(Fresh, Slice(content, offset, m)) # {}
    BY <1>7, <1>12
  <2>2. LET j == Min(Cuts(Fresh, Slice(content, offset, m)))
        IN /\ j \in Cuts(Fresh, Slice(content, offset, m))
           /\ LengthAt(offset) = j
    BY <1>1, <1>2, <1>7, <2>1, BoundaryIs
  <2> QED BY <1>7, <1>12, <2>2
<1>14. k <= policy.Max
  BY <1>1, <1>12, CutsBelowMax
<1>15. data = Upto(u, k)
  <2>1. Upto(Slice(content, offset, m), k) = Slice(content, offset, offset + k)
    <3>1. /\ content \in Seq(Bytes) /\ offset \in Nat /\ m \in Nat /\ offset <= m
          /\ m <= Len(content) /\ k \in 0..(m - offset)
      BY <1>7
    <3> QED BY <3>1, SliceParts
  <2> QED BY <1>7, <2>1 DEF data
<1>16. Complete(data)
  <2>1. AtBoundary(Fed(Fresh, data))
    BY <1>13, <1>15 DEF Cuts, Upto
  <2> QED BY <1>2, <2>1 DEF Complete
<1>17. gear' = Fed(Fresh, data)
  <2>1. Upto(got, i) \in Seq(Bytes)
    BY <1>1, <1>6, UptoIs
  <2>2. gear = Fed(Fresh, buf)
    BY DEF ReadFacts, Phases
  <2>3. Fed(Fed(Fresh, buf), Upto(got, i)) = Fed(Fresh, buf \o Upto(got, i))
    BY <1>1, <2>1, FreshGear, FedConcat
  <2> QED BY <1>4, <1>9, <2>2, <2>3
<1>18. gear' \in Gears /\ gear'.n <= policy'.Max
  <2>1. Fed(Fresh, data) \in Gears /\ Fed(Fresh, data).n = 0 + Len(data)
    BY <1>10, FreshGear, FedTyped
  <2>2. 0 + k = k
    BY <1>7
  <2> QED BY <1>3, <1>10, <1>14, <1>17, <2>1, <2>2
<1>19. /\ out' \in Seq(PieceSet) /\ index' = Len(out')
       /\ offset' = offset + k
       /\ Complete(data) /\ offset + Len(data) > at' - BufSize =>
            (\E j \in DOMAIN out : CompleteByLastRead(out[j]))'
  BY <1>2, <1>10, <1>11, PieceAdded
<1>20. offset' \in 0..at' /\ offset' = e /\ at' = m
  <2>1. offset' = e /\ at' = m
    BY <1>3, <1>7, <1>19 DEF m
  <2> QED BY <1>7, <2>1
<1>21. /\ carry' \in Seq(Bytes) /\ buf' \in Seq(Bytes)
       /\ eof' \in BOOLEAN /\ running' \in BOOLEAN /\ err' = "none"
  <2>1. After(got, i) \in Seq(Bytes)
    BY <1>1, <1>6, AfterIs
  <2> QED BY <1>2, <1>4, <2>1, EmptySeq
<1>22. Shapes'
  BY <1>3, <1>18, <1>19, <1>20, <1>21 DEF Shapes
<1>23. Phases'
  BY <1>3 DEF Phases
<1>24. eof' => offset' = Len(content')
  <2>1. eof' => withEnd /\ i = n
    BY <1>1, <1>4
  <2>2. i = n => e = m
    BY DEF e, m
  <2> QED BY <1>3, <1>20, <2>1, <2>2
<1>25. Held'
  <2>1. buf' \o carry' = carry'
    BY <1>21, ConcatEmptySeq
  <2>2. carry' = Slice(content', offset', at')
    BY <1>3, <1>4, <1>8, <1>20
  <2> QED BY <1>21, <1>24, <2>1, <2>2 DEF Held
<1>26. Ends'
  <2>1. offset + Len(data) > at' - BufSize
    <3>1. offset + Len(data) = e
      BY <1>7, <1>10
    <3> QED BY <1>7, <1>20, <3>1
  <2>2. eof' => ending' = "EOF" \/ told'
    BY <1>3, <1>4
  <2> QED BY <1>3, <1>16, <1>19, <2>1, <2>2 DEF Ends
<1> QED BY <1>2, <1>3, <1>10, <1>11, <1>13, <1>22, <1>23, <1>25, <1>26 DEF Progress, NextAlike

\* The reader has ended, or failed.
LEMMA StepTail ==
    ASSUME NEW n, NEW withEnd, NEW got, NEW u, ReadFacts(n, withEnd, got, u),
           ReadTail(got, withEnd), running' = FALSE, buf' = <<>>
    PROVE  Progress
<1>1. /\ content \in Seq(Bytes) /\ Len(content) \in Nat
      /\ offset \in Nat /\ offset <= at + n /\ at + n \in Nat
      /\ out \in Seq(PieceSet) /\ index = Len(out)
      /\ u \in Seq(Bytes) /\ Len(u) = at + n - offset
      /\ buf \o got = u
      /\ Cuts(Fresh, u) = {Len(buf) + j : j \in Cuts(gear, got)}
  BY ReadKnown, SMTT(30)
<1>2. /\ Shapes /\ Phases /\ Held /\ Ends /\ err = "none" /\ ~eof /\ policy.Mode = "cdc"
      /\ carry = <<>> /\ withEnd \in BOOLEAN
      /\ u = Slice(content, offset, at + n) /\ n \in Nat /\ at \in Nat
      /\ UNCHANGED inputVars
  <2>1. Shapes => at \in Nat
    BY Basics
  <2> QED BY <2>1 DEF ReadFacts
<1>3. /\ content' = content /\ policy' = policy /\ ending' = ending
      /\ Opened' /\ content' \in Contents /\ ending' \in Endings
      /\ policy'.Mode # "fixed" /\ FixedSizes'
      /\ told' \in BOOLEAN /\ at' = at + n /\ at' \in 0..Len(content')
      /\ told' => ending' = "failed once" /\ at' = Len(content')
      /\ told => n = 0 /\ told'
      /\ withEnd => at' = Len(content')
      /\ ReaderErr \in Errors
      /\ ReaderErr = "EOF" => ending' = "EOF" \/ told'
      /\ ReaderErr = "EOF" /\ told' => told
  BY ReadKeeps
<1>4. /\ Cuts(gear, got) = {} /\ withEnd
      /\ eof' = (ReaderErr = "EOF") /\ carry' = carry /\ gear' = gear
      /\ \/ ReaderErr = "EOF" /\ u # <<>> /\ Emit(u) /\ err' = err
         \/ ~(ReaderErr = "EOF" /\ u # <<>>) /\ Fail(ReaderErr)
  BY <1>1 DEF ReadTail
<1>5. at' = Len(content) /\ at + n = Len(content)
  BY <1>3, <1>4
<1>6. /\ carry' \in Seq(Bytes) /\ buf' \in Seq(Bytes) /\ gear' \in Gears
      /\ gear'.n <= policy'.Max /\ running' \in BOOLEAN /\ eof' \in BOOLEAN
  BY <1>2, <1>3, <1>4, EmptySeq DEF Shapes
<1>7. Phases'
  BY <1>3 DEF Phases
<1>8. buf' \o carry' = <<>>
  BY <1>2, <1>4
<1>9. Cuts(Fresh, u) = {} /\ u = Slice(content, offset, Len(content))
      /\ Len(u) = Len(content) - offset /\ offset <= Len(content)
  <2>1. Cuts(Fresh, u) = {}
    BY <1>1, <1>4
  <2>2. u = Slice(content, offset, Len(content))
    BY <1>2, <1>5
  <2>3. offset <= Len(content)
    BY <1>1, <1>5
  <2>4. Len(u) = Len(content) - offset
    <3>1. Len(u) = at + n - offset
      BY <1>1
    <3>2. at \in Nat /\ n \in Nat /\ offset \in Nat /\ at + n = Len(content)
      BY <1>1, <1>2, <1>5
    <3> QED BY <3>1, <3>2
  <2> QED BY <2>1, <2>2, <2>3, <2>4
<1>10. told /\ err \in {"none", "EOF"} => \E i \in DOMAIN out : CompleteByLastRead(out[i])
  BY <1>2 DEF Ends
<1>11. ASSUME told PROVE at' = at
  <2>1. n = 0 /\ at' = at + n /\ at \in Nat
    BY <1>2, <1>3, <1>11
  <2> QED BY <2>1
<1>12. CASE ReaderErr = "EOF" /\ u # <<>> /\ Emit(u) /\ err' = err
  <2>1. NextPiece(u)
    <3>1. offset + Len(u) = Len(content)
      BY <1>1, <1>9
    <3>2. offset + Len(u) <= Len(content) /\ u = Slice(content, offset, offset + Len(u))
      BY <1>1, <1>9, <3>1
    <3> QED BY <1>1, <1>12, <3>2 DEF NextPiece
  <2>2. Len(u) = LengthAt(offset)
    <3>1. Cuts(Fresh, Slice(content, offset, Len(content))) = {}
      BY <1>9
    <3>2. LengthAt(offset) = Len(content) - offset
      BY <1>1, <1>2, <1>9, <3>1, TailIs
    <3> QED BY <1>9, <3>2
  <2>3. /\ out' \in Seq(PieceSet) /\ index' = Len(out') /\ offset' = offset + Len(u)
        /\ (\E i \in DOMAIN out : CompleteByLastRead(out[i])) /\ at' = at =>
              (\E i \in DOMAIN out : CompleteByLastRead(out[i]))'
    BY <1>2, <2>1, PieceAdded
  <2>4. offset' = Len(content) /\ offset' \in 0..at'
    <3>1. offset' = Len(content)
      BY <1>1, <1>9, <2>3
    <3> QED BY <1>1, <1>5, <3>1
  <2>5. err' = "none" /\ eof'
    BY <1>2, <1>4, <1>12
  <2>6. Shapes'
    BY <1>3, <1>6, <2>3, <2>4, <2>5 DEF Shapes
  <2>7. Held'
    <3>1. Slice(content', offset', at') = <<>>
      <4>1. /\ content \in Seq(Bytes) /\ Len(content) \in Nat /\ Len(content) <= Len(content)
        BY <1>1
      <4>2. Slice(content, Len(content), Len(content)) = <<>>
        BY <4>1, SliceEmpty
      <4> QED BY <1>3, <1>5, <2>4, <4>2
    <3> QED BY <1>3, <1>8, <2>4, <2>5, <3>1 DEF Held
  <2>8. Ends'
    BY <1>2, <1>3, <1>10, <1>11, <1>12, <2>3 DEF Ends
  <2> QED BY <1>1, <1>2, <1>3, <1>7, <2>1, <2>2, <2>6, <2>7, <2>8 DEF Progress, NextAlike
<1>13. CASE ~(ReaderErr = "EOF" /\ u # <<>>) /\ Fail(ReaderErr)
  <2>1. err' = ReaderErr /\ offset' = offset /\ index' = index /\ out' = out
    BY <1>13 DEF Fail
  <2>2. offset' \in 0..at'
    <3>1. offset \in Nat /\ at + n \in Nat /\ offset <= at + n /\ offset' = offset /\ at' = at + n
      BY <1>1, <1>3, <2>1
    <3> QED BY <3>1
  <2>3. Shapes'
    BY <1>1, <1>3, <1>6, <2>1, <2>2 DEF Shapes
  <2>4. CASE ReaderErr = "EOF"
    <3>1. u = <<>>
      BY <1>13, <2>4
    <3>2. offset = Len(content)
      <4>1. /\ content \in Seq(Bytes) /\ offset \in Nat /\ Len(content) \in Nat
            /\ offset <= Len(content) /\ Len(content) <= Len(content)
        BY <1>1, <1>9
      <4> QED BY <1>9, <3>1, <4>1, SliceEmpty
    <3>3. Held'
      BY <1>3, <1>4, <1>5, <1>8, <1>9, <2>1, <2>4, <3>1, <3>2 DEF Held
    <3>4. Ends'
      <4>1. told' => told
        BY <1>3, <2>4
      <4>2. policy' = policy /\ out' = out
        BY <1>3, <2>1
      <4>3. (\E i \in DOMAIN out : CompleteByLastRead(out[i])) /\ at' = at =>
               (\E i \in DOMAIN out : CompleteByLastRead(out[i]))'
        BY <4>2, CompletesKept
      <4> QED BY <1>2, <1>3, <1>10, <1>11, <2>4, <4>1, <4>3 DEF Ends
    <3> QED BY <1>2, <1>3, <1>7, <2>1, <2>3, <3>3, <3>4 DEF Progress
  <2>5. CASE ReaderErr # "EOF"
    <3>1. ~eof' /\ err' \notin {"none", "EOF"}
      BY <1>3, <1>4, <2>1, <2>5 DEF Errors
    <3>2. Held' /\ Ends'
      BY <1>3, <3>1 DEF Held, Ends
    <3> QED BY <1>2, <1>3, <1>7, <2>1, <2>3, <3>2 DEF Progress
  <2> QED BY <2>4, <2>5
<1> QED BY <1>4, <1>12, <1>13

\* Nothing yet: Next reads again.
LEMMA StepMore ==
    ASSUME NEW n, NEW withEnd, NEW got, NEW u, ReadFacts(n, withEnd, got, u),
           ReadMore(got, withEnd), buf' = buf \o got, running' = running
    PROVE  Progress
<1>1. /\ Sound(policy) /\ policy.Max \in Nat /\ BufSize \in Nat
      /\ content \in Seq(Bytes) /\ Len(content) \in Nat
      /\ at \in Nat /\ offset \in Nat /\ offset <= at /\ at <= Len(content)
      /\ at + n \in Nat /\ at <= at + n /\ at + n <= Len(content) /\ offset <= at + n
      /\ out \in Seq(PieceSet) /\ index = Len(out)
      /\ got \in Seq(Bytes) /\ Len(got) = n
      /\ u \in Seq(Bytes) /\ Len(u) = at + n - offset
      /\ buf \in Seq(Bytes) /\ buf = Slice(content, offset, at) /\ Len(buf) = at - offset
      /\ buf \o got = u
      /\ gear \in Gears /\ Fed(gear, got) = Fed(Fresh, u)
      /\ Cuts(Fresh, u) = {Len(buf) + j : j \in Cuts(gear, got)}
      /\ Cuts(gear, got) \in SUBSET (1..n)
  BY ReadKnown
<1>2. /\ Shapes /\ Phases /\ Held /\ Ends /\ err = "none" /\ ~eof /\ policy.Mode = "cdc"
      /\ carry = <<>> /\ running /\ (n = 0 => withEnd)
      /\ u = Slice(content, offset, at + n)
      /\ UNCHANGED inputVars
  BY DEF ReadFacts
<1>3. /\ content' = content /\ policy' = policy /\ ending' = ending
      /\ Opened' /\ content' \in Contents /\ ending' \in Endings
      /\ policy'.Mode # "fixed" /\ FixedSizes'
      /\ told' \in BOOLEAN /\ at' = at + n /\ at' \in 0..Len(content')
      /\ told' => ending' = "failed once" /\ at' = Len(content')
      /\ told => n = 0 /\ told'
      /\ told' /\ ~told => withEnd
      /\ withEnd => at' = Len(content')
      /\ ReaderErr \in Errors
      /\ ReaderErr = "EOF" => ending' = "EOF" \/ told'
      /\ ReaderErr = "EOF" /\ told' => told
  BY ReadKeeps
<1>4. /\ Cuts(gear, got) = {} /\ ~withEnd /\ gear' = Fed(gear, got)
      /\ carry' = carry /\ eof' = eof /\ err' = err
      /\ offset' = offset /\ index' = index /\ out' = out
  BY DEF ReadMore
<1>5. ~told'
  BY <1>2, <1>3, <1>4
<1>6. buf' = u /\ gear' = Fed(Fresh, u) /\ Cuts(Fresh, u) = {}
  BY <1>1, <1>4
<1>7. gear' \in Gears /\ gear'.n <= policy'.Max
  <2>1. Fed(Fresh, u) \in Gears /\ Fed(Fresh, u).n = 0 + Len(u)
    BY <1>1, FreshGear, FedTyped
  <2>2. Len(u) < policy.Max
    BY <1>1, <1>6, CutsBelowMax
  <2>3. Len(u) \in Nat
    BY <1>1, LenProperties
  <2>4. policy' = policy /\ policy.Max \in Nat /\ gear' = Fed(Fresh, u)
    BY <1>1, <1>3, <1>6
  <2> QED BY <2>1, <2>2, <2>3, <2>4
<1>8. offset' \in 0..at' /\ buf' \in Seq(Bytes)
  <2>1. offset \in Nat /\ at + n \in Nat /\ offset <= at + n
    BY <1>1
  <2>2. offset' = offset /\ at' = at + n
    BY <1>3, <1>4
  <2>3. offset' \in 0..at'
    BY <2>1, <2>2
  <2> QED BY <1>1, <1>6, <2>3
<1>9. Shapes'
  BY <1>1, <1>2, <1>3, <1>4, <1>7, <1>8 DEF Shapes
<1>10. (Cuts(Fresh, buf) = {})'
  <2>1. policy' = policy
    BY <1>3
  <2> QED BY <1>6, <2>1 DEF Cuts, AtBoundary, MaskRange
<1>11. Phases'
  BY <1>2, <1>3, <1>4, <1>6, <1>10 DEF Phases
<1>12. Held'
  <2>1. buf' \o carry' = buf'
    BY <1>2, <1>4, <1>8, ConcatEmptySeq
  <2>2. buf' = Slice(content', offset', at')
    BY <1>2, <1>3, <1>4, <1>6
  <2> QED BY <1>2, <1>4, <2>1, <2>2 DEF Held
<1>13. Ends'
  BY <1>2, <1>4, <1>5 DEF Ends
<1> QED BY <1>2, <1>3, <1>4, <1>9, <1>11, <1>12, <1>13 DEF Progress

\* One Read.
LEMMA StepRead ==
    ASSUME SplitInv, ReadCDC
    PROVE  Progress
<1>1. /\ Shapes /\ Phases /\ Held /\ Ends /\ running /\ UNCHANGED inputVars
  BY DEF SplitInv, ReadCDC
<1>2. /\ policy.Mode = "cdc" /\ carry = <<>> /\ ~eof /\ err = "none"
  BY <1>1 DEF Phases
<1>3. PICK n \in 0..Min({BufSize, Left}), withEnd \in BOOLEAN :
         LET got == SubSeq(content, at + 1, at + n)
         IN /\ withEnd => n = Left
            /\ n = 0 => withEnd
            /\ at' = at + n
            /\ told' = Told(withEnd)
            /\ \/ ReadCut(got, withEnd) /\ running' = FALSE /\ buf' = <<>>
               \/ ReadTail(got, withEnd) /\ running' = FALSE /\ buf' = <<>>
               \/ ReadMore(got, withEnd) /\ buf' = buf \o got /\ UNCHANGED running
  BY DEF ReadCDC
<1>4. n \in Nat /\ n <= Left /\ n <= BufSize
  <2>1. BufSize \in Nat /\ Left \in Nat
    BY <1>1, Basics
  <2>2. Min({BufSize, Left}) = IF BufSize <= Left THEN BufSize ELSE Left
    BY <2>1, MinOfTwo
  <2> QED BY <2>1, <2>2
<1> DEFINE got == Slice(content, at, at + n)
           u == Slice(content, offset, at + n)
<1>5. ReadFacts(n, withEnd, got, u)
  BY <1>1, <1>2, <1>3, <1>4 DEF ReadFacts
<1>6. \/ ReadCut(got, withEnd) /\ running' = FALSE /\ buf' = <<>>
      \/ ReadTail(got, withEnd) /\ running' = FALSE /\ buf' = <<>>
      \/ ReadMore(got, withEnd) /\ buf' = buf \o got /\ running' = running
  BY <1>3 DEF Slice
<1> HIDE DEF got, u
<1> QED BY <1>5, <1>6, StepCut, StepTail, StepMore

-----------------------------------------------------------------------------
(* The invariant *)

\* Nothing is read and nothing cut.
LEMMA SplitInit == Init => SplitInv /\ CutsAlike
<1> SUFFICES ASSUME Init PROVE SplitInv /\ CutsAlike
  OBVIOUS
<1>1. Opened /\ content \in Contents /\ ending \in Endings
  BY DEF Init, Opened
<1>2. Sound(policy) /\ content \in Seq(Bytes) /\ Len(content) \in Nat
  <2>1. content \in Seq(Bytes)
    BY <1>1, InputAssumption
  <2> QED BY <1>1, <2>1, SoundPolicy, LenProperties
<1>3. /\ at = 0 /\ offset = 0 /\ index = 0 /\ carry = <<>> /\ buf = <<>> /\ out = <<>>
      /\ gear = Fresh /\ told = FALSE /\ eof = FALSE /\ running = FALSE /\ err = "none"
  BY DEF Init
<1>4. Fresh \in Gears /\ Fresh.n = 0 /\ policy.Max \in Nat
  BY <1>2, FreshGear DEF Sound
<1>5. Shapes
  <2>1. at \in 0..Len(content) /\ offset \in 0..at
    BY <1>2, <1>3
  <2>2. index = Len(out) /\ out \in Seq(PieceSet) /\ carry \in Seq(Bytes) /\ buf \in Seq(Bytes)
    BY <1>3, EmptySeq
  <2>3. gear \in Gears /\ gear.n <= policy.Max
    BY <1>3, <1>4
  <2> QED BY <1>1, <1>3, <2>1, <2>2, <2>3 DEF Shapes
<1>6. Phases
  BY <1>3 DEF Phases
<1>7. Slice(content, 0, 0) = <<>>
  BY <1>2, SliceEmpty
<1>8. Held
  BY <1>3, <1>7 DEF Held
<1>9. out \in Seq(PieceSet) /\ Len(out) = 0 /\ DOMAIN out = {}
  BY <1>3, EmptySeq
<1>10. Sizes(out) = <<>> /\ Datas(out) = <<>>
  BY <1>9 DEF Sizes, Datas
<1>11. PiecesFit
  <2>1. Assembled(out) = <<>>
    <3>1. FlattenSeq(<<>>) = <<>>
      BY DEF FlattenSeq
    <3> QED BY <1>10, <3>1 DEF Assembled
  <2> QED BY <1>3, <1>7, <1>9, <1>10, <2>1, SumNone DEF PiecesFit, Fits
<1>12. FixedSizes
  BY <1>9 DEF FixedSizes
<1>13. Ends
  BY <1>3 DEF Ends
<1>14. CutsAlike
  <2>1. PiecesFrom[0] \in Seq(Seq(Bytes))
    BY <1>2, PiecesFromIs
  <2>2. <<>> \o PiecesFrom[0] = PiecesFrom[0]
    BY <2>1, ConcatEmptySeq
  <2> QED BY <1>3, <1>10, <2>2 DEF CutsAlike
<1> QED BY <1>5, <1>6, <1>8, <1>11, <1>12, <1>13, <1>14 DEF SplitInv

\* Every step keeps it.
LEMMA SplitStep == SplitInv /\ CutsAlike /\ [Next]_vars => SplitInv' /\ CutsAlike'
<1> SUFFICES ASSUME SplitInv, CutsAlike, [Next]_vars PROVE SplitInv' /\ CutsAlike'
  OBVIOUS
<1>1. CASE NextEOF
  BY <1>1, StepEOF, ProgressIsEnough
<1>2. CASE NextFixed
  BY <1>2, StepFixed, ProgressIsEnough
<1>3. CASE ScanCarry
  BY <1>3, StepScan, ProgressIsEnough
<1>4. CASE ReadCDC
  BY <1>4, StepRead, ProgressIsEnough
<1>5. CASE UNCHANGED vars
  <2>1. /\ UNCHANGED <<algo, policy, content, ending, at, told, carry, buf, gear, offset>>
        /\ UNCHANGED <<index, eof, err, running, out>>
    BY <1>5 DEF vars, inputVars
  <2>2. Shapes' /\ Held'
    BY <2>1 DEF SplitInv, Shapes, Held, Opened
  <2>3. Phases'
    BY <2>1 DEF SplitInv, Phases, Cuts, AtBoundary, MaskRange
  <2>4. FixedSizes'
    BY <2>1 DEF SplitInv, FixedSizes
  <2>5. Ends'
    <3>1. (\E i \in DOMAIN out : CompleteByLastRead(out[i])) =>
             (\E i \in DOMAIN out : CompleteByLastRead(out[i]))'
      BY <2>1, CompletesKept
    <3> QED BY <2>1, <3>1 DEF SplitInv, Ends
  <2>6. PiecesFit' /\ CutsAlike'
    <3>1. UNCHANGED <<inputVars, offset, index, out>>
      BY <2>1 DEF inputVars
    <3> QED BY <3>1, NoPiece DEF SplitInv
  <2> QED BY <2>2, <2>3, <2>4, <2>5, <2>6 DEF SplitInv
<1> QED BY <1>1, <1>2, <1>3, <1>4, <1>5 DEF Next

\* The invariant holds throughout.
LEMMA SplitInvariant == Spec => [](SplitInv /\ CutsAlike)
  BY SplitInit, SplitStep, PTL DEF Spec

-----------------------------------------------------------------------------
(* What it says *)

\* The domains.
LEMMA TypeOKHolds == SplitInv => TypeOK
<1> SUFFICES ASSUME SplitInv PROVE TypeOK
  OBVIOUS
<1>1. Shapes /\ PiecesFit
  BY DEF SplitInv
<1>2. Sound(policy) /\ policy.Max \in Nat /\ out \in Seq(PieceSet)
  BY <1>1, Basics
<1>3. policy \in [Mode : {"fixed", "cdc"}, Avg : Nat, Min : Nat, Max : Nat]
  BY <1>2 DEF Sound
<1>4. algo \in DOMAIN Registered
  <2>1. PICK r \in Requests : algo = r.algo
    BY <1>1 DEF Shapes, Opened
  <2> QED BY <2>1, InputAssumption
<1>5. gear \in [hash : 0..(HashRange - 1), n : 0..policy.Max]
  <2>1. gear \in Gears /\ gear.n <= policy.Max
    BY <1>1 DEF Shapes
  <2>2. /\ gear = [hash |-> gear.hash, n |-> gear.n]
        /\ gear.hash \in 0..(HashRange - 1) /\ gear.n \in 0..policy.Max
    BY <1>2, <2>1 DEF Gears
  <2> QED BY <2>2
<1>6. \A i \in DOMAIN out : out[i].Data \in Seq(Bytes) /\ out[i].Data # <<>>
  BY <1>1, <1>2, PiecesAre DEF PiecesFit
<1> QED BY <1>1, <1>3, <1>4, <1>5, <1>6 DEF Shapes, TypeOK

\* The pieces, the buffer and the carry are slices that meet.
LEMMA NothingLostHolds == SplitInv => NothingLost
<1> SUFFICES ASSUME SplitInv PROVE NothingLost
  OBVIOUS
<1>1. Shapes /\ Held /\ PiecesFit
  BY DEF SplitInv
<1>2. /\ content \in Seq(Bytes) /\ Len(content) \in Nat
      /\ at \in Nat /\ offset \in Nat /\ offset <= at /\ at <= Len(content)
  BY <1>1, Basics
<1> DEFINE A == Assembled(out)
<1>3. A = Slice(content, 0, offset)
  BY <1>1 DEF PiecesFit
<1>4. 0 \in Nat /\ 0 <= offset /\ offset <= Len(content) /\ offset - 0 = offset
  BY <1>2
<1> HIDE DEF A
<1>5. A \in Seq(Bytes) /\ Len(A) = offset
  <2>1. /\ content \in Seq(Bytes) /\ 0 \in Nat /\ offset \in Nat
        /\ 0 <= offset /\ offset <= Len(content)
    BY <1>2, <1>4
  <2>2. Slice(content, 0, offset) \in Seq(Bytes) /\ Len(Slice(content, 0, offset)) = offset - 0
    BY <2>1, SliceIs
  <2> QED BY <1>3, <1>4, <2>2
<1>6. IsPrefix(A, content)
  <2>1. SubSeq(A, 1, Len(A)) = A
    BY <1>5, SubSeqFull
  <2>2. A = SubSeq(content, 1, Len(A))
    BY <1>3, <1>5 DEF Slice
  <2> QED BY <1>4, <1>5, <2>1, <2>2 DEF IsPrefix
<1>7. err \in {"none", "EOF"} => A \o buf \o carry = Upto(content, at)
  <2> SUFFICES ASSUME err \in {"none", "EOF"} PROVE A \o buf \o carry = Upto(content, at)
    OBVIOUS
  <2>1. buf \o carry = Slice(content, offset, at)
    BY <1>1 DEF Held
  <2>2. buf \in Seq(Bytes) /\ carry \in Seq(Bytes)
    BY <1>1 DEF Shapes
  <2>3. (A \o buf) \o carry = A \o (buf \o carry)
    BY <1>5, <2>2, JoinsAssociate, SMTT(30)
  <2>4. Slice(content, 0, offset) \o Slice(content, offset, at) = Slice(content, 0, at)
    <3>1. /\ content \in Seq(Bytes) /\ 0 \in Nat /\ offset \in Nat /\ at \in Nat
          /\ 0 <= offset /\ offset <= at /\ at <= Len(content)
      BY <1>2, <1>4
    <3> QED BY <3>1, SlicesMeet
  <2>5. Slice(content, 0, at) = Upto(content, at)
    BY DEF Slice, Upto
  <2> QED BY <1>3, <2>1, <2>3, <2>4, <2>5
<1> QED BY <1>1, <1>6, <1>7 DEF NothingLost, PiecesFit, A

\* EOF comes of the reader's end.
LEMMA FailureReportedHolds == SplitInv => FailureReported
<1> SUFFICES ASSUME SplitInv, err = "EOF"
             PROVE  /\ ending # "failed"
                    /\ ending = "UnexpectedEOF" => policy.Mode = "fixed"
                    /\ ending = "failed once" =>
                         \E i \in DOMAIN out : /\ Complete(out[i].Data)
                                               /\ out[i].Offset + Len(out[i].Data) > at - BufSize
  BY DEF FailureReported
<1>1. eof
  BY DEF SplitInv, Held
<1>2. /\ told => ending = "failed once"
      /\ ending = "EOF" \/ told \/ (ending = "UnexpectedEOF" /\ policy.Mode = "fixed")
      /\ told => \E i \in DOMAIN out : CompleteByLastRead(out[i])
  BY <1>1 DEF SplitInv, Ends
<1> QED BY <1>2 DEF CompleteByLastRead

\* What comes first is a prefix.
LEMMA PrefixOfConcat ==
    ASSUME NEW X, NEW s \in Seq(X), NEW t \in Seq(X)
    PROVE  IsPrefix(s, s \o t)
<1> DEFINE u == s \o t
           n == Len(s)
<1>1. n \in Nat /\ Len(t) \in Nat
  BY LenProperties
<1>2. /\ u \in Seq(X) /\ Len(u) = Len(s) + Len(t)
      /\ \A i \in 1..Len(s) + Len(t) : u[i] = IF i <= Len(s) THEN s[i] ELSE t[i - Len(s)]
  BY ConcatProperties
<1> HIDE DEF u
<1>3. n \in 0..Len(u) /\ \A i \in 1..n : u[i] = s[i]
  BY <1>1, <1>2
<1> HIDE DEF n
<1>4. /\ Upto(u, n) \in Seq(X) /\ Len(Upto(u, n)) = n
      /\ \A j \in 1..n : Upto(u, n)[j] = u[j]
  BY <1>2, <1>3, UptoIs
<1> DEFINE v == Upto(u, n)
<1>5. v \in Seq(X) /\ Len(v) = Len(s) /\ \A j \in 1..Len(v) : v[j] = s[j]
  BY <1>3, <1>4 DEF n
<1> HIDE DEF v
<1>6. v = s
  BY <1>5, SeqEqual
<1>7. SubSeq(s, 1, n) = s
  BY SubSeqFull DEF n
<1>8. n <= Len(u)
  BY <1>3
<1> QED BY <1>6, <1>7, <1>8 DEF IsPrefix, v, Upto, n, u

\* With all of the content cut there are no more pieces to come.
LEMMA CutsIndependentHolds == SplitInv /\ CutsAlike => CutsIndependentOfReads
<1> SUFFICES ASSUME SplitInv, CutsAlike PROVE CutsIndependentOfReads
  OBVIOUS
<1>1. Shapes /\ Held
  BY DEF SplitInv
<1>2. /\ Sound(policy) /\ content \in Seq(Bytes) /\ Len(content) \in Nat
      /\ at \in Nat /\ offset \in Nat /\ offset <= at /\ at <= Len(content)
      /\ out \in Seq(PieceSet)
  BY <1>1, Basics
<1>3. Datas(out) \in Seq(Seq(Bytes))
  BY <1>2, PiecesAre
<1>4. offset \in 0..Len(content)
  BY <1>2
<1>5. PiecesFrom[offset] \in Seq(Seq(Bytes)) /\ PiecesFrom[Len(content)] = <<>>
  BY <1>2, <1>4, PiecesFromIs
<1>6. PiecesFrom[0] = Datas(out) \o PiecesFrom[offset]
  BY DEF CutsAlike
<1>7. IsPrefix(Datas(out), PiecesFrom[0])
  <2> DEFINE Y == Seq(Bytes)
             d == Datas(out)
             p == PiecesFrom[offset]
  <2>1. d \in Seq(Y) /\ p \in Seq(Y) /\ PiecesFrom[0] = d \o p
    BY <1>3, <1>5, <1>6
  <2> HIDE DEF Y, d, p
  <2>2. IsPrefix(d, d \o p)
    BY <2>1, PrefixOfConcat
  <2> QED BY <2>1, <2>2 DEF d
<1>8. err = "EOF" => Datas(out) = PiecesFrom[0]
  <2> SUFFICES ASSUME err = "EOF" PROVE Datas(out) = PiecesFrom[0]
    OBVIOUS
  <2>1. offset = Len(content)
    BY <1>1 DEF Held
  <2>2. Datas(out) \o <<>> = Datas(out)
    BY <1>3, ConcatEmptySeq
  <2> QED BY <1>5, <1>6, <2>1, <2>2
<1> QED BY <1>7, <1>8, CutsIndependentIs

\* Every variable keeps to its domain, whatever the options, the input and the
\* Reads: the sizes of the pieces, the hash, the offsets and the error.
THEOREM Typed == Spec => []TypeOK
  BY SplitInvariant, TypeOKHolds, PTL

\* No byte that Next has read is lost or cut twice (Splitter.Next, nextFixed,
\* nextCDC): the pieces, the buffer and the carry are what was read.
THEOREM NoByteLost == Spec => []NothingLost
  BY SplitInvariant, NothingLostHolds, PTL

\* Next ends with io.EOF only if the reader has ended, or with
\* io.ErrUnexpectedEOF in fixed mode, or if its error came only once and with
\* the last bytes of a complete piece (nextFixed, nextCDC).
THEOREM FailuresReported == Spec => []FailureReported
  BY SplitInvariant, FailureReportedHolds, PTL

\* However the reader's bytes come in, the pieces are those of cutting the
\* whole content at once (Gear.FindBoundary): equal contents share chunks.
THEOREM ReadsDoNotMatter == Spec => []CutsIndependentOfReads
  BY SplitInvariant, CutsIndependentHolds, PTL

-----------------------------------------------------------------------------
(* The manifest's file *)

\* Sequences of three put together: where each of their elements is.
LEMMA FlattenThrees ==
    ASSUME NEW X, NEW s \in Seq(Seq(X)), \A i \in 1..Len(s) : Len(s[i]) = 3
    PROVE  /\ FlattenSeq(s) \in Seq(X) /\ Len(FlattenSeq(s)) = 3 * Len(s)
           /\ \A i \in 1..Len(s), j \in 1..3 : FlattenSeq(s)[3 * (i - 1) + j] = s[i][j]
<1> DEFINE n == Len(s)
           P(h, k) == /\ Len(h[k]) = 3 * k
                      /\ \A i \in 1..k, j \in 1..3 : h[k][3 * (i - 1) + j] = s[i][j]
<1>1. n \in Nat
  BY LenProperties
<1>2. PICK h : Joins(h, s, X)
  BY JoinsExist
<1>3. /\ h \in [0..n -> Seq(X)] /\ h[0] = <<>>
      /\ \A k \in 1..n : h[k] = h[k - 1] \o s[k]
  BY <1>2 DEF Joins
<1>4. FlattenSeq(s) = h[n]
  BY <1>2, FlattenJoins
<1>5. \A i \in 1..n : s[i] \in Seq(X) /\ Len(s[i]) = 3
  BY ElementOfSeq
<1> HIDE DEF n
<1>6. \A k \in 0..n : P(h, k)
  <2> DEFINE T == {k \in 0..n : ~P(h, k)}
  <2> SUFFICES ASSUME T # {} PROVE FALSE
    OBVIOUS
  <2>1. T \in SUBSET Nat
    BY <1>1
  <2>2. PICK m \in T : \A u \in T : m <= u
    <3> HIDE DEF T
    <3> QED BY <2>1, LeastOf
  <2>3. m \in 0..n /\ ~P(h, m)
    OBVIOUS
  <2>4. m # 0
    <3>1. P(h, 0)
      BY <1>3, EmptySeq
    <3> QED BY <2>3, <3>1
  <2>5. m - 1 \in 0..n /\ m \in 1..n /\ m - 1 \in Nat
    BY <1>1, <2>3, <2>4
  <2>6. P(h, m - 1)
    <3>1. ~(m <= m - 1)
      BY <2>5
    <3>2. m - 1 \notin T
      <4> HIDE DEF T
      <4> QED BY <2>2, <3>1
    <3> QED BY <2>5, <3>2
  <2> DEFINE a == h[m - 1]
             b == s[m]
  <2>7. /\ a \in Seq(X) /\ Len(a) = 3 * (m - 1) /\ b \in Seq(X) /\ Len(b) = 3
        /\ \A i \in 1..m - 1, j \in 1..3 : a[3 * (i - 1) + j] = s[i][j]
    BY <1>3, <1>5, <2>5, <2>6
  <2>8. h[m] = a \o b
    BY <1>3, <2>5
  <2> HIDE DEF a, b, T, P
  <2>9. /\ Len(a \o b) = Len(a) + Len(b)
        /\ \A i \in 1..Len(a) + Len(b) :
              (a \o b)[i] = IF i <= Len(a) THEN a[i] ELSE b[i - Len(a)]
    BY <2>7, ConcatProperties
  <2>10. /\ Len(h[m]) = 3 * m
         /\ \A i \in 1..3 * m :
               h[m][i] = IF i <= 3 * (m - 1) THEN a[i] ELSE b[i - 3 * (m - 1)]
    <3>1. 3 * (m - 1) + 3 = 3 * m
      BY <2>5
    <3> QED BY <2>7, <2>8, <2>9, <3>1
  <2>11. ASSUME NEW i \in 1..m, NEW j \in 1..3 PROVE h[m][3 * (i - 1) + j] = s[i][j]
    <3> DEFINE p == 3 * (i - 1) + j
    <3>1. p \in 1..3 * m
      BY <2>5
    <3>2. CASE i = m
      <4>1. ~(p <= 3 * (m - 1)) /\ p - 3 * (m - 1) = j
        BY <2>5, <3>2
      <4> HIDE DEF p
      <4>2. h[m][p] = b[j]
        BY <2>10, <3>1, <4>1
      <4> QED BY <3>2, <4>2 DEF b, p
    <3>3. CASE i # m
      <4>1. i \in 1..m - 1 /\ p <= 3 * (m - 1)
        BY <2>5, <3>3
      <4>2. a[p] = s[i][j]
        BY <2>7, <4>1
      <4> HIDE DEF p
      <4>3. h[m][p] = a[p]
        BY <2>10, <3>1, <4>1
      <4> QED BY <4>2, <4>3 DEF p
    <3> QED BY <3>2, <3>3
  <2>12. P(h, m)
    BY <2>10, <2>11 DEF P
  <2> QED BY <2>3, <2>12 DEF T
<1>7. n \in 0..n
  BY <1>1
<1>8. P(h, n) /\ h[n] \in Seq(X)
  BY <1>3, <1>6, <1>7
<1> QED BY <1>4, <1>8 DEF n

\* A manifest of n chunks, and its file without the checksum.
HasChunks(m, n) == n \in Nat /\ DOMAIN m.Chunks = 1..n /\ Len(m.Chunks) = n
Blocks(m) == [i \in DOMAIN m.Chunks |->
        <<[id |-> m.Chunks[i].ID], [size |-> m.Chunks[i].Size], [offset |-> m.Chunks[i].Offset]>>]
Body(m) == Header(m) \o FlattenSeq(Blocks(m))

\* What can be in the file.
Cells(m) == {Header(m)[j] : j \in 1..8} \cup {[id |-> m.Chunks[i].ID] : i \in DOMAIN m.Chunks}
                \cup {[size |-> m.Chunks[i].Size] : i \in DOMAIN m.Chunks}
                \cup {[offset |-> m.Chunks[i].Offset] : i \in DOMAIN m.Chunks}

\* The fields of the file are where Decode looks for them.
LEMMA BodyIs ==
    ASSUME NEW m, NEW n, HasChunks(m, n)
    PROVE  /\ Body(m) \in Seq(Cells(m)) /\ Len(Body(m)) = 8 + 3 * n
           /\ \A j \in 1..8 : Body(m)[j] = Header(m)[j]
           /\ \A i \in 1..n :
                 /\ Body(m)[8 + 3 * (i - 1) + 1] = [id |-> m.Chunks[i].ID]
                 /\ Body(m)[8 + 3 * (i - 1) + 2] = [size |-> m.Chunks[i].Size]
                 /\ Body(m)[8 + 3 * (i - 1) + 3] = [offset |-> m.Chunks[i].Offset]
<1> DEFINE X == Cells(m)
           s == Blocks(m)
           H == Header(m)
           F == FlattenSeq(s)
<1>1. n \in Nat /\ DOMAIN m.Chunks = 1..n
  BY DEF HasChunks
<1>2. Len(H) = 8 /\ H \in Seq(X)
  <2>1. Len(H) = 8 /\ DOMAIN H = 1..8
    BY DEF Header
  <2>2. \A j \in 1..8 : H[j] \in X
    BY DEF Cells
  <2>3. H = [j \in 1..8 |-> H[j]]
    BY DEF Header
  <2> HIDE DEF H, X
  <2> QED BY <2>1, <2>2, <2>3
<1>3. ASSUME NEW i \in 1..n
      PROVE  /\ s[i] = <<[id |-> m.Chunks[i].ID], [size |-> m.Chunks[i].Size],
                         [offset |-> m.Chunks[i].Offset]>>
             /\ s[i] \in Seq(X) /\ Len(s[i]) = 3
             /\ s[i][1] = [id |-> m.Chunks[i].ID] /\ s[i][2] = [size |-> m.Chunks[i].Size]
             /\ s[i][3] = [offset |-> m.Chunks[i].Offset]
  <2>1. s[i] = <<[id |-> m.Chunks[i].ID], [size |-> m.Chunks[i].Size],
                 [offset |-> m.Chunks[i].Offset]>>
    BY <1>1 DEF Blocks
  <2>2. /\ [id |-> m.Chunks[i].ID] \in X /\ [size |-> m.Chunks[i].Size] \in X
        /\ [offset |-> m.Chunks[i].Offset] \in X
    BY <1>1 DEF Cells
  <2> HIDE DEF s, X
  <2> QED BY <2>1, <2>2
<1>4. s \in Seq(Seq(X)) /\ Len(s) = n
  <2>1. s = [i \in 1..n |-> s[i]]
    BY <1>1 DEF Blocks
  <2> DEFINE Y == Seq(X)
  <2>2. \A i \in 1..n : s[i] \in Y
    BY <1>3
  <2> HIDE DEF s, X, Y
  <2>3. s \in Seq(Y) /\ Len(s) = n
    BY <1>1, <2>1, <2>2
  <2> QED BY <2>3 DEF Y
<1> HIDE DEF X, s, H
<1>5. /\ F \in Seq(X) /\ Len(F) = 3 * n
      /\ \A i \in 1..n, j \in 1..3 : F[3 * (i - 1) + j] = s[i][j]
  <2>1. \A i \in 1..Len(s) : Len(s[i]) = 3
    BY <1>3, <1>4
  <2>2. /\ F \in Seq(X) /\ Len(F) = 3 * Len(s)
        /\ \A i \in 1..Len(s), j \in 1..3 : F[3 * (i - 1) + j] = s[i][j]
    BY <1>4, <2>1, FlattenThrees
  <2> QED BY <1>4, <2>2
<1> DEFINE B == H \o F
<1> HIDE DEF F
<1>6. /\ B \in Seq(X) /\ Len(B) = 8 + 3 * n
      /\ \A k \in 1..8 + 3 * n : B[k] = IF k <= 8 THEN H[k] ELSE F[k - 8]
  <2>1. H \in Seq(X) /\ F \in Seq(X)
    BY <1>2, <1>5
  <2>2. /\ H \o F \in Seq(X) /\ Len(H \o F) = Len(H) + Len(F)
        /\ \A k \in 1..Len(H) + Len(F) : (H \o F)[k] = IF k <= Len(H) THEN H[k] ELSE F[k - Len(H)]
    BY <2>1, ConcatProperties
  <2> QED BY <1>2, <1>5, <2>2
<1>7. B = Body(m)
  BY DEF Body, H, F, s
<1> HIDE DEF B
<1>8. \A j \in 1..8 : B[j] = H[j]
  BY <1>1, <1>6
<1>9. ASSUME NEW i \in 1..n, NEW j \in 1..3 PROVE B[8 + 3 * (i - 1) + j] = s[i][j]
  <2> DEFINE k == 8 + 3 * (i - 1) + j
  <2>1. k \in 1..8 + 3 * n /\ ~(k <= 8) /\ k - 8 = 3 * (i - 1) + j
    BY <1>1
  <2> HIDE DEF k
  <2>2. B[k] = F[k - 8]
    BY <1>6, <2>1
  <2> QED BY <1>5, <2>1, <2>2 DEF k
<1>10. ASSUME NEW i \in 1..n
       PROVE  /\ B[8 + 3 * (i - 1) + 1] = [id |-> m.Chunks[i].ID]
              /\ B[8 + 3 * (i - 1) + 2] = [size |-> m.Chunks[i].Size]
              /\ B[8 + 3 * (i - 1) + 3] = [offset |-> m.Chunks[i].Offset]
  <2>1. 1 \in 1..3 /\ 2 \in 1..3 /\ 3 \in 1..3
    OBVIOUS
  <2> QED BY <1>3, <1>9, <2>1
<1> QED BY <1>6, <1>7, <1>8, <1>10 DEF H, X

\* The file is that and the checksum.
LEMMA FileIs ==
    ASSUME NEW m, NEW n, HasChunks(m, n)
    PROVE  /\ Len(Encode(m)) = 9 + 3 * n
           /\ Front(Encode(m)) = Body(m) /\ Last(Encode(m)) = [sum |-> Body(m)]
           /\ \A k \in 1..8 + 3 * n : Encode(m)[k] = Body(m)[k]
           /\ \E X : Encode(m) \in Seq(X)
<1> DEFINE B == Body(m)
           c == [sum |-> B]
           X == Cells(m) \cup {c}
           raw == Append(B, c)
<1>1. Encode(m) = raw
  BY DEF Encode, Sealed, Body, Blocks
<1>2. B \in Seq(Cells(m)) /\ Len(B) = 8 + 3 * n /\ n \in Nat
  BY BodyIs DEF HasChunks
<1> HIDE DEF B, c
<1>3. B \in Seq(X) /\ c \in X
  BY <1>2, SeqMonotonic
<1> HIDE DEF X
<1>4. /\ raw \in Seq(X) /\ Len(raw) = Len(B) + 1 /\ raw[Len(B) + 1] = c
      /\ \A k \in 1..Len(B) : raw[k] = B[k]
  BY <1>3, AppendProperties
<1>5. Len(raw) = 9 + 3 * n
  BY <1>2, <1>4
<1>6. Last(raw) = c
  BY <1>2, <1>4 DEF Last
<1>7. Front(raw) = B
  <2> HIDE DEF raw
  <2>1. Len(raw) - 1 = Len(B) /\ Len(B) \in 0..Len(raw)
    BY <1>2, <1>4
  <2> DEFINE f == Upto(raw, Len(B))
  <2>2. f \in Seq(X) /\ Len(f) = Len(B) /\ \A j \in 1..Len(B) : f[j] = raw[j]
    BY <1>4, <2>1, UptoIs
  <2>3. f = Front(raw)
    BY <2>1 DEF Front, Upto
  <2> HIDE DEF f
  <2>4. f \in Seq(X) /\ B \in Seq(X) /\ Len(f) = Len(B) /\ \A j \in 1..Len(f) : f[j] = B[j]
    BY <1>3, <1>4, <2>2
  <2>5. f = B
    BY <2>4, SeqEqual
  <2> QED BY <2>3, <2>5
<1> HIDE DEF raw
<1>8. \A k \in 1..8 + 3 * n : raw[k] = B[k]
  BY <1>2, <1>4
<1> QED BY <1>1, <1>4, <1>5, <1>6, <1>7, <1>8 DEF B, c

\* No proper part of a file passes for one: its last field is no checksum.
LEMMA PartRefused ==
    ASSUME NEW m, NEW n, HasChunks(m, n), NEW k \in 1..Len(Encode(m)) - 1
    PROVE  Decode(Upto(Encode(m), k)) = Refused
<1> DEFINE raw == Encode(m)
           t == Upto(raw, k)
<1>1. /\ Len(raw) = 9 + 3 * n /\ n \in Nat
      /\ \A j \in 1..8 + 3 * n : raw[j] = Body(m)[j]
  BY FileIs DEF HasChunks
<1>2. PICK X : raw \in Seq(X)
  BY FileIs
<1>3. k \in 1..8 + 3 * n /\ k \in 0..Len(raw)
  BY <1>1
<1> HIDE DEF raw
<1>4. Len(t) = k /\ t[k] = raw[k]
  <2>1. Len(t) = k /\ \A j \in 1..k : t[j] = raw[j]
    BY <1>2, <1>3, UptoIs
  <2> QED BY <1>3, <2>1
<1>5. k > 8 => t[k] # [sum |-> Front(t)]
  <2> SUFFICES ASSUME k > 8 PROVE t[k] # [sum |-> Front(t)]
    OBVIOUS
  <2> DEFINE i == (k - 9) \div 3 + 1
             j == k - 8 - 3 * (i - 1)
  <2>1. i \in 1..n /\ j \in 1..3 /\ k = 8 + 3 * (i - 1) + j
    BY <1>1, <1>3
  <2> HIDE DEF i, j
  <2>2. \/ Body(m)[k] = [id |-> m.Chunks[i].ID]
        \/ Body(m)[k] = [size |-> m.Chunks[i].Size]
        \/ Body(m)[k] = [offset |-> m.Chunks[i].Offset]
    <3>1. /\ Body(m)[8 + 3 * (i - 1) + 1] = [id |-> m.Chunks[i].ID]
          /\ Body(m)[8 + 3 * (i - 1) + 2] = [size |-> m.Chunks[i].Size]
          /\ Body(m)[8 + 3 * (i - 1) + 3] = [offset |-> m.Chunks[i].Offset]
      BY <2>1, BodyIs
    <3>2. j = 1 \/ j = 2 \/ j = 3
      BY <2>1
    <3> QED BY <2>1, <3>1, <3>2
  <2>3. t[k] = Body(m)[k]
    BY <1>1, <1>3, <1>4
  <2>4. DOMAIN t[k] \in {{"id"}, {"size"}, {"offset"}}
    BY <2>2, <2>3
  <2>5. DOMAIN [sum |-> Front(t)] = {"sum"}
    OBVIOUS
  <2>6. {"sum"} \notin {{"id"}, {"size"}, {"offset"}}
    OBVIOUS
  <2> QED BY <2>4, <2>5, <2>6
<1>6. ~(Len(t) > HeaderSize /\ Last(t) = [sum |-> Front(t)])
  BY <1>4, <1>5 DEF HeaderSize, Last
<1> HIDE DEF t
<1>7. Decode(t) = Refused
  BY <1>6 DEF Decode
<1> QED BY <1>7 DEF t, raw

\* The entries of the file are the manifest's chunks, so a valid manifest that
\* is not too long is read back as it was.
LEMMA DecodeIs ==
    ASSUME NEW m, NEW n, HasChunks(m, n), n <= MaxChunks, Validate(m),
           m = [Version |-> m.Version, Algo |-> m.Algo, ChunkSize |-> m.ChunkSize, CDC |-> m.CDC,
                ObjectID |-> m.ObjectID, Chunks |-> m.Chunks, TotalSize |-> m.TotalSize],
           m.Chunks = [i \in 1..n |-> [ID |-> m.Chunks[i].ID, Size |-> m.Chunks[i].Size,
                                       Offset |-> m.Chunks[i].Offset]]
    PROVE  Decode(Encode(m)) = m
<1> DEFINE raw == Encode(m)
           B == Body(m)
<1>1. /\ Len(raw) = 9 + 3 * n /\ Front(raw) = B /\ Last(raw) = [sum |-> B] /\ n \in Nat
  BY FileIs DEF HasChunks
<1>2. /\ Len(B) = 8 + 3 * n
      /\ \A j \in 1..8 : B[j] = Header(m)[j]
      /\ \A i \in 1..n : /\ B[8 + 3 * (i - 1) + 1] = [id |-> m.Chunks[i].ID]
                         /\ B[8 + 3 * (i - 1) + 2] = [size |-> m.Chunks[i].Size]
                         /\ B[8 + 3 * (i - 1) + 3] = [offset |-> m.Chunks[i].Offset]
  BY BodyIs, ZenonT(60)
<1>3. Len(m.Chunks) = n
  BY DEF HasChunks
<1> HIDE DEF raw, B
<1>4. /\ B[1] = [magic |-> "SBLB"] /\ B[2] = [ver |-> m.Version] /\ B[3] = [flags |-> m.CDC]
      /\ B[4] = [algo |-> m.Algo] /\ B[5] = [size |-> m.ChunkSize] /\ B[6] = [count |-> n]
      /\ B[7] = [total |-> m.TotalSize] /\ B[8] = [oid |-> m.ObjectID]
  <2>1. /\ 1 \in 1..8 /\ 2 \in 1..8 /\ 3 \in 1..8 /\ 4 \in 1..8
        /\ 5 \in 1..8 /\ 6 \in 1..8 /\ 7 \in 1..8 /\ 8 \in 1..8
    OBVIOUS
  <2>2. /\ B[1] = Header(m)[1] /\ B[2] = Header(m)[2] /\ B[3] = Header(m)[3] /\ B[4] = Header(m)[4]
        /\ B[5] = Header(m)[5] /\ B[6] = Header(m)[6] /\ B[7] = Header(m)[7] /\ B[8] = Header(m)[8]
    BY <1>2, <2>1
  <2> QED BY <1>3, <2>2 DEF Header
<1>5. Entries(B, n) = m.Chunks
  <2> DEFINE e(i) == LET at1 == HeaderSize + (i - 1) * EntrySize
                     IN [ID |-> B[at1 + 1].id, Size |-> B[at1 + 2].size,
                         Offset |-> B[at1 + 3].offset]
  <2>1. ASSUME NEW i \in 1..n
        PROVE  e(i) = [ID |-> m.Chunks[i].ID, Size |-> m.Chunks[i].Size,
                       Offset |-> m.Chunks[i].Offset]
    <3>1. HeaderSize + (i - 1) * EntrySize = 8 + 3 * (i - 1)
      BY <1>1 DEF HeaderSize, EntrySize
    <3>2. /\ B[8 + 3 * (i - 1) + 1].id = m.Chunks[i].ID
          /\ B[8 + 3 * (i - 1) + 2].size = m.Chunks[i].Size
          /\ B[8 + 3 * (i - 1) + 3].offset = m.Chunks[i].Offset
      <4>1. /\ B[8 + 3 * (i - 1) + 1] = [id |-> m.Chunks[i].ID]
            /\ B[8 + 3 * (i - 1) + 2] = [size |-> m.Chunks[i].Size]
            /\ B[8 + 3 * (i - 1) + 3] = [offset |-> m.Chunks[i].Offset]
        BY <1>2
      <4> QED BY <4>1
    <3> QED BY <3>1, <3>2
  <2>2. Entries(B, n) = [i \in 1..n |-> e(i)]
    BY DEF Entries
  <2> HIDE DEF e
  <2>3. [i \in 1..n |-> e(i)] = [i \in 1..n |-> [ID |-> m.Chunks[i].ID, Size |-> m.Chunks[i].Size,
                                                 Offset |-> m.Chunks[i].Offset]]
    BY <2>1
  <2> QED BY <2>2, <2>3
<1> DEFINE d == [Version |-> B[2].ver, CDC |-> B[3].flags, Algo |-> B[4].algo,
                 ChunkSize |-> B[5].size, TotalSize |-> B[7].total, ObjectID |-> B[8].oid,
                 Chunks |-> Entries(B, B[6].count)]
<1>6. d = m
  <2>1. d = [Version |-> m.Version, CDC |-> m.CDC, Algo |-> m.Algo, ChunkSize |-> m.ChunkSize,
             TotalSize |-> m.TotalSize, ObjectID |-> m.ObjectID, Chunks |-> m.Chunks]
    <3>1. B[6].count = n
      BY <1>4
    <3>2. /\ B[2].ver = m.Version /\ B[3].flags = m.CDC /\ B[4].algo = m.Algo
          /\ B[5].size = m.ChunkSize /\ B[7].total = m.TotalSize /\ B[8].oid = m.ObjectID
      BY <1>4
    <3> QED BY <1>5, <3>1, <3>2
  <2> HIDE DEF d
  <2> QED BY <2>1
<1>7. /\ Len(raw) > HeaderSize /\ Last(raw) = [sum |-> B] /\ B[1] = [magic |-> "SBLB"]
      /\ B[6].count <= MaxChunks /\ B[6].count * EntrySize = Len(B) - HeaderSize
  <2>1. B[6].count = n
    BY <1>4
  <2> QED BY <1>1, <1>2, <1>4, <2>1 DEF HeaderSize, EntrySize
<1>8. Decode(raw) = IF /\ Len(raw) > HeaderSize
                       /\ Last(raw) = [sum |-> B] /\ B[1] = [magic |-> "SBLB"]
                       /\ B[6].count <= MaxChunks /\ B[6].count * EntrySize = Len(B) - HeaderSize
                       /\ Validate(d)
                    THEN d ELSE Refused
  BY <1>1 DEF Decode
<1> HIDE DEF d
<1>9. Decode(raw) = m
  BY <1>6, <1>7, <1>8
<1> QED BY <1>9 DEF raw

-----------------------------------------------------------------------------
(* What Put stores *)

\* The manifest's chunks are the pieces.
Entry(i) == [ID |-> ChunkID(Lookup(algo), out[i].Data), Size |-> Len(out[i].Data),
             Offset |-> out[i].Offset]

\* What NewManifest makes of them.
LEMMA ManifestIs ==
    ASSUME Shapes
    PROVE  /\ HasChunks(Manifest, Len(out))
           /\ Manifest.Chunks = [i \in 1..Len(out) |-> Entry(i)]
           /\ \A i \in 1..Len(out) : Manifest.Chunks[i] = Entry(i)
           /\ Manifest.Version = 1 /\ Manifest.Algo = Lookup(algo)
           /\ Manifest.ChunkSize = policy.Avg /\ Manifest.CDC = (policy.Mode = "cdc")
           /\ Manifest.ObjectID = ObjectID(Lookup(algo), Assembled(out))
           /\ Manifest.TotalSize = SumOf(Sizes(out))
           /\ Manifest = [Version |-> Manifest.Version, Algo |-> Manifest.Algo,
                          ChunkSize |-> Manifest.ChunkSize, CDC |-> Manifest.CDC,
                          ObjectID |-> Manifest.ObjectID, Chunks |-> Manifest.Chunks,
                          TotalSize |-> Manifest.TotalSize]
<1> DEFINE n == Len(out)
           chunks == [i \in DOMAIN out |-> Entry(i)]
           oid == ObjectID(Lookup(algo), Assembled(out))
           total == SumOf([i \in DOMAIN chunks |-> chunks[i].Size])
<1>1. DOMAIN out = 1..n /\ n \in Nat
  BY Basics, LenProperties
<1>2. Manifest = [Version |-> 1, Algo |-> Lookup(algo), ChunkSize |-> policy.Avg,
                  CDC |-> policy.Mode = "cdc", ObjectID |-> oid, Chunks |-> chunks,
                  TotalSize |-> total]
  BY DEF Manifest, NewManifest, Assembled, Datas, Entry
<1>3. chunks = [i \in 1..n |-> Entry(i)] /\ DOMAIN chunks = 1..n
  BY <1>1
<1>4. total = SumOf(Sizes(out))
  <2>1. \A i \in 1..n : chunks[i].Size = Len(out[i].Data)
    BY <1>3 DEF Entry
  <2>2. [i \in DOMAIN chunks |-> chunks[i].Size] = [i \in DOMAIN out |-> Len(out[i].Data)]
    BY <1>1, <1>3, <2>1
  <2> QED BY <2>2 DEF Sizes
<1>5. Len(chunks) = n
  <2> HIDE DEF n
  <2> QED BY <1>1, <1>3
<1>6. \A i \in 1..n : chunks[i] = Entry(i)
  BY <1>3
<1> HIDE DEF chunks, oid, total, n
<1>7. /\ Manifest.Version = 1 /\ Manifest.Algo = Lookup(algo)
      /\ Manifest.ChunkSize = policy.Avg /\ Manifest.CDC = (policy.Mode = "cdc")
      /\ Manifest.ObjectID = oid /\ Manifest.TotalSize = total /\ Manifest.Chunks = chunks
  BY <1>2
<1>8. Manifest = [Version |-> Manifest.Version, Algo |-> Manifest.Algo,
                  ChunkSize |-> Manifest.ChunkSize, CDC |-> Manifest.CDC,
                  ObjectID |-> Manifest.ObjectID, Chunks |-> Manifest.Chunks,
                  TotalSize |-> Manifest.TotalSize]
  BY <1>2, <1>7
<1>9. HasChunks(Manifest, n)
  BY <1>1, <1>3, <1>5, <1>7 DEF HasChunks
<1> QED BY <1>3, <1>4, <1>6, <1>7, <1>8, <1>9 DEF n, oid

\* It is valid if it is not too long.
LEMMA ManifestValid ==
    ASSUME SplitInv, eof, Len(out) <= MaxChunks
    PROVE  Validate(Manifest)
<1> DEFINE n == Len(out)
           m == Manifest
<1>1. Shapes /\ PiecesFit /\ FixedSizes
  BY DEF SplitInv
<1>2. /\ DOMAIN m.Chunks = 1..n /\ Len(m.Chunks) = n
      /\ \A i \in 1..n : m.Chunks[i] = Entry(i)
      /\ m.Version = 1 /\ m.ChunkSize = policy.Avg /\ m.CDC = (policy.Mode = "cdc")
      /\ m.TotalSize = SumOf(Sizes(out))
  BY <1>1, ManifestIs DEF HasChunks
<1>3. /\ DOMAIN out = 1..n /\ n \in Nat /\ policy.Mode \in {"fixed", "cdc"}
      /\ \A i \in 1..n : out[i].Data \in Seq(Bytes) /\ Len(out[i].Data) \in Nat
  <2>1. out \in Seq(PieceSet) /\ policy.Mode \in {"fixed", "cdc"}
    BY <1>1, Basics
  <2> QED BY <2>1, PiecesAre
<1> HIDE DEF m, n
<1>4. \A i \in 1..n : /\ m.Chunks[i].Size = Len(out[i].Data)
                      /\ m.Chunks[i].Offset = out[i].Offset
  <2> TAKE i \in 1..n
  <2>1. m.Chunks[i] = Entry(i)
    BY <1>2
  <2> QED BY <2>1 DEF Entry
<1>5. ASSUME NEW i \in DOMAIN m.Chunks
      PROVE  /\ m.Chunks[i].Size # 0
             /\ m.Chunks[i].Offset = SumOf([j \in 1..i-1 |-> m.Chunks[j].Size])
             /\ ~m.CDC => /\ i < Len(m.Chunks) => m.Chunks[i].Size = m.ChunkSize
                          /\ m.Chunks[i].Size <= m.ChunkSize
  <2>1. i \in 1..n /\ i \in DOMAIN out
    BY <1>2, <1>3
  <2>2. m.Chunks[i].Size # 0
    <3>1. out[i].Data # <<>>
      BY <1>1, <2>1 DEF PiecesFit
    <3> QED BY <1>3, <1>4, <2>1, <3>1, EmptySeq
  <2>3. m.Chunks[i].Offset = SumOf([j \in 1..i-1 |-> m.Chunks[j].Size])
    <3>1. out[i].Offset = SumOf([j \in 1..i-1 |-> Len(out[j].Data)])
      BY <1>1, <2>1 DEF PiecesFit, Fits
    <3>2. \A j \in 1..i-1 : m.Chunks[j].Size = Len(out[j].Data)
      BY <1>3, <1>4, <2>1
    <3>3. [j \in 1..i-1 |-> m.Chunks[j].Size] = [j \in 1..i-1 |-> Len(out[j].Data)]
      BY <3>2
    <3> QED BY <1>4, <2>1, <3>1, <3>3
  <2>4. ~m.CDC => /\ i < Len(m.Chunks) => m.Chunks[i].Size = m.ChunkSize
                  /\ m.Chunks[i].Size <= m.ChunkSize
    <3> SUFFICES ASSUME ~m.CDC
                 PROVE  /\ i < Len(m.Chunks) => m.Chunks[i].Size = m.ChunkSize
                        /\ m.Chunks[i].Size <= m.ChunkSize
      OBVIOUS
    <3>1. policy.Mode = "fixed"
      BY <1>2, <1>3
    <3>2. /\ Len(out[i].Data) <= policy.Avg
          /\ i < Len(out) => Len(out[i].Data) = policy.Avg
      BY <1>1, <2>1, <3>1 DEF FixedSizes
    <3>3. /\ Len(m.Chunks) = Len(out) /\ m.ChunkSize = policy.Avg
          /\ m.Chunks[i].Size = Len(out[i].Data)
      BY <1>2, <1>4, <2>1 DEF n
    <3> QED BY <3>2, <3>3
  <2> QED BY <2>2, <2>3, <2>4
<1>6. m.TotalSize = SumOf([i \in DOMAIN m.Chunks |-> m.Chunks[i].Size])
  <2>1. [i \in DOMAIN m.Chunks |-> m.Chunks[i].Size] = [i \in DOMAIN out |-> Len(out[i].Data)]
    BY <1>2, <1>3, <1>4
  <2> QED BY <1>2, <2>1 DEF Sizes
<1>7. Validate(m)
  <2>1. m.Version = 1 /\ Len(m.Chunks) <= MaxChunks
    BY <1>2 DEF n
  <2> QED BY <1>5, <1>6, <2>1 DEF Validate
<1> QED BY <1>7 DEF m

\* Verify finds what Put has stored.
LEMMA NoFaults ==
    ASSUME SplitInv, eof, Len(out) <= MaxChunks
    PROVE  Faults(Manifest, Blobs) = {}
<1> DEFINE n == Len(out)
           m == Manifest
           a == Lookup(algo)
           id(i) == ChunkID(a, out[i].Data)
           blobs == Blobs
<1>1. Shapes /\ PiecesFit
  BY DEF SplitInv
<1>2. /\ DOMAIN m.Chunks = 1..n /\ \A i \in 1..n : m.Chunks[i] = Entry(i)
      /\ m.Algo = a /\ m.ObjectID = ObjectID(a, Assembled(out)) /\ m.TotalSize = SumOf(Sizes(out))
  BY <1>1, ManifestIs DEF HasChunks
<1>3. DOMAIN out = 1..n /\ n \in Nat
  BY <1>1, Basics, LenProperties
<1>4. Lookup(m.Algo) = a /\ a # "unknown"
  <2>1. algo \in DOMAIN Registered
    <3>1. PICK r \in Requests : algo = r.algo
      BY <1>1 DEF Shapes, Opened
    <3> QED BY <3>1, InputAssumption
  <2>2. a = Registered[algo]
    BY <2>1 DEF Lookup
  <2>3. a \in DOMAIN Registered \ {"unknown"} /\ Registered[a] = a
    <3> HIDE DEF a
    <3> QED BY <2>1, <2>2, AlgorithmAssumption
  <2>4. Lookup(a) = a
    <3> HIDE DEF a
    <3> QED BY <2>3 DEF Lookup
  <2> QED BY <1>2, <2>3, <2>4
<1>5. Validate(m)
  BY ManifestValid
<1>6. /\ \A i \in 1..n : id(i) \in DOMAIN blobs /\ blobs[id(i)] = out[i].Data
  <2> DEFINE ids == {ChunkID(Lookup(algo), out[i].Data) : i \in DOMAIN out}
  <2>1. blobs = [x \in ids |-> x.data]
    BY DEF Blobs
  <2>2. \A i \in 1..n : id(i) \in ids
    BY <1>3
  <2>3. \A i \in 1..n : id(i).data = out[i].Data
    BY DEF ChunkID
  <2> HIDE DEF ids, id, blobs
  <2> QED BY <2>1, <2>2, <2>3
<1>7. \A i \in 1..n : m.Chunks[i].ID = id(i) /\ m.Chunks[i].Size = Len(out[i].Data)
  <2> TAKE i \in 1..n
  <2>1. m.Chunks[i] = Entry(i)
    BY <1>2
  <2> HIDE DEF m
  <2> QED BY <2>1 DEF Entry
<1> HIDE DEF m, a, blobs
<1>8. \A i \in 1..n : ChunkID(a, out[i].Data) = id(i)
  OBVIOUS
<1> HIDE DEF id, n
<1> DEFINE lost == {i \in DOMAIN m.Chunks : m.Chunks[i].ID \notin DOMAIN blobs}
           bad == {i \in DOMAIN m.Chunks \ lost :
                      \/ Len(blobs[m.Chunks[i].ID]) # m.Chunks[i].Size
                      \/ ChunkID(a, blobs[m.Chunks[i].ID]) # m.Chunks[i].ID}
           all == FlattenSeq([i \in DOMAIN m.Chunks |-> blobs[m.Chunks[i].ID]])
<1>9. lost = {} /\ bad = {}
  <2>1. lost = {}
    BY <1>2, <1>6, <1>7
  <2>2. \A i \in 1..n : /\ Len(blobs[m.Chunks[i].ID]) = m.Chunks[i].Size
                        /\ ChunkID(a, blobs[m.Chunks[i].ID]) = m.Chunks[i].ID
    BY <1>6, <1>7, <1>8
  <2> QED BY <1>2, <2>1, <2>2
<1>10. all = Assembled(out)
  <2>1. \A i \in 1..n : blobs[m.Chunks[i].ID] = out[i].Data
    BY <1>6, <1>7
  <2>2. [i \in DOMAIN m.Chunks |-> blobs[m.Chunks[i].ID]] = [i \in DOMAIN out |-> out[i].Data]
    BY <1>2, <1>3, <2>1
  <2> QED BY <2>2 DEF Assembled, Datas
<1>11. Len(Assembled(out)) = SumOf(Sizes(out))
  <2>1. Assembled(out) = Slice(content, 0, offset) /\ SumOf(Sizes(out)) = offset
    BY <1>1 DEF PiecesFit
  <2>2. /\ content \in Seq(Bytes) /\ offset \in Nat /\ offset <= at /\ at <= Len(content)
        /\ at \in Nat /\ Len(content) \in Nat
    BY <1>1, Basics
  <2>3. 0 \in Nat /\ 0 <= offset /\ offset <= Len(content) /\ offset - 0 = offset
    BY <2>2
  <2>4. Len(Slice(content, 0, offset)) = offset - 0
    BY <2>2, <2>3, SliceIs
  <2> QED BY <2>1, <2>3, <2>4
<1> HIDE DEF lost, bad, all
<1>12. Faults(m, blobs) =
         IF a = "unknown" THEN {"algo"}
         ELSE IF ~Validate(m) THEN {"manifest"}
         ELSE IF lost \cup bad # {} THEN {"chunk"}
         ELSE IF Len(all) # m.TotalSize THEN {"size"}
         ELSE IF ObjectID(a, all) # m.ObjectID THEN {"object"} ELSE {}
  BY <1>4 DEF Faults, lost, bad, all
<1>13. Faults(m, blobs) = {}
  BY <1>2, <1>4, <1>5, <1>9, <1>10, <1>11, <1>12
<1> QED BY <1>13 DEF m, blobs

\* Encode, Decode and Verify of this manifest.
LEMMA StoredVerifiesHolds == SplitInv => StoredVerifies
<1> SUFFICES ASSUME SplitInv, err = "EOF", index <= MaxChunks
             PROVE  /\ Decode(Encode(Manifest)) = Manifest
                    /\ Faults(Decode(Encode(Manifest)), Blobs) = {}
                    /\ \A k \in 1..Len(Encode(Manifest)) - 1 :
                          Decode(Upto(Encode(Manifest), k)) = Refused
  BY DEF StoredVerifies
<1> DEFINE n == Len(out)
           m == Manifest
<1>1. Shapes /\ eof /\ n <= MaxChunks
  <2>1. Shapes /\ eof
    BY DEF SplitInv, Held
  <2> QED BY <2>1 DEF Shapes
<1>2. Validate(m) /\ Faults(m, Blobs) = {}
  BY <1>1, ManifestValid, NoFaults
<1>3. /\ HasChunks(m, n)
      /\ m.Chunks = [i \in 1..n |-> Entry(i)]
      /\ \A i \in 1..n : m.Chunks[i] = Entry(i)
      /\ m = [Version |-> m.Version, Algo |-> m.Algo, ChunkSize |-> m.ChunkSize, CDC |-> m.CDC,
              ObjectID |-> m.ObjectID, Chunks |-> m.Chunks, TotalSize |-> m.TotalSize]
  BY <1>1, ManifestIs
<1> HIDE DEF m, n
<1>4. m.Chunks = [i \in 1..n |-> [ID |-> m.Chunks[i].ID, Size |-> m.Chunks[i].Size,
                                  Offset |-> m.Chunks[i].Offset]]
  <2>1. \A i \in 1..n : Entry(i) = [ID |-> m.Chunks[i].ID, Size |-> m.Chunks[i].Size,
                                    Offset |-> m.Chunks[i].Offset]
    BY <1>3 DEF Entry
  <2>2. [i \in 1..n |-> Entry(i)] = [i \in 1..n |-> [ID |-> m.Chunks[i].ID,
                                     Size |-> m.Chunks[i].Size, Offset |-> m.Chunks[i].Offset]]
    BY <2>1
  <2> QED BY <1>3, <2>2
<1>5. Decode(Encode(m)) = m
  BY <1>1, <1>2, <1>3, <1>4, DecodeIs
<1>6. \A k \in 1..Len(Encode(m)) - 1 : Decode(Upto(Encode(m), k)) = Refused
  BY <1>3, PartRefused
<1> QED BY <1>2, <1>5, <1>6 DEF m

\* An input read to its end is stored whole (put.go, manifest.New): its manifest
\* is valid, is read back from its file as it was (manifest.Encode and Decode),
\* no part of the file passes for one, and Verify finds no fault (verify.Object).
THEOREM WholeInputStored == Spec => []StoredVerifies
  BY SplitInvariant, StoredVerifiesHolds, PTL
=============================================================================
