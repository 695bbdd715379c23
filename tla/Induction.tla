----------------------------- MODULE Induction -----------------------------
(***************************************************************************)
(* Recursive functions on the natural numbers and folds of sequences: that *)
(* they satisfy their equations.  Op is any operator, the step of a        *)
(* recursive function or the operation of a fold: a proof about such a     *)
(* function or fold takes an instance of this module with it for Op.       *)
(***************************************************************************)
EXTENDS Lemmas

CONSTANT Op(_, _)

-----------------------------------------------------------------------------
(* Recursive functions on the numbers, whose value at n depends on those   *)
(* at smaller numbers only.                                                *)
Recursion == CHOOSE f : f = [n \in Nat |-> Op(f, n)]

Local == \A n \in Nat : \A f, g : (\A i \in 0..(n - 1) : f[i] = g[i]) => Op(f, n) = Op(g, n)

(* A function that satisfies the recursion up to n. *)
UpTo(n, h) == h = [i \in 0..n |-> Op(h, i)]

LEMMA UpToExists ==
  ASSUME Local
  PROVE  \A n \in Nat : \E h : UpTo(n, h)
<1> DEFINE S == {n \in Nat : \E h : UpTo(n, h)}
<1>1. 0 \in S
  <2> DEFINE h == [i \in 0..0 |-> Op(<<>>, 0)]
  <2>1. Op(h, 0) = Op(<<>>, 0)
    BY DEF Local
  <2>2. h = [i \in 0..0 |-> Op(h, i)]
    BY <2>1
  <2> QED
    BY <2>2 DEF UpTo
<1>2. ASSUME NEW n \in S PROVE n + 1 \in S
  <2>1. PICK g : UpTo(n, g)
    OBVIOUS
  <2> DEFINE m == n + 1
             h == [i \in 0..m |-> IF i = m THEN Op(g, m) ELSE g[i]]
  <2>2. ASSUME NEW k \in 0..m PROVE Op(h, k) = Op(g, k)
    <3>1. \A i \in 0..(k - 1) : h[i] = g[i]
      OBVIOUS
    <3> HIDE DEF h
    <3> QED
      BY <3>1 DEF Local
  <2>3. \A k \in 0..n : g[k] = Op(g, k)
    BY <2>1 DEF UpTo
  <2>4. \A k \in 0..m : h[k] = Op(h, k)
    BY <2>2, <2>3
  <2>5. h = [i \in 0..m |-> Op(h, i)]
    BY <2>4
  <2> HIDE DEF h
  <2>6. UpTo(m, h)
    BY <2>5 DEF UpTo
  <2> QED
    BY <2>6
<1>3. S \subseteq Nat
  OBVIOUS
<1> HIDE DEF S
<1>4. \A n \in Nat : n \in S
  BY <1>1, <1>2, <1>3, NatInd
<1> QED
  BY <1>4 DEF S

LEMMA UpToAgree ==
  ASSUME Local, NEW m \in Nat, NEW n \in Nat, NEW g, NEW h, UpTo(m, g), UpTo(n, h)
  PROVE  \A k \in Nat : k <= m /\ k <= n => g[k] = h[k]
<1> DEFINE S == {k \in Nat : \A i \in 0..k : i <= m /\ i <= n => g[i] = h[i]}
<1>1. ASSUME NEW k \in Nat, k <= m, k <= n, \A i \in 0..(k - 1) : g[i] = h[i]
      PROVE  g[k] = h[k]
  <2>1. k \in 0..m /\ k \in 0..n
    BY <1>1
  <2>2. g[k] = Op(g, k) /\ h[k] = Op(h, k)
    BY <2>1 DEF UpTo
  <2> QED
    BY <2>2, <1>1 DEF Local
<1>2. 0 \in S
  <2>1. g[0] = h[0]
    BY <1>1
  <2> QED
    BY <2>1
<1>3. ASSUME NEW k \in S PROVE k + 1 \in S
  <2>1. k + 1 <= m /\ k + 1 <= n => g[k + 1] = h[k + 1]
    BY <1>1
  <2> QED
    BY <2>1
<1>4. S \subseteq Nat
  OBVIOUS
<1>5. (\A k \in Nat : k \in S) => \A k \in Nat : k <= m /\ k <= n => g[k] = h[k]
  OBVIOUS
<1> HIDE DEF S
<1> QED
  BY <1>2, <1>3, <1>4, <1>5, NatInd

(* The function exists: its equation can be used. *)
THEOREM RecursionEquation ==
  ASSUME Local
  PROVE  Recursion = [n \in Nat |-> Op(Recursion, n)]
<1> DEFINE part(n) == CHOOSE h : UpTo(n, h)
           F == [n \in Nat |-> part(n)[n]]
<1>1. \A n \in Nat : UpTo(n, part(n))
  BY UpToExists
<1> HIDE DEF part
<1>2. ASSUME NEW n \in Nat PROVE F[n] = Op(F, n)
  <2>1. F[n] = Op(part(n), n)
    BY <1>1 DEF UpTo
  <2>2. \A i \in 0..(n - 1) : part(n)[i] = F[i]
    <3> SUFFICES ASSUME NEW i \in 0..(n - 1) PROVE part(n)[i] = part(i)[i]
      OBVIOUS
    <3>1. i \in Nat /\ i <= n /\ i <= i /\ UpTo(n, part(n)) /\ UpTo(i, part(i))
      BY <1>1
    <3> QED
      BY <3>1, UpToAgree
  <2> HIDE DEF F
  <2>3. Op(part(n), n) = Op(F, n)
    BY <2>2 DEF Local
  <2> QED
    BY <2>1, <2>3
<1>3. F = [n \in Nat |-> Op(F, n)]
  BY <1>2
<1> HIDE DEF F
<1> QED
  BY <1>3 DEF Recursion

-----------------------------------------------------------------------------
(* Folds of a sequence.                                                    *)
Fold(base, s) == FoldLeft(Op, base, s)

Step(base, s, f, T) == IF T = {} THEN base ELSE Op(f[T \ {Max(T)}], s[Max(T)])
Folds(base, s, n, f) == f = [T \in SUBSET (1..n) |-> Step(base, s, f, T)]

LEMMA FoldsExist ==
  ASSUME NEW base, NEW s
  PROVE  \A n \in Nat : \E f : Folds(base, s, n, f)
<1> DEFINE S == {n \in Nat : \E f : Folds(base, s, n, f)}
<1>1. 0 \in S
  <2> DEFINE f == [T \in SUBSET (1..0) |-> base]
  <2>1. \A T \in SUBSET (1..0) : T = {}
    OBVIOUS
  <2>2. Folds(base, s, 0, f)
    BY <2>1 DEF Folds, Step
  <2> QED
    BY <2>2
<1>2. ASSUME NEW n \in S PROVE n + 1 \in S
  <2>1. PICK g : Folds(base, s, n, g)
    OBVIOUS
  <2> DEFINE m == n + 1
             h == [T \in SUBSET (1..m) |-> IF m \in T THEN Op(g[T \ {m}], s[m]) ELSE g[T]]
  <2>3. ASSUME NEW T \in SUBSET (1..m) PROVE h[T] = Step(base, s, h, T)
    <3>1. CASE m \in T
      <4>1. Max(T) = m
        <5>1. m \in Int /\ T \subseteq Int /\ (\A x \in T : x <= m)
          OBVIOUS
        <5> HIDE DEF m
        <5> QED
          BY <5>1, <3>1, MaxOf
      <4>2. T \ {m} \in SUBSET (1..m) /\ m \notin T \ {m}
        OBVIOUS
      <4>3. h[T \ {m}] = g[T \ {m}]
        BY <4>2
      <4>4. h[T] = Op(g[T \ {m}], s[m])
        BY <3>1
      <4>5. Step(base, s, h, T) = Op(h[T \ {m}], s[m])
        <5> HIDE DEF h, m
        <5> QED
          BY <3>1, <4>1 DEF Step
      <4> HIDE DEF h
      <4> QED
        BY <4>3, <4>4, <4>5
    <3>2. CASE m \notin T
      <4>1. T \in SUBSET (1..n)
        BY <3>2
      <4>2. g[T] = Step(base, s, g, T)
        BY <2>1, <4>1 DEF Folds
      <4>3. h[T] = g[T]
        BY <3>2
      <4> DEFINE U == T \ {Max(T)}
      <4>4. U \in SUBSET (1..n) /\ U \in SUBSET (1..m) /\ m \notin U
        BY <4>1, <3>2
      <4>5. h[U] = g[U]
        BY <4>4
      <4> HIDE DEF h
      <4> QED
        BY <4>2, <4>3, <4>5 DEF Step
    <3> QED
      BY <3>1, <3>2
  <2>4. h = [T \in SUBSET (1..m) |-> Step(base, s, h, T)]
    BY <2>3
  <2> HIDE DEF h
  <2>5. Folds(base, s, m, h)
    BY <2>4 DEF Folds
  <2> QED
    BY <2>5
<1> HIDE DEF S
<1>3. \A n \in Nat : n \in S
  BY <1>1, <1>2, NatInd DEF S
<1> QED
  BY <1>3 DEF S

LEMMA FoldIs ==
  ASSUME NEW base, NEW n \in Nat, NEW s, DOMAIN s = 1..n
  PROVE  \E f : Folds(base, s, n, f) /\ Fold(base, s) = f[1..n]
<1> DEFINE f == CHOOSE g : g = [T \in SUBSET (1..n) |->
                                  IF T = {} THEN base ELSE Op(g[T \ {Max(T)}], s[Max(T)])]
<1>1. Fold(base, s) = f[1..n]
  BY DEF Fold, FoldLeft, MapThenFoldSet
<1>2. f = CHOOSE g : Folds(base, s, n, g)
  BY DEF Folds, Step
<1> HIDE DEF f
<1>3. Folds(base, s, n, f)
  BY <1>2, FoldsExist
<1> QED
  BY <1>1, <1>3

LEMMA FoldsAgree ==
  ASSUME NEW base, NEW n \in Nat, NEW m \in Nat, n <= m, NEW s, NEW t, \A i \in 1..n : s[i] = t[i],
         NEW f, NEW g, Folds(base, s, n, f), Folds(base, t, m, g)
  PROVE  f[1..n] = g[1..n]
<1> DEFINE S == {k \in Nat : k <= n => f[1..k] = g[1..k]}
<1>0. ASSUME NEW k \in Nat, k + 1 <= n
      PROVE  /\ f[1..(k+1)] = Op(f[1..k], s[k+1])
             /\ g[1..(k+1)] = Op(g[1..k], t[k+1])
  <2>1. Max(1..(k+1)) = k + 1
    <3>1. k + 1 \in Int /\ 1..(k+1) \subseteq Int /\ k + 1 \in 1..(k+1)
      OBVIOUS
    <3>2. \A x \in 1..(k+1) : x <= k + 1
      OBVIOUS
    <3> QED
      BY <3>1, <3>2, MaxOf
  <2>2. (1..(k+1)) \ {k+1} = 1..k
    OBVIOUS
  <2>3. 1..(k+1) \in SUBSET (1..n) /\ 1..(k+1) \in SUBSET (1..m) /\ 1..(k+1) # {}
    BY <1>0
  <2>4. f[1..(k+1)] = Step(base, s, f, 1..(k+1))
    BY <2>3 DEF Folds
  <2>5. g[1..(k+1)] = Step(base, t, g, 1..(k+1))
    BY <2>3 DEF Folds
  <2> QED
    BY <2>1, <2>2, <2>3, <2>4, <2>5 DEF Step
<1>1. 0 \in S
  <2>1. {} \in SUBSET (1..n) /\ {} \in SUBSET (1..m) /\ 1..0 = {}
    OBVIOUS
  <2>2. f[{}] = base /\ g[{}] = base
    BY <2>1 DEF Folds, Step
  <2> QED
    BY <2>1, <2>2
<1>2. ASSUME NEW k \in S PROVE k + 1 \in S
  <2> SUFFICES ASSUME k + 1 <= n PROVE f[1..(k+1)] = g[1..(k+1)]
    OBVIOUS
  <2>1. f[1..k] = g[1..k]
    OBVIOUS
  <2>2. s[k+1] = t[k+1]
    OBVIOUS
  <2> QED
    BY <1>0, <2>1, <2>2
<1>3. S \subseteq Nat
  OBVIOUS
<1>5. ASSUME n \in S PROVE f[1..n] = g[1..n]
  BY <1>5
<1> HIDE DEF S
<1>4. n \in S
  BY <1>1, <1>2, <1>3, NatInd
<1> QED
  BY <1>4, <1>5

(* Of no element the fold is its base ... *)
THEOREM FoldEmpty ==
  ASSUME NEW base
  PROVE  Fold(base, <<>>) = base
<1>1. DOMAIN <<>> = 1..0
  OBVIOUS
<1>2. PICK f : Folds(base, <<>>, 0, f) /\ Fold(base, <<>>) = f[1..0]
  BY <1>1, FoldIs
<1>3. 1..0 = {} /\ {} \in SUBSET (1..0)
  OBVIOUS
<1> QED
  BY <1>2, <1>3 DEF Folds, Step

(* ... and a last element is one more operation. *)
THEOREM FoldAppend ==
  ASSUME NEW base, NEW S, NEW s \in Seq(S), NEW e \in S
  PROVE  Fold(base, Append(s, e)) = Op(Fold(base, s), e)
<1> DEFINE n == Len(s)
           t == Append(s, e)
<1>1. /\ n \in Nat /\ DOMAIN s = 1..n /\ DOMAIN t = 1..(n+1) /\ t[n+1] = e
      /\ \A i \in 1..n : s[i] = t[i]
  BY AppendProperties, LenProperties
<1> DEFINE m == n + 1
<1>2. m \in Nat /\ n <= m /\ DOMAIN t = 1..m /\ t[m] = e
  BY <1>1
<1>3. /\ m \in Int /\ 1..m \subseteq Int /\ m \in 1..m /\ (1..m) \ {m} = 1..n
      /\ \A x \in 1..m : x <= m
  BY <1>1
<1> HIDE DEF n, m, t
<1>4. PICK f : Folds(base, s, n, f) /\ Fold(base, s) = f[1..n]
  BY <1>1, FoldIs
<1>5. PICK g : Folds(base, t, m, g) /\ Fold(base, t) = g[1..m]
  BY <1>2, FoldIs
<1>6. f[1..n] = g[1..n]
  BY <1>1, <1>2, <1>4, <1>5, FoldsAgree
<1>7. Max(1..m) = m
  BY <1>3, MaxOf
<1>8. g[1..m] = Step(base, t, g, 1..m)
  BY <1>5 DEF Folds
<1>9. 1..m # {}
  BY <1>3
<1>10. g[1..m] = Op(g[1..n], t[m])
  BY <1>3, <1>7, <1>8, <1>9 DEF Step
<1>11. Fold(base, t) = Op(Fold(base, s), e)
  BY <1>2, <1>4, <1>5, <1>6, <1>10
<1> QED
  BY <1>11 DEF t

(* A relation between a sequence and its fold that the base has, and every *)
(* operation keeps, holds of every sequence.                               *)
THEOREM FoldRelation ==
  ASSUME NEW base, NEW S, NEW R, <<base, <<>>>> \in R,
         \A a : \A s \in Seq(S), e \in S : <<a, s>> \in R => <<Op(a, e), Append(s, e)>> \in R
  PROVE  \A s \in Seq(S) : <<Fold(base, s), s>> \in R
<1> DEFINE T == {n \in Nat : \A s \in Seq(S) : Len(s) = n => <<Fold(base, s), s>> \in R}
<1>1. 0 \in T
  <2>1. \A s \in Seq(S) : Len(s) = 0 => s = <<>>
    BY EmptySeq
  <2> QED
    BY <2>1, FoldEmpty
<1>2. ASSUME NEW n \in T PROVE n + 1 \in T
  <2> SUFFICES ASSUME NEW s \in Seq(S), Len(s) = n + 1 PROVE <<Fold(base, s), s>> \in R
    OBVIOUS
  <2>1. s # <<>>
    BY EmptySeq
  <2>2. PICK t \in Seq(S), e \in S : s = Append(t, e)
    BY <2>1, SequenceEmptyOrAppend
  <2>3. Len(t) = n
    BY <2>2, AppendProperties, LenProperties
  <2>4. <<Fold(base, t), t>> \in R
    BY <2>3
  <2> HIDE DEF T
  <2>5. Fold(base, s) = Op(Fold(base, t), e)
    BY <2>2, FoldAppend
  <2> QED
    BY <2>2, <2>4, <2>5
<1>3. T \subseteq Nat
  OBVIOUS
<1>4. (\A n \in Nat : n \in T) => \A s \in Seq(S) : <<Fold(base, s), s>> \in R
  <2> SUFFICES ASSUME \A n \in Nat : n \in T, NEW s \in Seq(S) PROVE <<Fold(base, s), s>> \in R
    OBVIOUS
  <2>1. Len(s) \in Nat
    BY LenProperties
  <2> QED
    BY <2>1
<1> HIDE DEF T
<1> QED
  BY <1>1, <1>2, <1>3, <1>4, NatInd

(* In particular a set that has the base and that every operation keeps.   *)
THEOREM FoldInvariant ==
  ASSUME NEW base, NEW S, NEW P, base \in P, \A a \in P, e \in S : Op(a, e) \in P
  PROVE  \A s \in Seq(S) : Fold(base, s) \in P
<1> DEFINE R == P \X Seq(S)
<1>1. <<base, <<>>>> \in R
  BY EmptySeq
<1>2. \A a : \A s \in Seq(S), e \in S : <<a, s>> \in R => <<Op(a, e), Append(s, e)>> \in R
  BY AppendProperties
<1>3. \A a, s : <<a, s>> \in R => a \in P
  OBVIOUS
<1> HIDE DEF R
<1>4. \A s \in Seq(S) : <<Fold(base, s), s>> \in R
  BY <1>1, <1>2, FoldRelation
<1> QED
  BY <1>3, <1>4

=============================================================================
