------------------------------- MODULE Lemmas -------------------------------
(***************************************************************************)
(* Facts that the proofs share: induction on the natural numbers, stated   *)
(* with a set in the place of a predicate and proved from the              *)
(* well-foundedness of <; least and greatest elements; counting in         *)
(* sequences; the prefixes of a traversal.                                 *)
(***************************************************************************)
EXTENDS Objects, SequenceTheorems, FiniteSetTheorems, WellFoundedInduction, TLAPS

LEMMA LeastExists ==
  ASSUME NEW S, S \subseteq Nat, S # {}
  PROVE  \E x \in S : \A y \in S : x <= y
<1> DEFINE R == OpToRel(<, Nat)
<1>1. IsWellFoundedOn(R, Nat)
  BY NatLessThanWellFounded DEF OpToRel
<1>2. PICK x \in S : \A y \in S : ~(<<y, x>> \in R)
  <2> HIDE DEF R
  <2> QED
    BY <1>1, WFMin
<1>3. \A y \in S : x <= y
  <2> SUFFICES ASSUME NEW y \in S, y < x PROVE FALSE
    OBVIOUS
  <2>1. <<y, x>> \in R
    BY DEF OpToRel
  <2> QED
    BY <1>2, <2>1
<1> QED
  BY <1>3

(* A set of numbers with 0 and with the successor of each of its elements  *)
(* has every number: else there is a least one that it lacks.              *)
LEMMA NatInd ==
  ASSUME NEW S, S \subseteq Nat, 0 \in S, \A n \in S : n + 1 \in S
  PROVE  \A n \in Nat : n \in S
<1> DEFINE T == {n \in Nat : n \notin S}
<1> SUFFICES ASSUME T # {} PROVE FALSE
  OBVIOUS
<1>1. PICK x \in T : \A y \in T : x <= y
  <2>1. T \subseteq Nat
    OBVIOUS
  <2> HIDE DEF T
  <2> QED
    BY <2>1, LeastExists
<1>2. x \in Nat /\ x # 0 /\ x - 1 \in Nat /\ (x - 1) + 1 = x
  OBVIOUS
<1>3. x - 1 \in T
  BY <1>2
<1> QED
  BY <1>1, <1>2, <1>3

LEMMA MaxOf ==
  ASSUME NEW n \in Int, NEW T, T \subseteq Int, n \in T, \A x \in T : x <= n
  PROVE Max(T) = n
<1> DEFINE Top(x) == x \in T /\ \A y \in T : x >= y
<1>1. Top(n)
  OBVIOUS
<1>2. \A x : Top(x) => x = n
  OBVIOUS
<1>3. Max(T) = CHOOSE x : Top(x)
  BY DEF Max
<1> HIDE DEF Top
<1> QED
  BY <1>1, <1>2, <1>3

LEMMA MinOf ==
  ASSUME NEW n \in Int, NEW T, T \subseteq Int, n \in T, \A x \in T : n <= x
  PROVE  Min(T) = n
<1> DEFINE Bottom(x) == x \in T /\ \A y \in T : x <= y
<1>1. Bottom(n)
  OBVIOUS
<1>2. \A x : Bottom(x) => x = n
  OBVIOUS
<1>3. Min(T) = CHOOSE x : Bottom(x)
  BY DEF Min
<1> HIDE DEF Bottom
<1> QED
  BY <1>1, <1>2, <1>3

(* The least element of a set of natural numbers is one of them.           *)
LEMMA MinType ==
  ASSUME NEW S, S \subseteq Nat, S # {}
  PROVE  Min(S) \in S /\ \A y \in S : Min(S) <= y
<1>1. PICK x \in S : \A y \in S : x <= y
  BY LeastExists
<1>2. x \in Int /\ S \subseteq Int
  OBVIOUS
<1>3. Min(S) = x
  BY <1>1, <1>2, MinOf
<1> QED
  BY <1>1, <1>3

(* The greatest of a bounded set is one of them.                          *)
LEMMA MaxType ==
  ASSUME NEW n \in Nat, NEW S, S \subseteq 0..n, S # {}
  PROVE  Max(S) \in S /\ \A y \in S : y <= Max(S)
<1> DEFINE T == {i \in 0..n : n - i \in S}
<1>1. T \subseteq Nat /\ T # {} /\ \A y \in S : n - y \in T
  <2>1. \A z \in S : n - z \in T
    <3>1. \A z \in 0..n : n - z \in 0..n /\ n - (n - z) = z
      OBVIOUS
    <3> QED
      BY <3>1
  <2>2. T \subseteq Nat
    OBVIOUS
  <2> HIDE DEF T
  <2> QED
    BY <2>1, <2>2
<1>2. PICK i \in T : \A j \in T : i <= j
  BY <1>1, LeastExists
<1>3. n - i \in S /\ n - i \in Int /\ i \in 0..n
  OBVIOUS
<1>4. \A y \in S : y <= n - i
  <2> SUFFICES ASSUME NEW y \in S PROVE y <= n - i
    OBVIOUS
  <2>1. n - y \in T /\ y \in 0..n
    BY <1>1
  <2> HIDE DEF T
  <2> QED
    BY <1>2, <1>3, <2>1
<1>5. Max(S) = n - i
  <2>1. S \subseteq Int
    OBVIOUS
  <2> QED
    BY <1>3, <1>4, <2>1, MaxOf
<1> QED
  BY <1>3, <1>4, <1>5

-----------------------------------------------------------------------------
(* Counting an element of a sequence.                                      *)
LEMMA CountType ==
  ASSUME NEW S, NEW s \in Seq(S), NEW x
  PROVE  Count(s, x) \in Nat
<1>1. IsFiniteSet(1..Len(s))
  BY FS_Interval, LenProperties
<1>2. {i \in DOMAIN s : s[i] = x} \in SUBSET (1..Len(s))
  BY LenProperties
<1> QED
  BY <1>1, <1>2, FS_Subset, FS_CardinalityType DEF Count

LEMMA CountEmpty == \A x : Count(<<>>, x) = 0
<1>1. \A x : {i \in DOMAIN <<>> : <<>>[i] = x} = {}
  OBVIOUS
<1> QED
  BY <1>1, FS_EmptySet DEF Count

LEMMA CountAppend ==
  ASSUME NEW S, NEW s \in Seq(S), NEW e \in S, NEW x
  PROVE  Count(Append(s, e), x) = Count(s, x) + (IF e = x THEN 1 ELSE 0)
<1> DEFINE t == Append(s, e)
           n == Len(s) + 1
           old == {i \in DOMAIN s : s[i] = x}
           new == {i \in DOMAIN t : t[i] = x}
<1>1. /\ DOMAIN s = 1..Len(s) /\ DOMAIN t = 1..n /\ Len(s) \in Nat
      /\ \A i \in 1..Len(s) : t[i] = s[i]
      /\ t[n] = e
  BY AppendProperties, LenProperties
<1>2. IsFiniteSet(old) /\ Cardinality(old) \in Nat
  <2>1. IsFiniteSet(1..Len(s)) /\ old \in SUBSET (1..Len(s))
    BY <1>1, FS_Interval
  <2> QED
    BY <2>1, FS_Subset, FS_CardinalityType
<1> HIDE DEF t
<1>3. CASE e = x
  <2>1. new = old \cup {n} /\ n \notin old
    BY <1>1, <1>3
  <2>2. Cardinality(new) = Cardinality(old) + 1
    BY <1>2, <2>1, FS_AddElement
  <2> QED
    BY <1>3, <2>2 DEF Count, t
<1>4. CASE e # x
  <2>1. new = old
    BY <1>1, <1>4
  <2>2. Count(t, x) = Cardinality(new) /\ Count(s, x) = Cardinality(old)
    BY DEF Count
  <2>3. Count(s, x) \in Nat /\ Count(t, x) = Count(s, x)
    BY <1>2, <2>1, <2>2
  <2> QED
    BY <1>4, <2>3 DEF t
<1> QED
  BY <1>3, <1>4

(* A sequence is its front and its last element.                           *)
LEMMA FrontAndLast ==
  ASSUME NEW S, NEW s \in Seq(S), s # <<>>
  PROVE  Front(s) \in Seq(S) /\ Last(s) \in S /\ s = Append(Front(s), Last(s))
<1>1. PICK t \in Seq(S), e \in S : s = Append(t, e)
  BY SequenceEmptyOrAppend
<1>2. /\ Len(t) \in Nat /\ Len(s) = Len(t) + 1 /\ s[Len(s)] = e
      /\ \A i \in 1..Len(t) : s[i] = t[i]
  BY <1>1, AppendProperties, LenProperties
<1>3. \A i \in 1..(Len(s) - 1) : s[i] \in S
  BY <1>2, ElementOfSeq
<1>4. /\ Front(s) \in Seq(S) /\ Len(Front(s)) = Len(t)
      /\ \A i \in 1..Len(t) : Front(s)[i] = t[i]
  <2>1. /\ SubSeq(s, 1, Len(s) - 1) \in Seq(S)
        /\ Len(SubSeq(s, 1, Len(s) - 1)) = Len(t)
        /\ \A i \in 1..Len(t) : SubSeq(s, 1, Len(s) - 1)[i] = s[i]
    BY <1>2, <1>3, SubSeqProperties
  <2> QED
    BY <1>2, <2>1 DEF Front
<1>5. Front(s) = t
  BY <1>4, SeqEqual
<1> QED
  BY <1>1, <1>2, <1>5 DEF Last

LEMMA UnclosedAppend ==
  ASSUME NEW s \in Seq(Events), NEW e \in Events
  PROVE  /\ Unclosed(s) \in Int
         /\ e = Opened => Unclosed(Append(s, e)) = Unclosed(s) + 1
         /\ e = Closed => Unclosed(Append(s, e)) = Unclosed(s) - 1
         /\ e \notin {Opened, Closed} => Unclosed(Append(s, e)) = Unclosed(s)
<1>1. /\ Count(Append(s, e), Opened) = Count(s, Opened) + (IF e = Opened THEN 1 ELSE 0)
      /\ Count(Append(s, e), Closed) = Count(s, Closed) + (IF e = Closed THEN 1 ELSE 0)
  BY CountAppend
<1>2. Count(s, Opened) \in Nat /\ Count(s, Closed) \in Nat
  BY CountType
<1>3. Opened # Closed
  BY DEF Opened, Closed
<1> QED
  BY <1>1, <1>2, <1>3 DEF Unclosed

LEMMA PrefixOfAppend ==
  ASSUME NEW s \in Seq(Events), NEW e \in Events
  PROVE  /\ Len(Append(s, e)) = Len(s) + 1 /\ Len(s) \in Nat
         /\ \A k \in 1..Len(s) : SubSeq(Append(s, e), 1, k) = SubSeq(s, 1, k)
         /\ SubSeq(Append(s, e), 1, Len(s) + 1) = Append(s, e)
<1>1. /\ Len(Append(s, e)) = Len(s) + 1 /\ Len(s) \in Nat
      /\ Append(s, e) \in Seq(Events)
  BY AppendProperties, LenProperties
<1>2. Append(s, e) = s \o <<e>> /\ <<e>> \in Seq(Events)
  BY AppendIsConcat
<1>3. ASSUME NEW k \in 1..Len(s)
      PROVE  SubSeq(Append(s, e), 1, k) = SubSeq(s, 1, k)
  <2>1. 1 \in 1..Len(s)
    BY <1>1, <1>3
  <2> QED
    BY <1>2, <1>3, <2>1, SubSeqOfConcat1
<1>4. SubSeq(Append(s, e), 1, Len(s) + 1) = Append(s, e)
  BY <1>1, SubSeqFull
<1> QED
  BY <1>1, <1>3, <1>4

=============================================================================
