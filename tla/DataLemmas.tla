----------------------------- MODULE DataLemmas -----------------------------
(***************************************************************************)
(* Facts about the data the models are built from, for every value of it:  *)
(* the range and the injectivity of sequences that are used as ordered     *)
(* sets of departments, and what the folds of the community modules        *)
(* (SumFunctionOnSet, FlattenSeq) compute.  The folds are recursive; the   *)
(* library's induction theorems take an operator as parameter, so          *)
(* induction is done here through the well-foundedness of < on Nat, with a *)
(* set in place of the operator (InductiveSet).                            *)
(***************************************************************************)
EXTENDS Integers, Sequences, FiniteSets, Functions, SequencesExt,
        FiniteSetTheorems, FunctionTheorems, SequenceTheorems,
        WellFoundedInduction, TLAPS

-----------------------------------------------------------------------------
(* Sequences                                                               *)

\* The empty sequence has no elements and repeats none.
LEMMA EmptyFacts == Range(<<>>) = {} /\ IsInjective(<<>>)
BY DEF Range, IsInjective

\* A sequence without elements is the empty one.
LEMMA RangeEmpty ==
    ASSUME NEW S, NEW s \in Seq(S)
    PROVE  Range(s) = {} <=> s = <<>>
<1>1. CASE s = <<>>
  BY <1>1, EmptyFacts
<1>2. CASE s # <<>>
  <2>1. DOMAIN s = 1..Len(s) /\ Len(s) \in Nat /\ Len(s) # 0
    BY <1>2, EmptySeq
  <2>2. 1 \in DOMAIN s
    BY <2>1
  <2>3. s[1] \in Range(s)
    BY <2>2 DEF Range
  <2> QED
    BY <1>2, <2>3
<1> QED
  BY <1>1, <1>2

\* Append adds one element to the range and keeps a sequence without
\* repetitions so when the element is new.
LEMMA AppendFacts ==
    ASSUME NEW S, NEW s \in Seq(S), NEW e \in S
    PROVE  /\ Range(Append(s, e)) = Range(s) \cup {e}
           /\ IsInjective(s) /\ e \notin Range(s) => IsInjective(Append(s, e))
<1>1. /\ DOMAIN Append(s, e) = 1..(Len(s) + 1) /\ DOMAIN s = 1..Len(s)
      /\ Append(s, e)[Len(s) + 1] = e /\ Len(s) \in Nat
      /\ \A i \in 1..Len(s) : Append(s, e)[i] = s[i]
  BY AppendProperties
<1> DEFINE t == Append(s, e)
<1> HIDE DEF t
<1>2. Range(t) = Range(s) \cup {e}
  BY <1>1 DEF Range, t
<1>3. ASSUME IsInjective(s), e \notin Range(s)
      PROVE  IsInjective(t)
  BY <1>1, <1>3 DEF Range, IsInjective, t
<1> QED
  BY <1>2, <1>3 DEF t

\* Two elements, one behind the other.
LEMMA ConcatPair ==
    ASSUME NEW a, NEW b
    PROVE  <<a>> \o <<b>> = <<a, b>>
<1> DEFINE s == <<a>> \o <<b>>
<1>1. <<a>> \in Seq({a, b}) /\ <<b>> \in Seq({a, b}) /\ Len(<<a>>) = 1 /\ Len(<<b>>) = 1
  OBVIOUS
<1>2. s \in Seq({a, b}) /\ Len(s) = 2 /\ s[1] = a /\ s[2] = b
  BY <1>1, ConcatProperties
<1>3. <<a, b>> \in Seq({a, b}) /\ Len(<<a, b>>) = 2 /\ <<a, b>>[1] = a /\ <<a, b>>[2] = b
  OBVIOUS
<1> HIDE DEF s
<1>4. \A i \in 1..2 : i = 1 \/ i = 2
  OBVIOUS
<1>5. \A i \in 1..2 : s[i] = <<a, b>>[i]
  BY <1>2, <1>3, <1>4
<1>6. s = <<a, b>>
  BY <1>2, <1>3, <1>5, SeqEqual
<1> QED
  BY <1>6 DEF s

\* What is left of two.
LEMMA TailPair ==
    ASSUME NEW a, NEW b
    PROVE  Tail(<<a, b>>) = <<b>>
<1>1. <<a, b>> \in Seq({a, b}) /\ Len(<<a, b>>) = 2 /\ <<a, b>> # <<>> /\ <<a, b>>[2] = b
  OBVIOUS
<1>2. Tail(<<a, b>>) \in Seq({a, b}) /\ Len(Tail(<<a, b>>)) = 1 /\ Tail(<<a, b>>)[1] = b
  BY <1>1, HeadTailProperties
<1>3. <<b>> \in Seq({a, b}) /\ Len(<<b>>) = 1 /\ <<b>>[1] = b
  OBVIOUS
<1>4. \A i \in 1..1 : i = 1
  OBVIOUS
<1>5. \A i \in 1..1 : Tail(<<a, b>>)[i] = <<b>>[i]
  BY <1>2, <1>3, <1>4
<1> QED
  BY <1>2, <1>3, <1>5, SeqEqual

\* Cutting a sequence in two splits its range, without overlap when nothing is
\* repeated: a batch and what is left of its group.
LEMMA SplitFacts ==
    ASSUME NEW S, NEW s \in Seq(S), NEW k \in 0..Len(s)
    PROVE  /\ SubSeq(s, 1, k) \in Seq(S) /\ SubSeq(s, k + 1, Len(s)) \in Seq(S)
           /\ Len(SubSeq(s, 1, k)) = k
           /\ Range(s) = Range(SubSeq(s, 1, k)) \cup Range(SubSeq(s, k + 1, Len(s)))
           /\ IsInjective(s) =>
                 /\ IsInjective(SubSeq(s, 1, k))
                 /\ IsInjective(SubSeq(s, k + 1, Len(s)))
                 /\ Range(SubSeq(s, 1, k)) \cap Range(SubSeq(s, k + 1, Len(s))) = {}
<1> DEFINE a == SubSeq(s, 1, k)
           b == SubSeq(s, k + 1, Len(s))
<1>1. /\ DOMAIN s = 1..Len(s) /\ Len(s) \in Nat /\ k \in Nat /\ k <= Len(s)
      /\ \A i \in 1..Len(s) : s[i] \in S
  OBVIOUS
<1>2. /\ a \in Seq(S) /\ Len(a) = k /\ \A i \in 1..k : a[i] = s[i]
  BY <1>1, SubSeqProperties
<1>3. /\ b \in Seq(S) /\ Len(b) = Len(s) - k
      /\ \A i \in 1..(Len(s) - k) : b[i] = s[k + i]
  <2>1. /\ k + 1 \in Int /\ Len(s) \in Int
        /\ \A i \in (k + 1)..Len(s) : s[i] \in S
    BY <1>1
  <2>2. /\ b \in Seq(S)
        /\ Len(b) = IF k + 1 <= Len(s) THEN Len(s) - (k + 1) + 1 ELSE 0
        /\ \A i \in 1..(Len(s) - (k + 1) + 1) : b[i] = s[(k + 1) + i - 1]
    BY <2>1, SubSeqProperties
  <2>3. \A i \in 1..(Len(s) - k) : (k + 1) + i - 1 = k + i
    BY <1>1
  <2>4. Len(s) - (k + 1) + 1 = Len(s) - k
    BY <1>1
  <2> HIDE DEF b
  <2>5. ASSUME NEW i \in 1..(Len(s) - k)
        PROVE  b[i] = s[k + i]
    <3>1. i \in 1..(Len(s) - (k + 1) + 1) /\ (k + 1) + i - 1 = k + i
      BY <2>3, <2>4
    <3>2. b[i] = s[(k + 1) + i - 1]
      BY <2>2, <3>1
    <3> QED
      BY <3>1, <3>2
  <2>6. Len(b) = Len(s) - k
    <3>1. CASE k + 1 <= Len(s)
      BY <2>2, <2>4, <3>1
    <3>2. CASE ~(k + 1 <= Len(s))
      <4>1. Len(b) = 0
        BY <2>2, <3>2
      <4>2. Len(s) - k = 0
        <5>1. \A m, n \in Nat : m <= n /\ ~(m + 1 <= n) => n - m = 0
          OBVIOUS
        <5>2. Len(s) \in Nat /\ k \in Nat /\ k <= Len(s)
          BY <1>1
        <5> QED
          BY <3>2, <5>1, <5>2
      <4> QED
        BY <4>1, <4>2
    <3> QED
      BY <3>1, <3>2
  <2> QED
    BY <2>2, <2>5, <2>6
<1> HIDE DEF a, b
<1>4. DOMAIN a = 1..k /\ DOMAIN b = 1..(Len(s) - k)
  BY <1>2, <1>3
<1>5. Range(s) = Range(a) \cup Range(b)
  <2>1. ASSUME NEW i \in 1..Len(s)
        PROVE  s[i] \in Range(a) \cup Range(b)
    <3>1. CASE i <= k
      BY <1>1, <1>2, <1>4, <3>1 DEF Range
    <3>2. CASE i > k
      <4>1. i - k \in 1..(Len(s) - k) /\ k + (i - k) = i
        BY <1>1, <3>2
      <4> QED
        BY <1>3, <1>4, <4>1 DEF Range
    <3> QED
      BY <1>1, <3>1, <3>2
  <2>2. Range(a) \subseteq Range(s)
    BY <1>1, <1>2, <1>4 DEF Range
  <2>3. Range(b) \subseteq Range(s)
    <3>1. ASSUME NEW i \in 1..(Len(s) - k)
          PROVE  k + i \in 1..Len(s)
      BY <1>1
    <3> QED
      BY <1>1, <1>3, <1>4, <3>1 DEF Range
  <2> QED
    BY <1>1, <2>1, <2>2, <2>3 DEF Range
<1>6. ASSUME IsInjective(s)
      PROVE  IsInjective(a) /\ IsInjective(b) /\ Range(a) \cap Range(b) = {}
  <2>1. \A i, j \in 1..Len(s) : s[i] = s[j] => i = j
    BY <1>1, <1>6 DEF IsInjective
  <2>2. IsInjective(a)
    BY <1>1, <1>2, <1>4, <2>1 DEF IsInjective
  <2>3. ASSUME NEW i \in 1..(Len(s) - k), NEW j \in 1..(Len(s) - k), b[i] = b[j]
        PROVE  i = j
    <3>1. k + i \in 1..Len(s) /\ k + j \in 1..Len(s)
      BY <1>1
    <3>2. s[k + i] = s[k + j]
      BY <1>3, <2>3
    <3>3. k + i = k + j
      BY <2>1, <3>1, <3>2
    <3> QED
      BY <1>1, <3>3
  <2>4. ASSUME NEW i \in 1..k, NEW j \in 1..(Len(s) - k), a[i] = b[j]
        PROVE  FALSE
    <3>1. i \in 1..Len(s) /\ k + j \in 1..Len(s) /\ i # k + j
      BY <1>1
    <3>2. s[i] = s[k + j]
      BY <1>2, <1>3, <2>4
    <3> QED
      BY <2>1, <3>1, <3>2
  <2> QED
    BY <1>4, <2>2, <2>3, <2>4 DEF IsInjective, Range
<1> QED
  BY <1>2, <1>3, <1>5, <1>6 DEF a, b

\* Taking the head off a sequence splits its range likewise.
LEMMA HeadTailFacts ==
    ASSUME NEW S, NEW s \in Seq(S), s # <<>>
    PROVE  /\ Head(s) \in S /\ Tail(s) \in Seq(S)
           /\ Range(s) = {Head(s)} \cup Range(Tail(s))
           /\ IsInjective(s) => IsInjective(Tail(s)) /\ Head(s) \notin Range(Tail(s))
<1>1. Len(s) \in Nat /\ Len(s) >= 1 /\ 1 \in 0..Len(s)
  BY EmptySeq
<1>2. Tail(s) = SubSeq(s, 1 + 1, Len(s))
  BY TailIsSubSeq
<1>3. Head(s) \in S /\ Tail(s) \in Seq(S)
  BY HeadTailProperties
<1> DEFINE a == SubSeq(s, 1, 1)
<1>4. a \in Seq(S) /\ Len(a) = 1 /\ a[1] = s[1]
  BY <1>1, SplitFacts, SubSeqProperties
<1>5. Range(a) = {Head(s)}
  <2>1. DOMAIN a = 1..1 /\ Head(s) = s[1]
    BY <1>4
  <2> QED
    BY <1>4, <2>1 DEF Range
<1> DEFINE b == SubSeq(s, 1 + 1, Len(s))
<1>6. /\ Range(s) = Range(a) \cup Range(b)
      /\ IsInjective(s) => IsInjective(b) /\ Range(a) \cap Range(b) = {}
  <2> HIDE DEF a, b
  <2>1. \A k \in 0..Len(s) :
           /\ Range(s) = Range(SubSeq(s, 1, k)) \cup Range(SubSeq(s, k + 1, Len(s)))
           /\ IsInjective(s) =>
                 /\ IsInjective(SubSeq(s, k + 1, Len(s)))
                 /\ Range(SubSeq(s, 1, k)) \cap Range(SubSeq(s, k + 1, Len(s))) = {}
    BY SplitFacts
  <2> QED
    BY <1>1, <2>1 DEF a, b
<1>7. b = Tail(s)
  BY <1>2
<1> HIDE DEF a, b
<1> QED
  BY <1>3, <1>5, <1>6, <1>7

\* Concatenation joins the ranges.
LEMMA ConcatFacts ==
    ASSUME NEW S, NEW s \in Seq(S), NEW t \in Seq(S)
    PROVE  /\ s \o t \in Seq(S)
           /\ Range(s \o t) = Range(s) \cup Range(t)
           /\ IsInjective(s) /\ IsInjective(t) /\ Range(s) \cap Range(t) = {}
                 => IsInjective(s \o t)
<1>1. s \o t \in Seq(S) /\ Range(s \o t) = Range(s) \cup Range(t)
  BY ConcatProperties, RangeConcatenation
<1>2. ASSUME IsInjective(s), IsInjective(t), Range(s) \cap Range(t) = {},
             NEW i \in DOMAIN (s \o t), NEW j \in DOMAIN (s \o t),
             (s \o t)[i] = (s \o t)[j]
      PROVE  i = j
  <2>1. /\ DOMAIN s = 1..Len(s) /\ DOMAIN t = 1..Len(t)
        /\ Len(s) \in Nat /\ Len(t) \in Nat
        /\ i \in 1..(Len(s) + Len(t)) /\ j \in 1..(Len(s) + Len(t))
    BY <1>1, ConcatProperties
  <2> DEFINE left(k) == k \in DOMAIN s /\ (s \o t)[k] = s[k]
             right(k) == k - Len(s) \in DOMAIN t /\ (s \o t)[k] = t[k - Len(s)]
  <2>2. (left(i) \/ right(i)) /\ (left(j) \/ right(j))
    BY <2>1, ConcatProperties
  <2>3. \A k : left(k) => (s \o t)[k] \in Range(s)
    BY DEF Range
  <2>4. \A k : right(k) => (s \o t)[k] \in Range(t)
    BY DEF Range
  <2>5. CASE left(i) /\ left(j)
    BY <1>2, <2>5 DEF IsInjective
  <2>6. CASE right(i) /\ right(j)
    <3>1. i - Len(s) = j - Len(s)
      BY <1>2, <2>6 DEF IsInjective
    <3> QED
      BY <2>1, <3>1
  <2> HIDE DEF left, right
  <2>7. ~(left(i) /\ right(j)) /\ ~(right(i) /\ left(j))
    BY <1>2, <2>3, <2>4
  <2> QED
    BY <2>2, <2>5, <2>6, <2>7
<1> QED
  BY <1>1, <1>2 DEF IsInjective

\* A sequence has at most as many elements as positions.
LEMMA RangeFinite ==
    ASSUME NEW S, NEW s \in Seq(S)
    PROVE  IsFiniteSet(Range(s)) /\ Cardinality(Range(s)) <= Len(s)
<1>1. s \in Surjection(1..Len(s), Range(s))
  BY Fun_RangeProperties
<1>2. Len(s) \in Nat
  OBVIOUS
<1>3. IsFiniteSet(1..Len(s)) /\ Cardinality(1..Len(s)) = Len(s)
  <2>1. 1 \in Int /\ Len(s) \in Int
    BY <1>2
  <2>2. /\ IsFiniteSet(1..Len(s))
        /\ Cardinality(1..Len(s)) = IF 1 > Len(s) THEN 0 ELSE Len(s) - 1 + 1
    BY <2>1, FS_Interval
  <2> QED
    BY <1>2, <2>2
<1> QED
  BY <1>1, <1>2, <1>3, FS_Surjection

-----------------------------------------------------------------------------
(* Order                                                                   *)

\* No element stands behind one it has to stand before, R being a set of pairs.
Sorted(s, R) == \A i, j \in DOMAIN s : i < j => <<s[i], s[j]>> \in R
Precedes(s, t, R) == \A a \in Range(s), b \in Range(t) : <<a, b>> \in R

\* Nothing stands before or behind an empty sequence.
LEMMA EmptySorted ==
    \A s, R : Sorted(<<>>, R) /\ Precedes(<<>>, s, R) /\ Precedes(s, <<>>, R)
BY EmptyFacts DEF Sorted, Precedes

\* The parts of a sorted sequence are sorted and in their order.
LEMMA SplitSorted ==
    ASSUME NEW S, NEW s \in Seq(S), NEW k \in 0..Len(s), NEW R, Sorted(s, R)
    PROVE  /\ Sorted(SubSeq(s, 1, k), R) /\ Sorted(SubSeq(s, k + 1, Len(s)), R)
           /\ Precedes(SubSeq(s, 1, k), SubSeq(s, k + 1, Len(s)), R)
<1> DEFINE a == SubSeq(s, 1, k)
           b == SubSeq(s, k + 1, Len(s))
<1>1. /\ DOMAIN s = 1..Len(s) /\ Len(s) \in Nat /\ k \in Nat /\ k <= Len(s)
      /\ \A i \in 1..Len(s) : s[i] \in S
  OBVIOUS
<1>2. /\ DOMAIN a = 1..k /\ \A i \in 1..k : a[i] = s[i]
      /\ DOMAIN b = 1..(Len(s) - k) /\ \A i \in 1..(Len(s) - k) : b[i] = s[k + i]
  BY <1>1, SubSeqProperties
<1> HIDE DEF a, b
<1>3. Sorted(a, R)
  BY <1>1, <1>2 DEF Sorted
<1>4. ASSUME NEW i \in DOMAIN b, NEW j \in DOMAIN b, i < j
      PROVE  <<b[i], b[j]>> \in R
  <2>1. k + i \in DOMAIN s /\ k + j \in DOMAIN s /\ k + i < k + j
    BY <1>1, <1>2, <1>4
  <2>2. b[i] = s[k + i] /\ b[j] = s[k + j]
    BY <1>2
  <2> QED
    BY <2>1, <2>2 DEF Sorted
<1>5. Precedes(a, b, R)
  <2>1. ASSUME NEW i \in 1..k, NEW j \in 1..(Len(s) - k)
        PROVE  <<a[i], b[j]>> \in R
    <3>1. i \in DOMAIN s /\ k + j \in DOMAIN s /\ i < k + j
      BY <1>1, <2>1
    <3>2. a[i] = s[i] /\ b[j] = s[k + j]
      BY <1>2
    <3> QED
      BY <3>1, <3>2 DEF Sorted
  <2> QED
    BY <1>2, <2>1 DEF Precedes, Range
<1>6. Sorted(b, R)
  BY <1>4 DEF Sorted
<1> QED
  BY <1>3, <1>5, <1>6 DEF a, b

\* Taking the first element off a sorted sequence
LEMMA TailSorted ==
    ASSUME NEW S, NEW s \in Seq(S), s # <<>>, NEW R, Sorted(s, R)
    PROVE  Sorted(Tail(s), R) /\ \A b \in Range(Tail(s)) : <<Head(s), b>> \in R
<1>1. Len(s) \in Nat /\ Len(s) >= 1 /\ 1 \in 0..Len(s)
  BY EmptySeq
<1>2. Tail(s) = SubSeq(s, 1 + 1, Len(s))
  BY TailIsSubSeq
<1>3. Sorted(Tail(s), R) /\ Precedes(SubSeq(s, 1, 1), Tail(s), R)
  BY <1>1, <1>2, SplitSorted
<1>4. Head(s) \in Range(SubSeq(s, 1, 1))
  BY <1>1, SubSeqProperties DEF Range
<1> QED
  BY <1>3, <1>4 DEF Precedes

\* A sequence behind a sorted one that precedes it
LEMMA ConcatSorted ==
    ASSUME NEW S, NEW s \in Seq(S), NEW t \in Seq(S), NEW R,
           Sorted(s, R), Sorted(t, R), Precedes(s, t, R)
    PROVE  Sorted(s \o t, R)
<1> DEFINE u == s \o t
<1>1. /\ DOMAIN s = 1..Len(s) /\ DOMAIN t = 1..Len(t) /\ Len(s) \in Nat /\ Len(t) \in Nat
      /\ DOMAIN u = 1..(Len(s) + Len(t))
      /\ \A i \in 1..(Len(s) + Len(t)) :
            u[i] = IF i <= Len(s) THEN s[i] ELSE t[i - Len(s)]
  BY ConcatProperties
<1> HIDE DEF u
<1>2. ASSUME NEW i \in DOMAIN u, NEW j \in DOMAIN u, i < j
      PROVE  <<u[i], u[j]>> \in R
  <2>1. CASE j <= Len(s)
    BY <1>1, <1>2, <2>1 DEF Sorted
  <2>2. CASE i > Len(s)
    <3>1. i - Len(s) \in DOMAIN t /\ j - Len(s) \in DOMAIN t /\ i - Len(s) < j - Len(s)
      BY <1>1, <1>2, <2>2
    <3>2. u[i] = t[i - Len(s)] /\ u[j] = t[j - Len(s)]
      BY <1>1, <1>2, <2>2
    <3> QED
      BY <3>1, <3>2 DEF Sorted
  <2>3. CASE i <= Len(s) /\ j > Len(s)
    <3>1. i \in DOMAIN s /\ j - Len(s) \in DOMAIN t
      BY <1>1, <1>2, <2>3
    <3>2. u[i] = s[i] /\ u[j] = t[j - Len(s)]
      BY <1>1, <1>2, <2>3
    <3> QED
      BY <3>1, <3>2 DEF Precedes, Range
  <2> QED
    BY <1>1, <1>2, <2>1, <2>2, <2>3
<1> QED
  BY <1>2 DEF Sorted, u

\* One element behind a sorted sequence
LEMMA AppendSorted ==
    ASSUME NEW S, NEW s \in Seq(S), NEW e \in S, NEW R,
           Sorted(s, R), \A a \in Range(s) : <<a, e>> \in R
    PROVE  Sorted(Append(s, e), R)
<1>1. /\ DOMAIN Append(s, e) = 1..(Len(s) + 1) /\ DOMAIN s = 1..Len(s)
      /\ Append(s, e)[Len(s) + 1] = e /\ Len(s) \in Nat
      /\ \A i \in 1..Len(s) : Append(s, e)[i] = s[i]
  BY AppendProperties
<1> DEFINE u == Append(s, e)
<1> HIDE DEF u
<1>2. ASSUME NEW i \in DOMAIN u, NEW j \in DOMAIN u, i < j
      PROVE  <<u[i], u[j]>> \in R
  <2>1. i \in DOMAIN s /\ u[i] = s[i] /\ s[i] \in Range(s)
    BY <1>1, <1>2 DEF u, Range
  <2>2. CASE j <= Len(s)
    BY <1>1, <1>2, <2>1, <2>2 DEF Sorted, u
  <2>3. CASE j = Len(s) + 1
    BY <1>1, <2>1, <2>3 DEF u
  <2> QED
    BY <1>1, <1>2, <2>2, <2>3 DEF u
<1> QED
  BY <1>2 DEF Sorted, u

-----------------------------------------------------------------------------
(* Induction, sums and flattening                                          *)

NatLess == {p \in Nat \X Nat : p[1] < p[2]}

\* Every non-empty set of natural numbers has a least element.
LEMMA LeastNat ==
    ASSUME NEW T \in SUBSET Nat, T # {}
    PROVE  \E n \in T : \A m \in T : n <= m
<1>1. IsWellFoundedOn(NatLess, Nat)
  BY NatLessThanWellFounded DEF OpToRel, NatLess
<1>2. \E x \in T : \A y \in T : ~ (<<y, x>> \in NatLess)
  BY <1>1, WFMin
<1>3. PICK x \in T : \A y \in T : ~ (<<y, x>> \in NatLess)
  BY <1>2
<1>4. x \in Nat /\ T \subseteq Nat
  OBVIOUS
<1>5. \A y \in T : ~(y < x)
  BY <1>3, <1>4 DEF NatLess
<1> QED
  BY <1>4, <1>5

\* ... and every non-empty bounded one a greatest.
LEMMA GreatestNat ==
    ASSUME NEW k \in Nat, NEW T \in SUBSET (0..k), T # {}
    PROVE  \E n \in T : \A m \in T : m <= n
<1> DEFINE D == {k - n : n \in T}
<1>1. D \in SUBSET Nat /\ D # {}
  <2>1. \A n \in T : k - n \in Nat
    OBVIOUS
  <2>2. PICK n \in T : TRUE
    OBVIOUS
  <2>3. k - n \in D
    BY <2>2
  <2> QED
    BY <2>1, <2>3
<1>2. PICK d \in D : \A e \in D : d <= e
  BY <1>1, LeastNat
<1>3. PICK n \in T : d = k - n
  BY <1>2
<1>4. \A m \in T : k - n <= k - m
  BY <1>2, <1>3
<1> QED
  BY <1>4

\* The Max of the community modules is the greatest element.
LEMMA MaxFacts ==
    ASSUME NEW k \in Nat, NEW T \in SUBSET (0..k), T # {}
    PROVE  Max(T) \in T /\ \A m \in T : m <= Max(T)
<1>1. \E n \in T : \A m \in T : n >= m
  BY GreatestNat
<1> QED
  BY <1>1 DEF Max

\* Well-founded sets of natural numbers give induction without an operator
\* parameter: a set that holds 0 and every successor holds everything.
LEMMA InductiveSet ==
    ASSUME NEW P \in SUBSET Nat, 0 \in P, \A n \in P : n + 1 \in P
    PROVE  P = Nat
<1>1. SUFFICES ASSUME Nat \ P # {} PROVE FALSE
  OBVIOUS
<1>2. PICK n \in Nat \ P : \A m \in Nat \ P : n <= m
  BY <1>1, LeastNat
<1>3. n # 0 /\ n - 1 \in Nat
  BY <1>2
<1>4. n - 1 \in P
  BY <1>2, <1>3
<1> QED
  BY <1>2, <1>3, <1>4

-----------------------------------------------------------------------------
Chosen(s) == CHOOSE x \in s : TRUE
Others(s) == s \ {Chosen(s)}
SumStep(f, g, s) == IF s = {} THEN 0 ELSE f[Chosen(s)] + g[Others(s)]
IsSum(f, S, g) == g = [s \in SUBSET S |-> SumStep(f, g, s)]

\* SumFunctionOnSet is the solution of its recursion over the subsets of S.
LEMMA SumUnfold ==
    ASSUME NEW f, NEW S
    PROVE  SumFunctionOnSet(f, S) = (CHOOSE g : IsSum(f, S, g))[S]
BY DEF SumFunctionOnSet, FoldFunctionOnSet, MapThenFoldSet, IsSum, SumStep, Chosen, Others

\* A sum depends on nothing but the values it adds up.
LEMMA SumCongruence ==
    ASSUME NEW S, NEW f, NEW h, \A x \in S : f[x] = h[x]
    PROVE  SumFunctionOnSet(f, S) = SumFunctionOnSet(h, S)
<1>1. ASSUME NEW g, NEW s \in SUBSET S
      PROVE  SumStep(f, g, s) = SumStep(h, g, s)
  BY <1>1 DEF SumStep, Chosen
<1>2. \A g : IsSum(f, S, g) <=> IsSum(h, S, g)
  BY <1>1 DEF IsSum
<1>3. (CHOOSE g : IsSum(f, S, g)) = (CHOOSE g : IsSum(h, S, g))
  BY <1>2
<1> QED
  BY <1>3, SumUnfold

Upto(S, n) == {s \in SUBSET S : Cardinality(s) <= n}

\* The sum over nothing is 0.
LEMMA SumEmpty == \A f : SumFunctionOnSet(f, {}) = 0
<1> TAKE f
<1> DEFINE zero == [s \in SUBSET {} |-> 0]
<1>1. IsSum(f, {}, zero)
  BY DEF IsSum, SumStep
<1>2. IsSum(f, {}, CHOOSE g : IsSum(f, {}, g))
  BY <1>1
<1>3. (CHOOSE g : IsSum(f, {}, g))[{}] = SumStep(f, CHOOSE g : IsSum(f, {}, g), {})
  BY <1>2 DEF IsSum
<1> QED
  BY <1>3, SumUnfold DEF SumStep

\* The recursion of a sum goes to a smaller set.
LEMMA RestSmaller ==
    ASSUME NEW S, IsFiniteSet(S), NEW s \in SUBSET S, s # {}
    PROVE  /\ Chosen(s) \in s /\ Others(s) \in SUBSET S
           /\ Cardinality(s) \in Nat
           /\ Cardinality(Others(s)) = Cardinality(s) - 1
<1>1. IsFiniteSet(s)
  BY FS_Subset
<1>2. Chosen(s) \in s
  BY DEF Chosen
<1> QED
  BY <1>1, <1>2, FS_RemoveElement, FS_CardinalityType DEF Others

\* The recursion has a solution, built up by the size of the subsets.
LEMMA SumExists ==
    ASSUME NEW S, IsFiniteSet(S), NEW f
    PROVE  \E g : IsSum(f, S, g)
<1> DEFINE Solves(g, n) == g = [s \in Upto(S, n) |-> SumStep(f, g, s)]
           P == {n \in Nat : \E g : Solves(g, n)}
<1>1. 0 \in P
  <2>1. ASSUME NEW s \in Upto(S, 0)
        PROVE  s = {}
    <3>1. IsFiniteSet(s) /\ Cardinality(s) <= 0
      BY <2>1, FS_Subset DEF Upto
    <3> QED
      BY <3>1, FS_CardinalityType, FS_EmptySet
  <2>2. Solves([s \in Upto(S, 0) |-> 0], 0)
    BY <2>1 DEF SumStep
  <2> QED
    BY <2>2
<1>2. ASSUME NEW n \in P
      PROVE  n + 1 \in P
  <2>1. PICK g : Solves(g, n)
    OBVIOUS
  <2> DEFINE h == [s \in Upto(S, n + 1) |-> SumStep(f, g, s)]
  <2>2. ASSUME NEW s \in Upto(S, n + 1)
        PROVE  SumStep(f, g, s) = SumStep(f, h, s)
    <3>1. CASE s = {}
      BY <3>1 DEF SumStep
    <3>2. CASE s # {}
      <4>1. Others(s) \in Upto(S, n) /\ Others(s) \in Upto(S, n + 1)
        BY <3>2, RestSmaller DEF Upto
      <4>2. g[Others(s)] = SumStep(f, g, Others(s))
        BY <2>1, <4>1
      <4>3. h[Others(s)] = SumStep(f, g, Others(s))
        BY <4>1
      <4> QED
        BY <3>2, <4>2, <4>3 DEF SumStep
    <3> QED
      BY <3>1, <3>2
  <2>3. Solves(h, n + 1)
    BY <2>2
  <2> HIDE DEF h
  <2>4. \E k : Solves(k, n + 1)
    BY <2>3
  <2> QED
    BY <2>4
<1>3. P = Nat
  BY <1>1, <1>2, InductiveSet
<1>4. Cardinality(S) \in Nat
  BY FS_CardinalityType
<1>5. PICK g : Solves(g, Cardinality(S))
  BY <1>3, <1>4
<1>6. Upto(S, Cardinality(S)) = SUBSET S
  BY FS_Subset DEF Upto
<1> QED
  BY <1>5, <1>6 DEF IsSum

\* A finite sum of natural numbers is one.
LEMMA SumType ==
    ASSUME NEW S, IsFiniteSet(S), NEW f, \A x \in S : f[x] \in Nat
    PROVE  SumFunctionOnSet(f, S) \in Nat
<1> DEFINE g == CHOOSE g : IsSum(f, S, g)
           P == {n \in Nat : \A s \in Upto(S, n) : g[s] \in Nat}
<1>1. \A s \in SUBSET S : g[s] = SumStep(f, g, s)
  <2>1. IsSum(f, S, g)
    BY SumExists
  <2> QED
    BY <2>1 DEF IsSum
<1> HIDE DEF g
<1>2. 0 \in P
  <2>1. ASSUME NEW s \in Upto(S, 0)
        PROVE  g[s] = 0
    <3>1. s \in SUBSET S /\ IsFiniteSet(s) /\ Cardinality(s) <= 0
      BY <2>1, FS_Subset DEF Upto
    <3>2. s = {}
      BY <3>1, FS_CardinalityType, FS_EmptySet
    <3> QED
      BY <1>1, <3>1, <3>2 DEF SumStep
  <2> QED
    BY <2>1
<1>3. ASSUME NEW n \in P
      PROVE  n + 1 \in P
  <2>1. ASSUME NEW s \in Upto(S, n + 1)
        PROVE  g[s] \in Nat
    <3>1. CASE s = {}
      BY <1>1, <3>1 DEF SumStep
    <3>2. CASE s # {}
      <4>1. Others(s) \in Upto(S, n) /\ Chosen(s) \in S /\ s \in SUBSET S
        BY <3>2, RestSmaller DEF Upto
      <4>2. g[Others(s)] \in Nat /\ f[Chosen(s)] \in Nat
        BY <4>1
      <4> QED
        BY <1>1, <3>2, <4>1, <4>2 DEF SumStep
    <3> QED
      BY <3>1, <3>2
  <2> QED
    BY <2>1
<1>4. P = Nat
  BY <1>2, <1>3, InductiveSet
<1>5. S \in Upto(S, Cardinality(S)) /\ Cardinality(S) \in Nat
  BY FS_CardinalityType DEF Upto
<1>6. g[S] \in Nat
  BY <1>4, <1>5
<1> QED
  BY <1>6, SumUnfold DEF g

-----------------------------------------------------------------------------
FlattenStep(ss, g, i) == IF i = 1 THEN ss[i] ELSE g[i - 1] \o ss[i]
IsFlatten(ss, g) == g = [i \in 1..Len(ss) |-> FlattenStep(ss, g, i)]
Flattened(ss) == CHOOSE g : IsFlatten(ss, g)

\* FlattenSeq is the solution of its recursion over the positions.
LEMMA FlattenUnfold ==
    ASSUME NEW ss
    PROVE  FlattenSeq(ss) = IF Len(ss) = 0 THEN ss ELSE Flattened(ss)[Len(ss)]
BY DEF FlattenSeq, Flattened, IsFlatten, FlattenStep

\* That recursion has a solution.
LEMMA FlattenExists ==
    ASSUME NEW S, NEW ss \in Seq(S)
    PROVE  IsFlatten(ss, Flattened(ss))
<1> DEFINE Solves(g, n) == g = [i \in 1..n |-> FlattenStep(ss, g, i)]
           P == {n \in Nat : \E g : Solves(g, n)}
<1>1. 0 \in P
  <2>1. Solves([i \in 1..0 |-> 0], 0)
    OBVIOUS
  <2> QED
    BY <2>1
<1>2. ASSUME NEW n \in P
      PROVE  n + 1 \in P
  <2>1. PICK g : Solves(g, n)
    OBVIOUS
  <2> DEFINE h == [i \in 1..(n + 1) |-> FlattenStep(ss, g, i)]
  <2>2. ASSUME NEW i \in 1..(n + 1)
        PROVE  FlattenStep(ss, g, i) = FlattenStep(ss, h, i)
    <3>1. CASE i = 1
      BY <3>1 DEF FlattenStep
    <3>2. CASE i # 1
      <4>1. i - 1 \in 1..n /\ i - 1 \in 1..(n + 1)
        BY <3>2
      <4>2. g[i - 1] = FlattenStep(ss, g, i - 1)
        BY <2>1, <4>1
      <4>3. h[i - 1] = FlattenStep(ss, g, i - 1)
        BY <4>1
      <4> QED
        BY <3>2, <4>2, <4>3 DEF FlattenStep
    <3> QED
      BY <3>1, <3>2
  <2>3. Solves(h, n + 1)
    BY <2>2
  <2> HIDE DEF h
  <2>4. \E k : Solves(k, n + 1)
    BY <2>3
  <2> QED
    BY <2>4
<1>3. P = Nat
  BY <1>1, <1>2, InductiveSet
<1>4. Len(ss) \in Nat
  OBVIOUS
<1>5. \E g : Solves(g, Len(ss))
  BY <1>3, <1>4
<1> QED
  BY <1>5 DEF IsFlatten, Flattened

\* ... and so FlattenSeq satisfies it.
LEMMA FlattenEquation ==
    ASSUME NEW S, NEW ss \in Seq(S), NEW i \in 1..Len(ss)
    PROVE  Flattened(ss)[i] = IF i = 1 THEN ss[1]
                              ELSE Flattened(ss)[i - 1] \o ss[i]
<1>1. IsFlatten(ss, Flattened(ss))
  BY FlattenExists
<1>2. Flattened(ss) = [j \in 1..Len(ss) |-> FlattenStep(ss, Flattened(ss), j)]
  BY <1>1 DEF IsFlatten
<1>3. Flattened(ss)[i] = FlattenStep(ss, Flattened(ss), i)
  BY <1>2
<1> QED
  BY <1>3 DEF FlattenStep

\* Nothing flattens to nothing.
LEMMA FlattenEmpty == FlattenSeq(<<>>) = <<>>
BY FlattenUnfold

\* Each prefix flattens to a sequence over the same set.
LEMMA FlattenPrefixType ==
    ASSUME NEW S, NEW ss \in Seq(Seq(S)), NEW i \in 1..Len(ss)
    PROVE  Flattened(ss)[i] \in Seq(S)
<1> DEFINE P == {n \in Nat : n + 1 \in 1..Len(ss) => Flattened(ss)[n + 1] \in Seq(S)}
<1>1. 0 \in P
  <2>1. ASSUME 1 \in 1..Len(ss) PROVE Flattened(ss)[1] = ss[1]
    BY <2>1, FlattenEquation
  <2>2. ASSUME 1 \in 1..Len(ss) PROVE ss[1] \in Seq(S)
    BY <2>2
  <2> QED
    BY <2>1, <2>2
<1>2. ASSUME NEW n \in P
      PROVE  n + 1 \in P
  <2>1. SUFFICES ASSUME n + 1 + 1 \in 1..Len(ss)
                 PROVE  Flattened(ss)[n + 1 + 1] \in Seq(S)
    OBVIOUS
  <2>2. n \in Nat /\ n + 1 \in 1..Len(ss) /\ n + 1 + 1 # 1 /\ (n + 1 + 1) - 1 = n + 1
    BY <2>1
  <2>3. Flattened(ss)[n + 1 + 1] = Flattened(ss)[n + 1] \o ss[n + 1 + 1]
    BY <2>1, <2>2, FlattenEquation
  <2>4. Flattened(ss)[n + 1] \in Seq(S) /\ ss[n + 1 + 1] \in Seq(S)
    BY <2>1, <2>2
  <2> QED
    BY <2>3, <2>4, ConcatProperties
<1>3. P = Nat
  BY <1>1, <1>2, InductiveSet
<1>4. i - 1 \in Nat /\ (i - 1) + 1 = i
  OBVIOUS
<1> QED
  BY <1>3, <1>4

\* A sequence of sequences over S flattens to a sequence over S.
LEMMA FlattenType ==
    ASSUME NEW S, NEW ss \in Seq(Seq(S))
    PROVE  FlattenSeq(ss) \in Seq(S)
<1>1. CASE Len(ss) = 0
  BY <1>1, FlattenUnfold, EmptySeq
<1>2. CASE Len(ss) # 0
  <2>1. Len(ss) \in 1..Len(ss)
    BY <1>2
  <2> QED
    BY <1>2, <2>1, FlattenUnfold, FlattenPrefixType
<1> QED
  BY <1>1, <1>2

\* Flattening commutes with appending: an audit entry adds its own writes.
LEMMA FlattenAppend ==
    ASSUME NEW S, NEW ss \in Seq(Seq(S)), NEW s \in Seq(S)
    PROVE  FlattenSeq(Append(ss, s)) = FlattenSeq(ss) \o s
<1> DEFINE tt == Append(ss, s)
           P == {n \in Nat : n + 1 \in 1..Len(ss)
                                => Flattened(tt)[n + 1] = Flattened(ss)[n + 1]}
<1>0. /\ tt \in Seq(Seq(S)) /\ Len(tt) = Len(ss) + 1 /\ tt[Len(ss) + 1] = s
      /\ \A i \in 1..Len(ss) : tt[i] = ss[i]
  BY AppendProperties
<1> HIDE DEF tt
<1>1. 0 \in P
  <2>1. ASSUME 1 \in 1..Len(ss) PROVE Flattened(tt)[1] = Flattened(ss)[1]
    <3>1. 1 \in 1..Len(tt)
      BY <1>0, <2>1
    <3>2. Flattened(tt)[1] = tt[1]
      BY <3>1, <1>0, FlattenEquation
    <3>3. Flattened(ss)[1] = ss[1]
      BY <2>1, FlattenEquation
    <3> QED
      BY <2>1, <3>2, <3>3, <1>0
  <2> QED
    BY <2>1
<1>2. ASSUME NEW n \in P
      PROVE  n + 1 \in P
  <2>1. SUFFICES ASSUME n + 1 + 1 \in 1..Len(ss)
                 PROVE  Flattened(tt)[n + 1 + 1] = Flattened(ss)[n + 1 + 1]
    OBVIOUS
  <2>2. /\ n \in Nat /\ n + 1 \in 1..Len(ss) /\ n + 1 + 1 \in 1..Len(tt)
        /\ n + 1 + 1 # 1 /\ (n + 1 + 1) - 1 = n + 1
    BY <2>1, <1>0
  <2>3. Flattened(ss)[n + 1 + 1] = Flattened(ss)[n + 1] \o ss[n + 1 + 1]
    BY <2>1, <2>2, FlattenEquation
  <2>4. Flattened(tt)[n + 1 + 1] = Flattened(tt)[n + 1] \o tt[n + 1 + 1]
    BY <2>2, <1>0, FlattenEquation
  <2>5. tt[n + 1 + 1] = ss[n + 1 + 1]
    BY <2>1, <1>0
  <2> QED
    BY <2>2, <2>3, <2>4, <2>5
<1>3. P = Nat
  BY <1>1, <1>2, InductiveSet
<1>4. FlattenSeq(tt) = Flattened(tt)[Len(ss) + 1]
  BY <1>0, FlattenUnfold
<1>5. CASE Len(ss) = 0
  <2>1. ss = <<>> /\ 1 \in 1..Len(tt) /\ Len(ss) + 1 = 1
    BY <1>5, <1>0, EmptySeq
  <2>2. Flattened(tt)[1] = tt[1]
    BY <2>1, <1>0, FlattenEquation
  <2>3. FlattenSeq(tt) = s
    BY <1>4, <2>1, <2>2, <1>0
  <2>4. FlattenSeq(ss) = <<>>
    BY <2>1, FlattenEmpty
  <2> QED
    BY <2>3, <2>4, ConcatEmptySeq DEF tt
<1>6. CASE Len(ss) # 0
  <2>1. /\ Len(ss) + 1 \in 1..Len(tt) /\ Len(ss) + 1 # 1
        /\ (Len(ss) + 1) - 1 = Len(ss) /\ Len(ss) \in 1..Len(ss)
        /\ Len(ss) - 1 \in Nat /\ (Len(ss) - 1) + 1 = Len(ss)
    BY <1>6, <1>0
  <2>2. Flattened(tt)[Len(ss) + 1] = Flattened(tt)[Len(ss)] \o tt[Len(ss) + 1]
    <3> PICK last : last = Len(ss) + 1
      OBVIOUS
    <3>1. last \in 1..Len(tt) /\ last # 1 /\ last - 1 = Len(ss)
      BY <2>1
    <3>2. Flattened(tt)[last] = IF last = 1 THEN tt[1] ELSE Flattened(tt)[last - 1] \o tt[last]
      BY <1>0, <3>1, FlattenEquation
    <3> QED
      BY <3>1, <3>2
  <2>3. Flattened(tt)[Len(ss)] = Flattened(ss)[Len(ss)]
    BY <1>3, <2>1
  <2>4. FlattenSeq(ss) = Flattened(ss)[Len(ss)]
    BY <1>6, FlattenUnfold
  <2> QED
    BY <1>4, <2>2, <2>3, <2>4, <1>0 DEF tt
<1> QED
  BY <1>5, <1>6

\* A flattened sequence holds what its parts hold.
LEMMA FlattenRange ==
    ASSUME NEW S, NEW ss \in Seq(Seq(S))
    PROVE  /\ FlattenSeq(ss) \in Seq(S)
           /\ Range(FlattenSeq(ss)) = UNION {Range(ss[i]) : i \in DOMAIN ss}
<1> DEFINE first(n) == SubSeq(ss, 1, n)
           P == {n \in Nat : n <= Len(ss) =>
                    Range(FlattenSeq(first(n))) = UNION {Range(ss[i]) : i \in 1..n}}
<1>0. ASSUME NEW n \in 0..Len(ss)
      PROVE  first(n) \in Seq(Seq(S)) /\ Len(first(n)) = n /\ \A i \in 1..n : first(n)[i] = ss[i]
  OBVIOUS
<1>1. 0 \in P
  <2>1. first(0) = <<>>
    BY <1>0
  <2>2. Range(FlattenSeq(first(0))) = {}
    BY <2>1, FlattenEmpty, EmptyFacts
  <2> HIDE DEF first
  <2>3. UNION {Range(ss[i]) : i \in 1..0} = {}
    OBVIOUS
  <2> QED
    BY <2>2, <2>3
<1>2. ASSUME NEW n \in P PROVE n + 1 \in P
  <2>1. SUFFICES ASSUME n + 1 <= Len(ss)
                 PROVE  Range(FlattenSeq(first(n + 1))) = UNION {Range(ss[i]) : i \in 1..n + 1}
    OBVIOUS
  <2>2. /\ n \in Nat /\ n \in 0..Len(ss) /\ n + 1 \in 0..Len(ss) /\ n + 1 \in 1..Len(ss)
        /\ Range(FlattenSeq(first(n))) = UNION {Range(ss[i]) : i \in 1..n}
    BY <2>1
  <2>3. first(n + 1) = Append(first(n), ss[n + 1])
    <3> DEFINE longer == Append(first(n), ss[n + 1])
    <3>1. /\ first(n) \in Seq(Seq(S)) /\ Len(first(n)) = n /\ ss[n + 1] \in Seq(S)
          /\ \A i \in 1..n : first(n)[i] = ss[i]
      BY <1>0, <2>2
    <3>2. /\ first(n + 1) \in Seq(Seq(S)) /\ Len(first(n + 1)) = n + 1
          /\ \A i \in 1..n + 1 : first(n + 1)[i] = ss[i]
      BY <1>0, <2>2
    <3> HIDE DEF first
    <3>3. /\ longer \in Seq(Seq(S)) /\ Len(longer) = n + 1 /\ longer[n + 1] = ss[n + 1]
          /\ \A i \in 1..n : longer[i] = first(n)[i]
      BY <3>1, AppendProperties
    <3> HIDE DEF longer
    <3>4. \A i \in 1..n + 1 : longer[i] = ss[i]
      <4>1. \A i \in 1..n + 1 : i \in 1..n \/ i = n + 1
        BY <2>2
      <4> QED
        BY <3>1, <3>3, <4>1
    <3>5. first(n + 1) = longer
      BY <3>2, <3>3, <3>4, SeqEqual
    <3> QED
      BY <3>5 DEF longer
  <2>4. first(n) \in Seq(Seq(S)) /\ ss[n + 1] \in Seq(S)
    BY <1>0, <2>2
  <2> HIDE DEF first
  <2>5. FlattenSeq(first(n + 1)) = FlattenSeq(first(n)) \o ss[n + 1]
    BY <2>3, <2>4, FlattenAppend
  <2>6. FlattenSeq(first(n)) \in Seq(S)
    BY <2>4, FlattenType
  <2>7. Range(FlattenSeq(first(n)) \o ss[n + 1]) = Range(FlattenSeq(first(n))) \cup Range(ss[n + 1])
    BY <2>4, <2>6, ConcatFacts
  <2>8. 1..n + 1 = 1..n \cup {n + 1}
    BY <2>2
  <2> DEFINE Parts(m) == {Range(ss[i]) : i \in 1..m}
  <2>9. Parts(n + 1) = Parts(n) \cup {Range(ss[n + 1])}
    BY <2>8
  <2>10. Range(FlattenSeq(first(n))) = UNION Parts(n)
    BY <2>2
  <2>11. Range(FlattenSeq(first(n + 1))) = Range(FlattenSeq(first(n))) \cup Range(ss[n + 1])
    BY <2>5, <2>7
  <2> HIDE DEF Parts
  <2>12. Range(FlattenSeq(first(n + 1))) = UNION Parts(n + 1)
    BY <2>9, <2>10, <2>11
  <2> QED
    BY <2>12 DEF Parts
<1>3. P = Nat
  <2> HIDE DEF P
  <2>1. P \in SUBSET Nat
    BY DEF P
  <2> QED
    BY <1>1, <1>2, <2>1, InductiveSet
<1>4. Len(ss) \in Nat /\ DOMAIN ss = 1..Len(ss) /\ first(Len(ss)) = ss
  OBVIOUS
<1> HIDE DEF first
<1>5. Range(FlattenSeq(first(Len(ss)))) = UNION {Range(ss[i]) : i \in 1..Len(ss)}
  BY <1>3, <1>4
<1> QED
  BY <1>4, <1>5, FlattenType

=============================================================================
