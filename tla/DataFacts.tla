----------------------------- MODULE DataFacts ------------------------------
(***************************************************************************)
(* Facts about the operators on sequences and sets that the models share,  *)
(* for the proofs of the other modules to cite.                            *)
(***************************************************************************)
EXTENDS Integers, Sequences, FiniteSets, SequencesExt, FiniteSetTheorems,
        SequenceTheorems, WellFoundedInduction, TLAPS

\* A set of numbers has a least member, which Min returns: of the initial
\* intervals that end in S, one contains no other.
LEMMA MinFacts ==
    ASSUME NEW S, S \subseteq Nat, S # {}
    PROVE  Min(S) \in S /\ \A y \in S : Min(S) <= y
  <1> DEFINE T == {0..x : x \in S}
  <1>1. T # {} /\ T \subseteq FiniteSubsetsOf(Nat)
    <2>1. ASSUME NEW x \in S
          PROVE  0..x \in FiniteSubsetsOf(Nat)
      <3>1. x \in Int /\ 0 \in Int
        OBVIOUS
      <3>2. IsFiniteSet(0..x)
        BY <3>1, FS_Interval
      <3> QED
        BY <3>2 DEF FiniteSubsetsOf
    <2> QED
      BY <2>1
  <1>2. PICK I \in T : \A J \in T : ~(<<J, I>> \in StrictSubsetOrdering(Nat))
    <2> HIDE DEF T
    <2>1. IsWellFoundedOn(StrictSubsetOrdering(Nat), FiniteSubsetsOf(Nat))
      BY FS_StrictSubsetOrderingWellFounded
    <2> QED
      BY <1>1, <2>1, WFMin
  <1>3. PICK x \in S : I = 0..x
    BY <1>2
  <1>4. ASSUME NEW y \in S, ~(x <= y)
        PROVE  FALSE
    <2>1. 0..y \subseteq 0..x /\ 0..y # 0..x
      BY <1>4
    <2>2. <<0..y, 0..x>> \in StrictSubsetOrdering(Nat)
      BY <2>1 DEF StrictSubsetOrdering
    <2> QED
      BY <1>2, <1>3, <2>2
  <1>5. \E z \in S : \A y \in S : z <= y
    BY <1>4
  <1> QED
    BY <1>5 DEF Min

\* IsPrefix compares element by element.
LEMMA PrefixFacts ==
    ASSUME NEW S, NEW s \in Seq(S), NEW t \in Seq(S)
    PROVE  IsPrefix(s, t) <=>
                Len(s) <= Len(t) /\ \A i \in 1..Len(s) : s[i] = t[i]
  <1>1. CASE Len(s) <= Len(t)
    <2> DEFINE a == SubSeq(s, 1, Len(s))
               b == SubSeq(t, 1, Len(s))
    <2>1. \A i \in 1..Len(s) : s[i] \in S /\ t[i] \in S
      BY <1>1
    <2>2. /\ a \in Seq(S) /\ Len(a) = Len(s) /\ \A i \in 1..Len(s) : a[i] = s[i]
          /\ b \in Seq(S) /\ Len(b) = Len(s) /\ \A i \in 1..Len(s) : b[i] = t[i]
      BY <2>1
    <2>3. (a = b) <=> \A i \in 1..Len(s) : s[i] = t[i]
      <3> HIDE DEF a, b
      <3>1. ASSUME \A i \in 1..Len(s) : s[i] = t[i] PROVE a = b
        BY <2>2, <3>1, SeqEqual
      <3> QED
        BY <2>2, <3>1
    <2> QED
      BY <1>1, <2>3 DEF IsPrefix
  <1> QED
    BY <1>1 DEF IsPrefix

\* A sequence is a prefix of what it is extended to.
LEMMA PrefixExtends ==
    ASSUME NEW S, NEW s \in Seq(S), NEW t \in Seq(S)
    PROVE  /\ IsPrefix(s, s)
           /\ IsPrefix(s, s \o t)
           /\ \A x \in S : IsPrefix(s, t) => IsPrefix(s, Append(t, x))
  <1>1. IsPrefix(s, s \o t)
    <2>1. /\ s \o t \in Seq(S) /\ Len(s) <= Len(s \o t)
          /\ \A i \in 1..Len(s) : (s \o t)[i] = s[i]
      OBVIOUS
    <2> QED
      BY <2>1, PrefixFacts
  <1>2. ASSUME NEW x \in S, IsPrefix(s, t)
        PROVE  IsPrefix(s, Append(t, x))
    <2>1. /\ Append(t, x) \in Seq(S) /\ Len(Append(t, x)) = Len(t) + 1
          /\ \A i \in 1..Len(t) : Append(t, x)[i] = t[i]
      OBVIOUS
    <2>2. Len(s) <= Len(t) /\ \A i \in 1..Len(s) : s[i] = t[i]
      BY <1>2, PrefixFacts
    <2>3. Len(s) <= Len(Append(t, x)) /\ \A i \in 1..Len(s) : s[i] = Append(t, x)[i]
      BY <2>1, <2>2
    <2> QED
      BY <2>1, <2>3, PrefixFacts
  <1>3. IsPrefix(s, s)
    <2>1. Len(s) <= Len(s) /\ \A i \in 1..Len(s) : s[i] = s[i]
      OBVIOUS
    <2> QED
      BY <2>1, PrefixFacts
  <1> QED
    BY <1>1, <1>2, <1>3

\* Append and Tail at the end and at the joint of a concatenation.
LEMMA ConcatFacts ==
    ASSUME NEW S, NEW s \in Seq(S), NEW t \in Seq(S)
    PROVE  /\ \A x \in S : s \o Append(t, x) = Append(s \o t, x)
           /\ t # <<>> => Append(s, Head(t)) \o Tail(t) = s \o t
  <1>1. ASSUME NEW x \in S
        PROVE  s \o Append(t, x) = Append(s \o t, x)
    <2>1. <<x>> \in Seq(S) /\ s \o t \in Seq(S)
      OBVIOUS
    <2>2. Append(t, x) = t \o <<x>> /\ Append(s \o t, x) = (s \o t) \o <<x>>
      BY <2>1, AppendIsConcat
    <2> QED
      BY <2>1, <2>2, ConcatAssociative
  <1>2. ASSUME t # <<>>
        PROVE  Append(s, Head(t)) \o Tail(t) = s \o t
    <2>1. Head(t) \in S /\ Tail(t) \in Seq(S) /\ <<Head(t)>> \in Seq(S)
      BY <1>2
    <2>2. Append(s, Head(t)) = s \o <<Head(t)>>
      BY <2>1, AppendIsConcat
    <2>3. <<Head(t)>> \o Tail(t) = t
      <3> DEFINE u == <<Head(t)>> \o Tail(t)
      <3>1. u \in Seq(S) /\ Len(u) = Len(t) /\ \A i \in 1..Len(t) : u[i] = t[i]
        BY <1>2, <2>1
      <3> HIDE DEF u
      <3>2. u = t
        BY <3>1, SeqEqual
      <3> QED
        BY <3>2 DEF u
    <2> QED
      BY <2>1, <2>2, <2>3, ConcatAssociative
  <1> QED
    BY <1>1, <1>2

\* What Append and Tail do to the members of a sequence.
LEMMA RangeFacts ==
    ASSUME NEW S, NEW s \in Seq(S)
    PROVE  /\ \A x \in S : Range(Append(s, x)) = Range(s) \cup {x}
           /\ s # <<>> => Range(s) = Range(Tail(s)) \cup {Head(s)}
           /\ \A x \in S : IsInjective(s) /\ x \notin Range(s) =>
                IsInjective(Append(s, x))
           /\ s # <<>> /\ IsInjective(s) =>
                IsInjective(Tail(s)) /\ Head(s) \notin Range(Tail(s))
  <1>1. ASSUME NEW x \in S
        PROVE  Range(Append(s, x)) = Range(s) \cup {x}
    <2>1. /\ Append(s, x) \in Seq(S) /\ Len(Append(s, x)) = Len(s) + 1
          /\ \A i \in 1..Len(s) : Append(s, x)[i] = s[i]
          /\ Append(s, x)[Len(s) + 1] = x
      BY AppendProperties
    <2>2. Range(Append(s, x)) = {Append(s, x)[i] : i \in 1..(Len(s) + 1)}
      BY <2>1, RangeEquality
    <2>3. Range(s) = {s[i] : i \in 1..Len(s)}
      BY RangeEquality
    <2> QED
      BY <2>1, <2>2, <2>3
  <1>2. ASSUME s # <<>>
        PROVE  Range(s) = Range(Tail(s)) \cup {Head(s)}
    <2>1. /\ Tail(s) \in Seq(S) /\ Len(Tail(s)) = Len(s) - 1 /\ Len(s) \in Nat \ {0}
          /\ \A i \in 1..Len(Tail(s)) : Tail(s)[i] = s[i + 1]
      BY <1>2
    <2>2. Range(Tail(s)) = {Tail(s)[i] : i \in 1..Len(Tail(s))}
      BY <2>1, RangeEquality
    <2>3. Range(s) = {s[i] : i \in 1..Len(s)}
      BY RangeEquality
    <2>4. Head(s) = s[1]
      BY <1>2
    <2>5. Range(Tail(s)) \subseteq Range(s)
      BY <2>1, <2>2, <2>3
    <2>6. ASSUME NEW i \in 1..Len(s), i # 1
          PROVE  s[i] \in Range(Tail(s))
      <3>1. i - 1 \in 1..Len(Tail(s)) /\ (i - 1) + 1 = i
        BY <2>1, <2>6
      <3> QED
        BY <2>1, <2>2, <3>1
    <2> QED
      BY <2>1, <2>3, <2>4, <2>5, <2>6
  <1>3. ASSUME NEW x \in S, IsInjective(s), x \notin Range(s)
        PROVE  IsInjective(Append(s, x))
    BY <1>3 DEF IsInjective, Range
  <1>4. ASSUME s # <<>>, IsInjective(s)
        PROVE  IsInjective(Tail(s)) /\ Head(s) \notin Range(Tail(s))
    BY <1>4 DEF IsInjective, Range
  <1> QED
    BY <1>1, <1>2, <1>3, <1>4

\* Where the elements of an extended sequence are.
LEMMA AppendAt ==
    ASSUME NEW S, NEW s \in Seq(S), NEW x \in S
    PROVE  /\ Append(s, x) \in Seq(S) /\ Len(Append(s, x)) = Len(s) + 1
           /\ DOMAIN Append(s, x) = 1..(Len(s) + 1) /\ Len(s) \in Nat
           /\ \A i \in 1..Len(s) : Append(s, x)[i] = s[i]
           /\ Append(s, x)[Len(s) + 1] = x
  OBVIOUS

\* Where the elements of two sequences are, one after another.
LEMMA ConcatAt ==
    ASSUME NEW S, NEW s \in Seq(S), NEW t \in Seq(S)
    PROVE  /\ s \o t \in Seq(S) /\ Len(s \o t) = Len(s) + Len(t)
           /\ DOMAIN (s \o t) = 1..(Len(s) + Len(t))
           /\ Len(s) \in Nat /\ Len(t) \in Nat
           /\ \A i \in 1..Len(s) : (s \o t)[i] = s[i]
           /\ \A i \in 1..Len(t) : (s \o t)[Len(s) + i] = t[i]
  OBVIOUS

\* A sequence of one element.
LEMMA OneElement ==
    ASSUME NEW S
    PROVE  /\ \A x \in S : <<x>> \in Seq(S) /\ Len(<<x>>) = 1 /\ <<x>>[1] = x
           /\ \A s, t \in Seq(S) : Len(t) = 1 => s \o t = Append(s, t[1])
  <1>1. \A x \in S : <<x>> \in Seq(S) /\ Len(<<x>>) = 1 /\ <<x>>[1] = x
    OBVIOUS
  <1>2. ASSUME NEW s \in Seq(S), NEW t \in Seq(S), Len(t) = 1
        PROVE  s \o t = Append(s, t[1])
    <2>1. t[1] \in S
      <3>1. 1 \in 1..Len(t)
        BY <1>2
      <3> QED
        BY <3>1, ElementOfSeq
    <2>2. Append(s, t[1]) = s \o <<t[1]>>
      BY <2>1, AppendIsConcat
    <2>3. t = <<t[1]>>
      BY <1>2, <2>1
    <2> QED
      BY <2>2, <2>3
  <1> QED
    BY <1>1, <1>2

\* The rest of a sequence from one of its places on.
LEMMA SuffixAt ==
    ASSUME NEW S, NEW s \in Seq(S), NEW k \in 1..Len(s)
    PROVE  /\ SubSeq(s, k, Len(s)) \in Seq(S) /\ SubSeq(s, k, Len(s)) # <<>>
           /\ Head(SubSeq(s, k, Len(s))) = s[k]
           /\ Tail(SubSeq(s, k, Len(s))) = SubSeq(s, k + 1, Len(s))
  <1> DEFINE g == SubSeq(s, k, Len(s))
             h == SubSeq(s, k + 1, Len(s))
             n == Len(s) - k
  <1>1. n \in Nat /\ k \in Nat /\ Len(s) \in Nat
    OBVIOUS
  <1>2. g \in Seq(S) /\ Len(g) = n + 1 /\ \A i \in 1..(n + 1) : g[i] = s[k + i - 1]
    OBVIOUS
  <1>3. h \in Seq(S) /\ Len(h) = n /\ \A i \in 1..n : h[i] = s[k + 1 + i - 1]
    OBVIOUS
  <1> HIDE DEF g, h, n
  <1>4. g # <<>> /\ Head(g) = g[1] /\ Tail(g) \in Seq(S) /\ Len(Tail(g)) = n
        /\ \A i \in 1..n : Tail(g)[i] = g[i + 1]
    BY <1>1, <1>2
  <1>5. Head(g) = s[k]
    BY <1>1, <1>2, <1>4
  <1>6. \A i \in 1..n : Tail(g)[i] = h[i]
    <2> TAKE i \in 1..n
    <2>1. i + 1 \in 1..(n + 1) /\ k + (i + 1) - 1 = k + 1 + i - 1
      BY <1>1
    <2> QED
      BY <1>2, <1>3, <1>4, <2>1
  <1>7. Tail(g) = h
    BY <1>1, <1>3, <1>4, <1>6
  <1> QED
    BY <1>2, <1>4, <1>5, <1>7 DEF g, h

\* The elements of two sequences one after another.
LEMMA RangeConcat ==
    ASSUME NEW S, NEW s \in Seq(S), NEW t \in Seq(S)
    PROVE  Range(s \o t) = Range(s) \cup Range(t)
  <1>1. /\ DOMAIN s = 1..Len(s) /\ DOMAIN t = 1..Len(t)
        /\ Len(s) \in Nat /\ Len(t) \in Nat
        /\ DOMAIN (s \o t) = 1..(Len(s) + Len(t))
        /\ \A i \in 1..(Len(s) + Len(t)) :
             (s \o t)[i] = IF i <= Len(s) THEN s[i] ELSE t[i - Len(s)]
    OBVIOUS
  <1>2. \A i \in 1..Len(s) : s[i] \in Range(s \o t)
    BY <1>1 DEF Range
  <1>3. \A i \in 1..Len(t) : t[i] \in Range(s \o t)
    <2> TAKE i \in 1..Len(t)
    <2>1. Len(s) + i \in 1..(Len(s) + Len(t)) /\ ~(Len(s) + i <= Len(s))
          /\ (Len(s) + i) - Len(s) = i
      BY <1>1
    <2>2. (s \o t)[Len(s) + i] = t[i]
      BY <1>1, <2>1
    <2> QED
      BY <1>1, <2>1, <2>2 DEF Range
  <1>4. \A i \in 1..(Len(s) + Len(t)) : (s \o t)[i] \in Range(s) \cup Range(t)
    BY <1>1 DEF Range
  <1> QED
    BY <1>1, <1>2, <1>3, <1>4 DEF Range

\* RemoveFirst takes one entry out of a list without duplicates, and only it.
LEMMA RemoveFirstFacts ==
    ASSUME NEW S, NEW s \in Seq(S), IsInjective(s), NEW e
    PROVE  /\ RemoveFirst(s, e) \in Seq(S)
           /\ IsInjective(RemoveFirst(s, e))
           /\ Range(RemoveFirst(s, e)) = Range(s) \ {e}
           /\ Len(RemoveFirst(s, e)) <= Len(s)
  <1>1. CASE e \notin Range(s)
    <2>1. RemoveFirst(s, e) = s
      BY <1>1 DEF RemoveFirst, Range
    <2> QED
      BY <1>1, <2>1
  <1>2. CASE e \in Range(s)
    <2> DEFINE I == {i \in 1..Len(s) : s[i] = e}
               k == Min(I)
               r == SubSeq(s, 1, k - 1) \o SubSeq(s, k + 1, Len(s))
    <2>1. I # {} /\ I \subseteq Nat
      BY <1>2 DEF Range
    <2>2. k \in I
      BY <2>1, MinFacts
    <2>3. RemoveFirst(s, e) = r
      BY <2>1 DEF RemoveFirst, RemoveAt, SelectInSeq
    <2>4. k \in 1..Len(s) /\ s[k] = e
      BY <2>2
    <2> HIDE DEF k
    <2>5. /\ r \in Seq(S) /\ Len(r) = Len(s) - 1
          /\ \A i \in 1..(Len(s) - 1) : r[i] = IF i < k THEN s[i] ELSE s[i + 1]
      <3> DEFINE a == SubSeq(s, 1, k - 1)
                 b == SubSeq(s, k + 1, Len(s))
      <3>1. a \in Seq(S) /\ Len(a) = k - 1 /\ \A i \in 1..(k - 1) : a[i] = s[i]
        BY <2>4
      <3>2. /\ b \in Seq(S) /\ Len(b) = Len(s) - k
            /\ \A i \in 1..(Len(s) - k) : b[i] = s[k + i]
        <4>1. k + 1 \in Int /\ Len(s) \in Int /\ \A i \in (k + 1)..Len(s) : s[i] \in S
          BY <2>4
        <4>2. /\ b \in Seq(S)
              /\ Len(b) = IF k + 1 <= Len(s) THEN Len(s) - (k + 1) + 1 ELSE 0
              /\ \A i \in 1..(Len(s) - (k + 1) + 1) : b[i] = s[(k + 1) + i - 1]
          BY <4>1, SubSeqProperties
        <4>3. Len(b) = Len(s) - k
          BY <2>4, <4>2
        <4>4. ASSUME NEW i \in 1..(Len(s) - k) PROVE b[i] = s[k + i]
          <5>1. i \in 1..(Len(s) - (k + 1) + 1) /\ (k + 1) + i - 1 = k + i
            BY <2>4
          <5> QED
            BY <4>2, <5>1
        <4> QED
          BY <4>2, <4>3, <4>4
      <3> HIDE DEF a, b
      <3>3. a \o b \in Seq(S) /\ Len(a \o b) = Len(s) - 1
        <4>1. a \o b \in Seq(S) /\ Len(a \o b) = Len(a) + Len(b)
          BY <3>1, <3>2, ConcatProperties
        <4>2. Len(s) \in Nat /\ k \in Nat
          BY <2>4
        <4> QED
          BY <3>1, <3>2, <4>1, <4>2
      <3>4. ASSUME NEW i \in 1..(Len(s) - 1)
            PROVE  (a \o b)[i] = IF i < k THEN s[i] ELSE s[i + 1]
        <4>1. (a \o b)[i] = IF i <= k - 1 THEN a[i] ELSE b[i - (k - 1)]
          BY <2>4, <3>1, <3>2
        <4>2. CASE i < k
          BY <2>4, <3>1, <4>1, <4>2
        <4>3. CASE ~(i < k)
          <5>1. i - (k - 1) \in 1..(Len(s) - k) /\ k + (i - (k - 1)) = i + 1
            BY <2>4, <4>3
          <5> QED
            BY <2>4, <3>2, <4>1, <4>3, <5>1
        <4> QED
          BY <4>2, <4>3
      <3> QED
        BY <3>3, <3>4 DEF a, b
    <2> HIDE DEF r
    <2>6. IsInjective(r)
      BY <2>4, <2>5, SMTT(40) DEF IsInjective
    <2>7. Range(r) \subseteq Range(s) \ {e}
      BY <2>4, <2>5, SMTT(40) DEF IsInjective, Range
    <2>8. ASSUME NEW x \in Range(s) \ {e} PROVE x \in Range(r)
      <3>1. PICK i \in 1..Len(s) : s[i] = x /\ i # k
        BY <2>4 DEF Range
      <3>2. CASE i < k
        BY <2>4, <2>5, <3>1, <3>2 DEF Range
      <3>3. CASE i > k
        <4>1. i - 1 \in 1..(Len(s) - 1) /\ ~(i - 1 < k) /\ (i - 1) + 1 = i
          BY <2>4, <3>3
        <4>2. r[i - 1] = x
          BY <2>5, <3>1, <4>1
        <4> QED
          BY <2>5, <4>1, <4>2 DEF Range
      <3> QED
        BY <2>4, <3>1, <3>2, <3>3
    <2> QED
      BY <2>3, <2>5, <2>6, <2>7, <2>8
  <1> QED
    BY <1>1, <1>2

\* The places where a sequence holds x: one more, or as many, after Append,
\* one less, or as many, after Tail.
Places(s, x) == {i \in DOMAIN s : s[i] = x}

\* Where a value stands after an Append.
LEMMA AppendPlaces ==
    ASSUME NEW S, NEW s \in Seq(S), NEW x, NEW y \in S
    PROVE  /\ IsFiniteSet(Places(s, x))
           /\ Cardinality(Places(s, x)) \in Nat
           /\ Cardinality(Places(Append(s, y), x)) =
                Cardinality(Places(s, x)) + IF x = y THEN 1 ELSE 0
  <1>1. IsFiniteSet(1..Len(s))
    BY FS_Interval
  <1>2. Places(s, x) \in SUBSET (1..Len(s))
    BY DEF Places
  <1>3. IsFiniteSet(Places(s, x))
    BY <1>1, <1>2, FS_Subset
  <1>4. Places(Append(s, y), x) =
            IF x = y THEN Places(s, x) \cup {Len(s) + 1} ELSE Places(s, x)
    BY DEF Places
  <1>5. Len(s) + 1 \notin Places(s, x)
    BY DEF Places
  <1>6. Cardinality(Places(s, x)) \in Nat
    BY <1>3, FS_CardinalityType
  <1>7. Cardinality(Places(s, x) \cup {Len(s) + 1}) = Cardinality(Places(s, x)) + 1
    BY <1>3, <1>5, FS_AddElement
  <1> QED
    BY <1>3, <1>4, <1>6, <1>7

\* Where a value stands after a Tail.
LEMMA TailPlaces ==
    ASSUME NEW S, NEW s \in Seq(S), s # <<>>, NEW x
    PROVE  /\ IsFiniteSet(Places(s, x))
           /\ Cardinality(Places(s, x)) \in Nat
           /\ Cardinality(Places(Tail(s), x)) \in Nat
           /\ Cardinality(Places(s, x)) =
                Cardinality(Places(Tail(s), x)) + IF Head(s) = x THEN 1 ELSE 0
  <1> DEFINE P == Places(s, x) \ {1}
             Q == Places(Tail(s), x)
             f == [i \in Q |-> i + 1]
  <1>1. IsFiniteSet(1..Len(s)) /\ IsFiniteSet(1..Len(Tail(s)))
    BY FS_Interval, HeadTailProperties
  <1>2. IsFiniteSet(Places(s, x)) /\ IsFiniteSet(Q)
    <2>1. Places(s, x) \in SUBSET (1..Len(s)) /\ Q \in SUBSET (1..Len(Tail(s)))
      BY DEF Places
    <2> QED
      BY <1>1, <2>1, FS_Subset
  <1>3. f \in Bijection(Q, P)
    <2>1. Q \subseteq Nat /\ P \subseteq Nat
      BY DEF Places
    <2>2. \A i \in Nat : i \in Q => i + 1 \in P
      BY DEF Places
    <2>3. \A i \in Nat : i \in P => i - 1 \in Q /\ i - 1 \in Nat
      BY DEF Places
    <2> HIDE DEF P, Q
    <2>4. f \in [Q -> P]
      BY <2>1, <2>2
    <2>5. \A i, j \in Q : f[i] = f[j] => i = j
      BY <2>1
    <2>6. \A j \in P : \E i \in Q : f[i] = j
      BY <2>1, <2>3
    <2> QED
      BY <2>4, <2>5, <2>6 DEF Bijection, Injection, Surjection, IsInjective
  <1>4. ExistsBijection(Q, P)
    BY <1>3 DEF ExistsBijection
  <1>5. Cardinality(P) = Cardinality(Q)
    BY <1>2, <1>4, FS_Bijection
  <1>6. Cardinality(P) =
            IF 1 \in Places(s, x) THEN Cardinality(Places(s, x)) - 1
                                  ELSE Cardinality(Places(s, x))
    BY <1>2, FS_RemoveElement
  <1>7. Cardinality(Places(s, x)) \in Nat /\ Cardinality(Q) \in Nat
    BY <1>2, FS_CardinalityType
  <1>8. 1 \in Places(s, x) <=> Head(s) = x
    BY DEF Places
  <1> QED
    BY <1>2, <1>5, <1>6, <1>7, <1>8

\* Induction over the numbers, with the property as a set.
LEMMA SetInduction ==
    ASSUME NEW T, T \subseteq Nat, 0 \in T, \A n \in T : n + 1 \in T
    PROVE  T = Nat
  <1> DEFINE U == Nat \ T
  <1>1. ASSUME U # {} PROVE FALSE
    <2>1. Min(U) \in U /\ \A y \in U : Min(U) <= y
      BY <1>1, MinFacts
    <2> DEFINE m == Min(U)
    <2>2. m \in Nat /\ m \notin T
      BY <2>1
    <2> HIDE DEF m
    <2>3. m - 1 \in Nat /\ m - 1 \notin U
      BY <2>1, <2>2 DEF m
    <2> QED
      BY <2>2, <2>3
  <1> QED
    BY <1>1

\* f is defined from its first value by steps.
Recurses(f, a, step) == f[0] = a /\ \A n \in Nat : f[n + 1] = step[n][f[n]]

\* A function can be defined by recursion over the numbers.
LEMMA Recursion ==
    ASSUME NEW S, NEW a \in S, NEW step \in [Nat -> [S -> S]]
    PROVE  \E f \in [Nat -> S] : Recurses(f, a, step)
  <1> DEFINE Part(n, g) == /\ g \in [0 .. n -> S] /\ g[0] = a
                           /\ \A i \in 0 .. n - 1 : g[i + 1] = step[i][g[i]]
             T == {n \in Nat : \E g : Part(n, g)}
  <1>1. T = Nat
    <2>1. 0 \in T
      <3>1. Part(0, [i \in 0 .. 0 |-> a])
        OBVIOUS
      <3> QED
        BY <3>1
    <2>2. ASSUME NEW n \in T PROVE n + 1 \in T
      <3>1. PICK g : Part(n, g)
        BY <2>2
      <3> DEFINE h == [i \in 0 .. n + 1 |-> IF i = n + 1 THEN step[n][g[n]] ELSE g[i]]
      <3>2. Part(n + 1, h)
        <4>1. g[n] \in S /\ step[n][g[n]] \in S
          BY <3>1
        <4>2. h \in [0 .. n + 1 -> S] /\ h[0] = a
          BY <3>1, <4>1
        <4>3. ASSUME NEW i \in 0 .. (n + 1) - 1 PROVE h[i + 1] = step[i][h[i]]
          <5>1. CASE i = n
            <6>1. h[n + 1] = step[n][g[n]] /\ h[n] = g[n]
              OBVIOUS
            <6> QED
              BY <5>1, <6>1
          <5>2. CASE i # n
            <6>1. i \in 0 .. n - 1 /\ h[i + 1] = g[i + 1] /\ h[i] = g[i]
              BY <5>2
            <6> QED
              BY <3>1, <6>1
          <5> QED
            BY <5>1, <5>2
        <4> QED
          BY <4>2, <4>3
      <3> HIDE DEF h
      <3> QED
        BY <3>2
    <2> HIDE DEF T
    <2>3. T \subseteq Nat
      BY DEF T
    <2> QED
      BY <2>1, <2>2, <2>3, SetInduction
  <1>2. ASSUME NEW m \in Nat, NEW n \in Nat, m <= n, NEW g, NEW h, Part(m, g), Part(n, h)
        PROVE  g[m] = h[m]
    <2> DEFINE V == {i \in Nat : i <= m => g[i] = h[i]}
    <2>1. 0 \in V
      BY <1>2
    <2>2. ASSUME NEW i \in V PROVE i + 1 \in V
      <3>1. CASE i + 1 <= m
        <4>1. i \in 0 .. m - 1 /\ i \in 0 .. n - 1 /\ g[i] = h[i]
          BY <1>2, <2>2, <3>1
        <4>2. g[i + 1] = step[i][g[i]] /\ h[i + 1] = step[i][h[i]]
          BY <1>2, <4>1
        <4> QED
          BY <4>1, <4>2
      <3> QED
        BY <3>1
    <2>3. V = Nat
      <3>1. V \subseteq Nat
        OBVIOUS
      <3> HIDE DEF V
      <3> QED
        BY <2>1, <2>2, <3>1, SetInduction
    <2> QED
      BY <2>3
  <1> DEFINE G(n) == CHOOSE g : Part(n, g)
             f == [n \in Nat |-> G(n)[n]]
  <1>3. \A n \in Nat : Part(n, G(n))
    <2> HIDE DEF Part
    <2> QED
      BY <1>1
  <1> HIDE DEF G
  <1>4. f \in [Nat -> S]
    BY <1>3
  <1>5. f[0] = a
    BY <1>3
  <1>6. ASSUME NEW n \in Nat PROVE f[n + 1] = step[n][f[n]]
    <2>1. Part(n, G(n)) /\ Part(n + 1, G(n + 1))
      BY <1>3
    <2>2. n \in 0 .. (n + 1) - 1
      OBVIOUS
    <2>3. G(n + 1)[n + 1] = step[n][G(n + 1)[n]]
      BY <2>1, <2>2
    <2>4. Part(n, [i \in 0 .. n |-> G(n + 1)[i]])
      BY <2>1
    <2>5. G(n)[n] = G(n + 1)[n]
      <3> HIDE DEF Part
      <3>1. n <= n + 1
        OBVIOUS
      <3> QED
        BY <1>2, <2>1, <3>1
    <2> QED
      BY <2>3, <2>5
  <1> QED
    BY <1>4, <1>5, <1>6 DEF Recurses

\* A part of a sequence, by its elements
LEMMA SubSeqAt ==
    ASSUME NEW S, NEW s \in Seq(S), NEW m \in Nat, NEW n \in Nat, m <= n, n <= Len(s)
    PROVE  /\ SubSeq(s, m + 1, n) \in Seq(S) /\ Len(SubSeq(s, m + 1, n)) = n - m
           /\ \A i \in 1 .. n - m : SubSeq(s, m + 1, n)[i] = s[m + i]
  <1> DEFINE p == SubSeq(s, m + 1, n)
             k == m + 1
  <1>1. k \in Int /\ n \in Int /\ \A i \in k .. n : s[i] \in S
    OBVIOUS
  <1>2. /\ SubSeq(s, k, n) \in Seq(S)
        /\ Len(SubSeq(s, k, n)) = IF k <= n THEN n - k + 1 ELSE 0
        /\ \A i \in 1 .. n - k + 1 : SubSeq(s, k, n)[i] = s[k + i - 1]
    <2> HIDE DEF k
    <2> QED
      BY <1>1, SubSeqProperties
  <1>3. ASSUME NEW i \in 1 .. n - m
        PROVE  i \in 1 .. n - k + 1 /\ k + i - 1 = m + i
    OBVIOUS
  <1> QED
    BY <1>2, <1>3

\* The two halves of a sequence
LEMMA Halves ==
    ASSUME NEW S, NEW s \in Seq(S), NEW n \in Nat, n <= Len(s)
    PROVE  /\ SubSeq(s, 1, n) \in Seq(S) /\ Len(SubSeq(s, 1, n)) = n
           /\ SubSeq(s, n + 1, Len(s)) \in Seq(S)
           /\ SubSeq(s, 1, n) \o SubSeq(s, n + 1, Len(s)) = s
  <1> DEFINE a == SubSeq(s, 1, n)
             d == SubSeq(s, n + 1, Len(s))
  <1>1. a \in Seq(S) /\ Len(a) = n /\ \A i \in 1 .. n : a[i] = s[i]
    <2>1. 0 \in Nat /\ 0 <= n /\ 0 + 1 = 1 /\ n - 0 = n
      OBVIOUS
    <2>2. SubSeq(s, 0 + 1, n) \in Seq(S) /\ Len(SubSeq(s, 0 + 1, n)) = n - 0
          /\ \A i \in 1 .. n - 0 : SubSeq(s, 0 + 1, n)[i] = s[0 + i]
      BY <2>1, SubSeqAt
    <2>3. \A i \in 1 .. n : 0 + i = i
      OBVIOUS
    <2> QED
      BY <2>1, <2>2, <2>3
  <1>2. d \in Seq(S) /\ Len(d) = Len(s) - n /\ \A i \in 1 .. Len(s) - n : d[i] = s[n + i]
    <2>1. Len(s) \in Nat /\ Len(s) <= Len(s)
      OBVIOUS
    <2> QED
      BY <2>1, SubSeqAt
  <1> HIDE DEF a, d
  <1>3. a \o d = s
    <2> DEFINE ad == a \o d
    <2>1. /\ ad \in Seq(S) /\ Len(ad) = Len(a) + Len(d)
          /\ \A i \in 1 .. Len(a) : ad[i] = a[i]
          /\ \A i \in 1 .. Len(d) : ad[Len(a) + i] = d[i]
      BY <1>1, <1>2, ConcatAt
    <2> HIDE DEF ad
    <2>2. Len(ad) = Len(s)
      BY <1>1, <1>2, <2>1
    <2>3. ASSUME NEW i \in 1 .. Len(s)
          PROVE  ad[i] = s[i]
      <3>1. CASE i <= n
        <4>1. i \in 1 .. n /\ i \in 1 .. Len(a)
          BY <1>1, <3>1
        <4> QED
          BY <1>1, <2>1, <4>1
      <3>2. CASE i > n
        <4> DEFINE j == i - n
        <4>1. j \in 1 .. Len(s) - n /\ j \in 1 .. Len(d) /\ i = n + j
          BY <1>2, <3>2
        <4> HIDE DEF j
        <4> QED
          BY <1>1, <1>2, <2>1, <4>1
      <3> QED
        BY <3>1, <3>2
    <2>4. ad = s
      BY <2>1, <2>2, <2>3, SeqEqual
    <2> QED
      BY <2>4 DEF ad
  <1> QED
    BY <1>1, <1>2, <1>3 DEF a, d

\* What RemoveAt leaves.
LEMMA RemoveAtFacts ==
    ASSUME NEW S, NEW s \in Seq(S), NEW k \in 1 .. Len(s)
    PROVE  /\ RemoveAt(s, k) \in Seq(S)
           /\ DOMAIN RemoveAt(s, k) = 1 .. Len(s) - 1
           /\ \A i \in 1 .. Len(s) - 1 : RemoveAt(s, k)[i] = IF i < k THEN s[i] ELSE s[i + 1]
  <1> DEFINE u == SubSeq(s, 1, k - 1)
             v == SubSeq(s, k + 1, Len(s))
  <1>0. k - 1 \in Nat /\ Len(s) \in Nat /\ k \in Nat /\ k <= Len(s)
    OBVIOUS
  <1>1. u \in Seq(S) /\ Len(u) = k - 1 /\ \A i \in 1 .. k - 1 : u[i] = s[i]
    OBVIOUS
  <1>2. v \in Seq(S) /\ Len(v) = Len(s) - k /\ \A i \in 1 .. Len(s) - k : v[i] = s[k + i]
    BY <1>0, SubSeqAt
  <1>3. RemoveAt(s, k) = u \o v
    BY DEF RemoveAt
  <1> HIDE DEF u, v
  <1>4. /\ u \o v \in Seq(S) /\ DOMAIN (u \o v) = 1 .. Len(u) + Len(v)
        /\ \A i \in 1 .. Len(u) : (u \o v)[i] = u[i]
        /\ \A i \in 1 .. Len(v) : (u \o v)[Len(u) + i] = v[i]
    <2>1. u \in Seq(S) /\ v \in Seq(S)
      BY <1>1, <1>2
    <2> QED
      BY <2>1, ConcatAt
  <1>5. ASSUME NEW i \in 1 .. Len(s) - 1
        PROVE  (u \o v)[i] = IF i < k THEN s[i] ELSE s[i + 1]
    <2>1. CASE i < k
      BY <2>1, <1>0, <1>1, <1>4
    <2>2. CASE ~(i < k)
      <3> DEFINE j == i - (k - 1)
      <3>1. j \in 1 .. Len(s) - k /\ (k - 1) + j = i /\ k + j = i + 1
        BY <2>2, <1>0
      <3> HIDE DEF j
      <3> QED
        BY <2>2, <3>1, <1>1, <1>2, <1>4
    <2> QED
      BY <2>1, <2>2
  <1>6. Len(u) + Len(v) = Len(s) - 1
    BY <1>0, <1>1, <1>2
  <1> QED
    BY <1>3, <1>4, <1>5, <1>6

=============================================================================
