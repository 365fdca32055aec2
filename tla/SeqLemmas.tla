----------------------------- MODULE SeqLemmas -----------------------------
(***************************************************************************)
(* How the queue operations of the models (push_back, pop_front, remove)   *)
(* change the elements of a sequence.                                      *)
(***************************************************************************)
EXTENDS SequencesExt, SequenceTheorems, FiniteSetTheorems, WellFoundedInduction, TLAPS

\* Appending an element adds exactly it to the elements of a sequence, and
\* keeps a sequence without repetitions free of them when it is new.
LEMMA AppendFacts ==
  ASSUME NEW S, NEW s \in Seq(S), NEW e \in S
  PROVE  /\ Append(s, e) \in Seq(S)
         /\ Len(Append(s, e)) = Len(s) + 1
         /\ Range(Append(s, e)) = Range(s) \cup {e}
         /\ IsInjective(s) /\ e \notin Range(s) => IsInjective(Append(s, e))
  <1> DEFINE a == Append(s, e)
  <1>1. /\ a \in Seq(S) /\ Len(a) = Len(s) + 1 /\ a[Len(s) + 1] = e
        /\ \A i \in 1 .. Len(s) : a[i] = s[i]
    BY AppendProperties
  <1> HIDE DEF a
  <1>2. /\ DOMAIN a = 1 .. Len(s) + 1 /\ DOMAIN s = 1 .. Len(s)
        /\ Len(s) \in Nat
    BY <1>1
  <1>3. Range(a) = Range(s) \cup {e}
    BY <1>1, <1>2 DEF Range
  <1>4. ASSUME IsInjective(s), e \notin Range(s) PROVE IsInjective(a)
    BY <1>1, <1>2, <1>4 DEF IsInjective, Range
  <1> QED BY <1>1, <1>3, <1>4 DEF a

\* Taking the first element off a sequence without repetitions removes
\* exactly that element.
LEMMA TailFacts ==
  ASSUME NEW S, NEW s \in Seq(S), s # <<>>
  PROVE  /\ Tail(s) \in Seq(S)
         /\ Len(Tail(s)) = Len(s) - 1
         /\ Head(s) \in Range(s)
         /\ Range(Tail(s)) \subseteq Range(s)
         /\ IsInjective(s) => /\ IsInjective(Tail(s))
                              /\ Range(Tail(s)) = Range(s) \ {Head(s)}
  <1>1. \A i \in 1 .. Len(s) - 1 : Tail(s)[i] = s[i + 1]
    OBVIOUS
  <1>2. /\ Tail(s) \in Seq(S) /\ Len(Tail(s)) = Len(s) - 1
        /\ DOMAIN Tail(s) = 1 .. Len(s) - 1 /\ DOMAIN s = 1 .. Len(s)
        /\ Head(s) = s[1] /\ 1 \in DOMAIN s
    OBVIOUS
  <1>3. Range(Tail(s)) \subseteq Range(s)
    BY <1>1, <1>2 DEF Range
  <1>4. ASSUME IsInjective(s) PROVE IsInjective(Tail(s))
    BY <1>1, <1>2, <1>4 DEF IsInjective
  <1>5. ASSUME IsInjective(s) PROVE Range(Tail(s)) = Range(s) \ {Head(s)}
    <2>1. \A x \in Range(s) \ {Head(s)} : x \in Range(Tail(s))
      <3> TAKE x \in Range(s) \ {Head(s)}
      <3>1. PICK i \in 1 .. Len(s) : x = s[i] /\ i # 1
        BY <1>2 DEF Range
      <3>2. i - 1 \in 1 .. Len(s) - 1 /\ Tail(s)[i - 1] = x
        BY <3>1, <1>1
      <3> QED BY <3>2, <1>2 DEF Range
    <2>2. Head(s) \notin Range(Tail(s))
      BY <1>1, <1>2, <1>5 DEF Range, IsInjective
    <2> QED BY <1>3, <2>1, <2>2
  <1> QED BY <1>2, <1>3, <1>4, <1>5 DEF Range

\* Removing position i removes exactly its element, when nothing repeats.
LEMMA RemoveAtFacts ==
  ASSUME NEW S, NEW s \in Seq(S), NEW i \in 1 .. Len(s), IsInjective(s)
  PROVE  /\ RemoveAt(s, i) \in Seq(S)
         /\ Len(RemoveAt(s, i)) = Len(s) - 1
         /\ Range(RemoveAt(s, i)) = Range(s) \ {s[i]}
         /\ IsInjective(RemoveAt(s, i))
         /\ \A j \in 1 .. Len(s) - 1 :
              RemoveAt(s, i)[j] = IF j < i THEN s[j] ELSE s[j + 1]
  <1> DEFINE r == RemoveAt(s, i)
  <1>1. /\ r \in Seq(S) /\ Len(r) = Len(s) - 1
        /\ \A j \in 1 .. Len(s) - 1 : r[j] = IF j < i THEN s[j] ELSE s[j + 1]
    <2> DEFINE front == SubSeq(s, 1, i - 1)
               back  == SubSeq(s, i + 1, Len(s))
    <2>1. Len(s) \in Nat /\ \A j \in 1 .. Len(s) : s[j] \in S
      OBVIOUS
    <2>2. /\ front \in Seq(S) /\ Len(front) = i - 1
          /\ \A j \in 1 .. i - 1 : front[j] = s[j]
      BY <2>1, SubSeqProperties
    <2>3. /\ back \in Seq(S) /\ Len(back) = Len(s) - i
          /\ \A j \in 1 .. Len(s) - i : back[j] = s[i + j]
      BY <2>1, SubSeqProperties
    <2> HIDE DEF front, back
    <2>4. /\ front \o back \in Seq(S)
          /\ Len(front \o back) = Len(front) + Len(back)
          /\ \A j \in 1 .. Len(front) + Len(back) : (front \o back)[j] =
                IF j <= Len(front) THEN front[j] ELSE back[j - Len(front)]
      BY <2>2, <2>3, ConcatProperties
    <2>5. r = front \o back
      BY DEF RemoveAt, front, back
    <2>6. ASSUME NEW j \in 1 .. Len(s) - 1
          PROVE  r[j] = IF j < i THEN s[j] ELSE s[j + 1]
      <3>1. CASE j < i
        <4>1. j \in 1 .. Len(front) + Len(back) /\ j <= Len(front)
          BY <2>1, <2>2, <2>3, <3>1
        <4>2. (front \o back)[j] = front[j]
          BY <2>4, <4>1
        <4> QED BY <2>2, <2>5, <3>1, <4>2
      <3>2. CASE ~(j < i)
        <4>1. /\ j \in 1 .. Len(front) + Len(back) /\ ~(j <= Len(front))
              /\ j - Len(front) \in 1 .. Len(s) - i
              /\ i + (j - Len(front)) = j + 1
          BY <2>1, <2>2, <2>3, <3>2
        <4>2. (front \o back)[j] = back[j - Len(front)]
          BY <2>4, <4>1
        <4>3. back[j - Len(front)] = s[j + 1]
          BY <2>3, <4>1
        <4> QED BY <2>5, <3>2, <4>2, <4>3
      <3> QED BY <3>1, <3>2
    <2>7. Len(r) = Len(s) - 1
      <3>1. Len(r) = Len(front) + Len(back)
        BY ONLY <2>4, <2>5
      <3>2. Len(front) + Len(back) = Len(s) - 1
        BY <2>1, <2>2, <2>3
      <3> QED BY <3>1, <3>2
    <2> QED BY <2>4, <2>5, <2>6, <2>7
  <1> HIDE DEF r
  <1>2. DOMAIN r = 1 .. Len(s) - 1 /\ DOMAIN s = 1 .. Len(s)
    BY <1>1
  <1>3. IsInjective(r)
    <2> SUFFICES ASSUME NEW a \in 1 .. Len(s) - 1, NEW b \in 1 .. Len(s) - 1,
                        r[a] = r[b]
                 PROVE  a = b
      BY <1>2 DEF IsInjective
    <2> DEFINE at(j) == IF j < i THEN j ELSE j + 1
    <2>1. at(a) \in DOMAIN s /\ at(b) \in DOMAIN s
      BY <1>2
    <2>2. s[at(a)] = s[at(b)]
      BY <1>1
    <2>3. at(a) = at(b)
      BY <2>1, <2>2 DEF IsInjective
    <2> QED BY <2>3
  <1>4. \A x \in Range(s) \ {s[i]} : x \in Range(r)
    <2> TAKE x \in Range(s) \ {s[i]}
    <2>1. PICK j \in 1 .. Len(s) : x = s[j] /\ j # i
      BY <1>2 DEF Range
    <2>2. CASE j < i
      BY <2>1, <2>2, <1>1, <1>2 DEF Range
    <2>3. CASE j > i
      <3>1. j - 1 \in 1 .. Len(s) - 1 /\ r[j - 1] = x
        BY <2>1, <2>3, <1>1
      <3> QED BY <3>1, <1>2 DEF Range
    <2> QED BY <2>1, <2>2, <2>3
  <1>5. Range(r) \subseteq Range(s) \ {s[i]}
    BY <1>1, <1>2 DEF Range, IsInjective
  <1> QED BY <1>1, <1>3, <1>4, <1>5 DEF r

\* The front of a sequence is what an append was made to.
LEMMA FrontOfAppend ==
  ASSUME NEW S, NEW s \in Seq(S), NEW e \in S
  PROVE  Front(Append(s, e)) = s
  <1> DEFINE a == Append(s, e)
  <1>1. a \in Seq(S) /\ Len(a) = Len(s) + 1 /\ \A i \in 1 .. Len(s) : a[i] = s[i]
    BY AppendProperties
  <1> HIDE DEF a
  <1>2. Len(s) \in Nat /\ \A i \in 1 .. Len(s) : a[i] \in S
    BY <1>1
  <1>3. /\ SubSeq(a, 1, Len(s)) \in Seq(S) /\ Len(SubSeq(a, 1, Len(s))) = Len(s)
        /\ \A i \in 1 .. Len(s) : SubSeq(a, 1, Len(s))[i] = a[i]
    BY <1>2, SubSeqProperties
  <1>4. SubSeq(a, 1, Len(s)) = s
    BY <1>1, <1>3, SeqEqual
  <1>5. Front(a) = SubSeq(a, 1, Len(s))
    BY <1>1, <1>2 DEF Front
  <1> QED BY <1>4, <1>5 DEF a

\* Putting an element before a sequence and taking the first one off undo each
\* other.
LEMMA ConsFacts ==
  ASSUME NEW S, NEW s \in Seq(S), NEW e \in S
  PROVE  /\ <<e>> \o s \in Seq(S) /\ <<e>> \o s # <<>>
         /\ Tail(<<e>> \o s) = s
         /\ s # <<>> => <<Head(s)>> \o Tail(s) = s
  <1>1. <<e>> \in Seq(S) /\ Len(<<e>>) = 1 /\ <<e>> # <<>>
    OBVIOUS
  <1>2. /\ <<e>> \o s \in Seq(S) /\ Len(<<e>> \o s) = 1 + Len(s)
        /\ \A i \in 1 .. 1 + Len(s) : (<<e>> \o s)[i] = IF i <= 1 THEN <<e>>[i] ELSE s[i - 1]
    BY <1>1, ConcatProperties
  <1>3. <<e>> \o s # <<>>
    BY <1>1, ConcatEqualIffEmpty
  <1>4. Tail(<<e>> \o s) = s
    <2> DEFINE c == <<e>> \o s
    <2>1. /\ Tail(c) \in Seq(S) /\ Len(Tail(c)) = Len(c) - 1
          /\ \A i \in 1 .. Len(Tail(c)) : Tail(c)[i] = c[i + 1]
      BY <1>2, <1>3, HeadTailProperties
    <2>2. Len(c) = 1 + Len(s) /\ \A i \in 1 .. Len(s) : c[i + 1] = s[i]
      BY <1>2
    <2> HIDE DEF c
    <2>3. Len(Tail(c)) = Len(s)
      BY <2>1, <2>2
    <2>4. \A i \in 1 .. Len(Tail(c)) : Tail(c)[i] = s[i]
      BY <2>1, <2>2, <2>3
    <2>5. Tail(c) = s
      BY <2>1, <2>3, <2>4, SeqEqual
    <2> QED BY <2>5 DEF c
  <1>5. ASSUME s # <<>> PROVE <<Head(s)>> \o Tail(s) = s
    <2>1. Len(s) \in Nat \ {0}
      BY <1>5, EmptySeq
    <2>2. SubSeq(s, 1, Len(s)) = <<s[1]>> \o SubSeq(s, 2, Len(s))
      BY <2>1, SubSeqRecursiveFirst
    <2>3. Tail(s) = SubSeq(s, 2, Len(s)) /\ SubSeq(s, 1, Len(s)) = s
      BY <1>5, TailIsSubSeq, SubSeqFull
    <2>4. Head(s) = s[1]
      BY <1>5
    <2> QED BY <2>2, <2>3, <2>4
  <1> QED BY <1>2, <1>3, <1>4, <1>5

\* A sequence has at most as many different elements as positions.
LEMMA RangeBound ==
  ASSUME NEW S, NEW s \in Seq(S)
  PROVE  IsFiniteSet(Range(s)) /\ Cardinality(Range(s)) <= Len(s)
  <1>1. Len(s) \in Nat /\ s \in Surjection(1 .. Len(s), Range(s))
    BY DEF Surjection, Range
  <1>2. IsFiniteSet(1 .. Len(s)) /\ Cardinality(1 .. Len(s)) = Len(s)
    <2>1. \A n \in Int : /\ IsFiniteSet(1 .. n)
                         /\ Cardinality(1 .. n) = IF 1 > n THEN 0 ELSE n - 1 + 1
      BY FS_Interval
    <2> QED BY <1>1, <2>1
  <1>3. IsFiniteSet(Range(s)) /\ Cardinality(Range(s)) <= Cardinality(1 .. Len(s))
    BY <1>1, <1>2, FS_Surjection
  <1> QED BY <1>2, <1>3

\* A set in which any two elements are equal has one element or none.
LEMMA AtMostOne ==
  ASSUME NEW S, \A x, y \in S : x = y
  PROVE  /\ S = {} => Cardinality(S) = 0
         /\ S # {} => Cardinality(S) = 1
  <1>1. S # {} => \E x : S = {x}
    OBVIOUS
  <1> QED BY <1>1, FS_EmptySet, FS_Singleton

-----------------------------------------------------------------------------
\* Every non-empty set of naturals has a least element.  Proofs by a smallest
\* counterexample use it in place of induction.
LEMMA LeastNat ==
  ASSUME NEW T \in SUBSET Nat, T # {}
  PROVE  \E n \in T : \A m \in T : n <= m
  <1>1. PICK n \in T : \A m \in T : <<m, n>> \notin OpToRel(<, Nat)
    BY NatLessThanWellFounded, WFMin
  <1>2. \A m \in T : ~(m < n)
    BY <1>1 DEF OpToRel
  <1> QED BY <1>2

\* A non-empty set of naturals with a bound has a maximum.
LEMMA MaxFacts ==
  ASSUME NEW n \in Nat, NEW S \in SUBSET (0 .. n), S # {}
  PROVE  Max(S) \in S /\ \A y \in S : y <= Max(S)
  <1> DEFINE T == {n - x : x \in S}
  <1>1. T \in SUBSET Nat /\ T # {}
    <2>1. \A x \in S : x \in 0 .. n
      OBVIOUS
    <2>2. \A x \in S : n - x \in Nat
      BY <2>1
    <2> QED BY <2>2
  <1>2. PICK m \in T : \A o \in T : m <= o
    <2> HIDE DEF T
    <2> QED BY <1>1, LeastNat
  <1>3. PICK x \in S : m = n - x
    BY <1>2
  <1>4. \A y \in S : x >= y
    <2> TAKE y \in S
    <2>1. n - x <= n - y
      BY <1>2, <1>3
    <2>2. x \in 0 .. n /\ y \in 0 .. n
      BY <1>3
    <2>3. x \in Int /\ y \in Int
      BY <2>2
    <2> QED BY <2>1, <2>3
  <1>5. Max(S) \in S /\ \A y \in S : Max(S) >= y
    BY <1>4 DEF Max
  <1>6. \A y \in S : y <= Max(S)
    BY <1>5
  <1> QED BY <1>5, <1>6

\* The larger of two.
LEMMA MaxOfTwo ==
  ASSUME NEW a \in Nat, NEW b \in Nat
  PROVE  Max({a, b}) = IF a >= b THEN a ELSE b
  <1>1. CASE a >= b
    <2>1. a \in {a, b} /\ \A y \in {a, b} : a >= y
      BY <1>1
    <2>2. Max({a, b}) \in {a, b} /\ \A y \in {a, b} : Max({a, b}) >= y
      BY <2>1 DEF Max
    <2> QED BY <1>1, <2>2
  <1>2. CASE ~(a >= b)
    <2>1. b \in {a, b} /\ \A y \in {a, b} : b >= y
      BY <1>2
    <2>2. Max({a, b}) \in {a, b} /\ \A y \in {a, b} : Max({a, b}) >= y
      BY <2>1 DEF Max
    <2> QED BY <1>2, <2>2
  <1> QED BY <1>1, <1>2

\* A non-empty sequence of naturals has a position that is not below any
\* other, and a first such position.
LEMMA FirstMaximum ==
  ASSUME NEW k, NEW n \in Nat, n # 0, \A j \in 1 .. n : k[j] \in Nat
  PROVE  \E i \in 1 .. n : /\ \A j \in 1 .. n : k[j] <= k[i]
                           /\ \A j \in 1 .. n : j < i => k[j] < k[i]
  <1> DEFINE MaxOf(m) == \E i \in 1 .. m : \A j \in 1 .. m : k[j] <= k[i]
             Bad == {m \in 1 .. n : ~MaxOf(m)}
  <1>1. Bad = {}
    <2> SUFFICES ASSUME Bad # {} PROVE FALSE
      OBVIOUS
    <2>1. PICK m \in Bad : \A o \in Bad : m <= o
      <3>1. Bad \in SUBSET Nat
        OBVIOUS
      <3> HIDE DEF Bad
      <3> QED BY <3>1, LeastNat
    <2>2. m # 1
      BY <2>1
    <2>3. m - 1 \in 1 .. n /\ m - 1 \notin Bad
      <3>1. m \in 1 .. n
        BY <2>1
      <3>2. m - 1 \in 1 .. n /\ ~(m <= m - 1)
        BY <2>2, <3>1
      <3> HIDE DEF Bad
      <3> QED BY <2>1, <3>2
    <2>4. PICK i \in 1 .. m - 1 : \A j \in 1 .. m - 1 : k[j] <= k[i]
      BY <2>3
    <2>5. k[m] \in Nat /\ k[i] \in Nat
      BY <2>1, <2>4
    <2>6. CASE k[m] <= k[i]
      <3>1. \A j \in 1 .. m : k[j] <= k[i]
        BY <2>1, <2>4, <2>6
      <3> QED BY <2>1, <2>4, <3>1
    <2>7. CASE ~(k[m] <= k[i])
      <3>1. \A j \in 1 .. m : k[j] <= k[m]
        <4> TAKE j \in 1 .. m
        <4>1. k[j] \in Nat
          BY <2>1
        <4>2. CASE j = m
          BY <4>2, <4>1
        <4>3. CASE j # m
          BY <2>1, <2>4, <2>5, <2>7, <4>1, <4>3
        <4> QED BY <4>2, <4>3
      <3> QED BY <2>1, <3>1
    <2> QED BY <2>6, <2>7
  <1>2. MaxOf(n)
    BY <1>1
  <1> DEFINE Best == {i \in 1 .. n : \A j \in 1 .. n : k[j] <= k[i]}
  <1>3. PICK i \in Best : \A j \in Best : i <= j
    <2>1. Best # {} /\ Best \in SUBSET Nat
      BY <1>2
    <2> HIDE DEF Best
    <2> QED BY <2>1, LeastNat
  <1>4. ASSUME NEW j \in 1 .. n, j < i PROVE k[j] < k[i]
    <2>1. j \notin Best
      BY <1>3, <1>4
    <2>2. PICK h \in 1 .. n : ~(k[h] <= k[j])
      BY <2>1
    <2>3. k[h] <= k[i] /\ k[j] \in Nat /\ k[h] \in Nat /\ k[i] \in Nat
      BY <1>3
    <2> QED BY <2>2, <2>3
  <1> QED BY <1>3, <1>4

\* The first k elements of a sequence.
LEMMA FirstRecords ==
  ASSUME NEW S, NEW s \in Seq(S), NEW k \in 0 .. Len(s)
  PROVE  /\ SubSeq(s, 1, k) \in Seq(S) /\ Len(SubSeq(s, 1, k)) = k
         /\ \A i \in 1 .. k : SubSeq(s, 1, k)[i] = s[i]
  <1>1. Len(s) \in Nat /\ k \in Int /\ \A i \in 1 .. k : s[i] \in S
    OBVIOUS
  <1>2. /\ SubSeq(s, 1, k) \in Seq(S)
        /\ Len(SubSeq(s, 1, k)) = IF 1 <= k THEN k - 1 + 1 ELSE 0
        /\ \A i \in 1 .. k - 1 + 1 : SubSeq(s, 1, k)[i] = s[1 + i - 1]
    BY <1>1, SubSeqProperties
  <1>3. Len(SubSeq(s, 1, k)) = k
    BY <1>2
  <1>4. \A i \in 1 .. k : i \in 1 .. k - 1 + 1 /\ 1 + i - 1 = i
    OBVIOUS
  <1> QED BY <1>2, <1>3, <1>4

\* A sequence that is one after another is their concatenation.
LEMMA ConcatIs ==
  ASSUME NEW S, NEW u \in Seq(S), NEW v \in Seq(S), NEW w \in Seq(S), Len(w) = Len(u) + Len(v),
         \A j \in 1 .. Len(u) : w[j] = u[j], \A j \in 1 .. Len(v) : w[Len(u) + j] = v[j]
  PROVE  w = u \o v
  <1>1. PICK x : x = u \o v
    OBVIOUS
  <1>2. /\ x \in Seq(S) /\ Len(x) = Len(u) + Len(v)
        /\ \A i \in 1 .. Len(u) + Len(v) : x[i] = IF i <= Len(u) THEN u[i] ELSE v[i - Len(u)]
    BY <1>1, ConcatProperties
  <1>3. PICK a \in Nat, b \in Nat : a = Len(u) /\ b = Len(v)
    OBVIOUS
  <1>4. ASSUME NEW i \in 1 .. a + b PROVE w[i] = x[i]
    <2>1. CASE i <= a
      <3>1. i \in 1 .. a
        BY <2>1
      <3> QED BY <1>2, <1>3, <2>1, <3>1
    <2>2. CASE ~(i <= a)
      <3>1. i - a \in 1 .. b /\ a + (i - a) = i
        BY <2>2
      <3>2. w[i] = v[i - a]
        BY <1>3, <3>1
      <3> QED BY <1>2, <1>3, <2>2, <3>2
    <2> QED BY <2>1, <2>2
  <1>5. w = x
    BY <1>2, <1>3, <1>4
  <1> QED BY <1>1, <1>5
=============================================================================
