------------------------ MODULE CloseEvidence_proofs ------------------------
(* Proofs about the reading of close evidence, for any finite number of     *)
(* trades on the instrument and any number of units.                        *)
EXTENDS CloseEvidence, FiniteSetTheorems, SequenceTheorems, TLAPS

-----------------------------------------------------------------------------
\* Sums over finite sets.  The fold of the library is a recursive function:
\* that one exists, and what it adds up to, is shown by taking a smallest set
\* on which it would fail.

Chosen(s) == CHOOSE x \in s : TRUE

Step(w, s, g) == IF s = {} THEN 0 ELSE w[Chosen(s)] + g[s \ {Chosen(s)}]

\* g[s] is the sum of w over s, for every subset s of S.
Adds(w, S, g) == g = [s \in SUBSET S |-> Step(w, s, g)]

(* The sum of the library, unfolded.                                        *)
LEMMA SumUnfolded ==
    ASSUME NEW w, NEW S
    PROVE  SumFunctionOnSet(w, S) = (CHOOSE g : Adds(w, S, g))[S]
BY DEF SumFunctionOnSet, FoldFunctionOnSet, MapThenFoldSet, Adds, Step, Chosen

(* A set of naturals has a least member.                                    *)
LEMMA LeastNatural ==
    ASSUME NEW T \in SUBSET Nat, T # {}
    PROVE  \E n \in T : \A m \in T : n <= m
<1> DEFINE R == OpToRel(<, Nat)
<1>1. PICK n \in T : \A m \in T : ~ (<<m, n>> \in R)
  BY NatLessThanWellFounded, WFMin
<1>2. \A m \in T : m < n => <<m, n>> \in R
  BY DEF OpToRel
<1> HIDE DEF R
<1>3. \A m \in T : ~ (m < n)
  BY <1>1, <1>2
<1>4. \A m \in T : n <= m
  BY <1>3
<1> QED
  BY <1>4

(* Among the subsets of a finite set there is one without a smaller one.    *)
LEMMA LeastSubset ==
    ASSUME NEW S, IsFiniteSet(S), NEW B \in SUBSET (SUBSET S), B # {}
    PROVE  \E s \in B : \A x \in s : s \ {x} \notin B
<1>1. IsWellFoundedOn(StrictSubsetOrdering(S), SUBSET S)
  BY FS_StrictSubsetOrderingWellFounded, FS_FiniteSubsetsOfFinite
<1>2. PICK s \in B : \A r \in B : ~ (<<r, s>> \in StrictSubsetOrdering(S))
  BY <1>1, WFMin
<1>3. \A x \in s : s \ {x} \notin B
  <2> SUFFICES ASSUME NEW x \in s, s \ {x} \in B
               PROVE  FALSE
    OBVIOUS
  <2>1. <<s \ {x}, s>> \in StrictSubsetOrdering(S)
    BY DEF StrictSubsetOrdering
  <2> QED
    BY <1>2, <2>1
<1> QED
  BY <1>3

(* There is a function that adds up the subsets of a finite set.            *)
LEMMA SumExists ==
    ASSUME NEW S, IsFiniteSet(S), NEW w, \A x \in S : w[x] \in Nat
    PROVE  \E g : Adds(w, S, g)
<1> DEFINE Small(n) == {s \in SUBSET S : Cardinality(s) <= n}
           Upto(n) == \E g \in [Small(n) -> Nat] : \A s \in Small(n) : g[s] = Step(w, s, g)
<1>1. Upto(0)
  <2>1. \A s \in Small(0) : s = {}
    BY FS_Subset, FS_EmptySet, FS_CardinalityType
  <2>2. [s \in Small(0) |-> 0] \in [Small(0) -> Nat]
    OBVIOUS
  <2> QED
    BY <2>1, <2>2 DEF Step
<1>2. ASSUME NEW n \in Nat, Upto(n)
      PROVE  Upto(n + 1)
  <2>1. PICK g \in [Small(n) -> Nat] : \A s \in Small(n) : g[s] = Step(w, s, g)
    BY <1>2
  <2> DEFINE h == [s \in Small(n + 1) |-> Step(w, s, g)]
  <2>2. ASSUME NEW s \in Small(n + 1), s # {}
        PROVE  Chosen(s) \in S /\ s \ {Chosen(s)} \in Small(n) /\ s \ {Chosen(s)} \in Small(n + 1)
    <3>1. Chosen(s) \in s /\ IsFiniteSet(s)
      BY <2>2, FS_Subset DEF Chosen
    <3>2. Cardinality(s) \in Nat /\ Cardinality(s \ {Chosen(s)}) = Cardinality(s) - 1
      BY <3>1, FS_RemoveElement, FS_CardinalityType
    <3> QED
      BY <3>1, <3>2
  <2>3. ASSUME NEW s \in Small(n)
        PROVE  s \in Small(n + 1) /\ h[s] = g[s]
    <3>1. Cardinality(s) \in Nat
      BY FS_Subset, FS_CardinalityType
    <3> QED
      BY <2>1, <3>1
  <2>4. ASSUME NEW s \in Small(n + 1)
        PROVE  h[s] \in Nat /\ h[s] = Step(w, s, h)
    <3>1. CASE s = {}
      BY <3>1 DEF Step
    <3>2. CASE s # {}
      <4> DEFINE c == Chosen(s)
      <4>1. c \in S /\ s \ {c} \in Small(n) /\ s \ {c} \in Small(n + 1)
        BY <2>2, <3>2
      <4>2. h[s] = w[c] + g[s \ {c}] /\ h[s \ {c}] = g[s \ {c}]
        BY <2>3, <3>2, <4>1 DEF Step
      <4>3. Step(w, s, h) = w[c] + h[s \ {c}]
        BY <3>2 DEF Step
      <4>4. g[s \ {c}] \in Nat /\ w[c] \in Nat
        BY <4>1
      <4> QED
        BY <4>2, <4>3, <4>4
    <3> QED
      BY <3>1, <3>2
  <2>5. h \in [Small(n + 1) -> Nat]
    BY <2>4
  <2> HIDE DEF h
  <2> QED
    BY <2>4, <2>5
<1>3. Upto(Cardinality(S))
  <2> DEFINE Bad == {n \in Nat : ~Upto(n)}
  <2> HIDE DEF Upto
  <2>1. ASSUME Bad # {}
        PROVE  FALSE
    <3>1. PICK n \in Bad : \A m \in Bad : n <= m
      BY <2>1, LeastNatural
    <3>2. n # 0 /\ n - 1 \in Nat /\ n - 1 \notin Bad
      BY <1>1, <3>1
    <3>3. Upto((n - 1) + 1)
      BY <1>2, <3>2
    <3> QED
      BY <3>1, <3>3
  <2>2. Cardinality(S) \in Nat
    BY FS_CardinalityType
  <2> QED
    BY <2>1, <2>2
<1>4. PICK g \in [Small(Cardinality(S)) -> Nat] :
         \A s \in Small(Cardinality(S)) : g[s] = Step(w, s, g)
  BY <1>3
<1>5. Small(Cardinality(S)) = SUBSET S
  BY FS_Subset
<1>6. Adds(w, S, g)
  <2> HIDE DEF Small
  <2> QED
    BY <1>4, <1>5 DEF Adds
<1> QED
  BY <1>6

(* What a sum of naturals over a finite set is: any one term and the sum of *)
(* the others.                                                              *)
LEMMA SumSplits ==
    ASSUME NEW S, IsFiniteSet(S), NEW w, \A x \in S : w[x] \in Nat,
           NEW g, Adds(w, S, g)
    PROVE  /\ \A s \in SUBSET S : g[s] \in Nat
           /\ \A s \in SUBSET S : \A x \in s : g[s] = w[x] + g[s \ {x}]
           /\ \A s \in SUBSET S : (\A x \in s : w[x] = 0) => g[s] = 0
<1>1. ASSUME NEW s \in SUBSET S
      PROVE  /\ s = {} => g[s] = 0
             /\ s # {} => Chosen(s) \in s /\ g[s] = w[Chosen(s)] + g[s \ {Chosen(s)}]
  BY <1>1 DEF Adds, Step, Chosen
<1>2. \A s \in SUBSET S : g[s] \in Nat
  <2> DEFINE Bad == {s \in SUBSET S : g[s] \notin Nat}
  <2>1. ASSUME Bad # {}
        PROVE  FALSE
    <3>1. PICK s \in Bad : \A x \in s : s \ {x} \notin Bad
      BY <2>1, LeastSubset
    <3> DEFINE c == Chosen(s)
    <3>2. s \in SUBSET S /\ s # {}
      <4>1. s \in SUBSET S /\ g[s] # 0
        BY <3>1
      <4> QED
        BY <1>1, <4>1
    <3>3. c \in s /\ g[s] = w[c] + g[s \ {c}]
      BY <1>1, <3>2
    <3> HIDE DEF c
    <3>4. w[c] \in Nat /\ g[s \ {c}] \in Nat
      BY <3>1, <3>2, <3>3
    <3> QED
      BY <3>1, <3>3, <3>4
  <2> QED
    BY <2>1
<1>3. \A s \in SUBSET S : (\A x \in s : w[x] = 0) => g[s] = 0
  <2> DEFINE Bad == {s \in SUBSET S : (\A x \in s : w[x] = 0) /\ g[s] # 0}
  <2>1. ASSUME Bad # {}
        PROVE  FALSE
    <3>1. PICK s \in Bad : \A x \in s : s \ {x} \notin Bad
      BY <2>1, LeastSubset
    <3> DEFINE c == Chosen(s)
    <3>2. s \in SUBSET S /\ s # {}
      BY <1>1, <3>1
    <3>3. c \in s /\ g[s] = w[c] + g[s \ {c}]
      BY <1>1, <3>2
    <3> HIDE DEF c
    <3>4. w[c] = 0 /\ g[s \ {c}] = 0
      BY <3>1, <3>2, <3>3
    <3> QED
      BY <3>1, <3>3, <3>4
  <2> QED
    BY <2>1
<1>4. \A s \in SUBSET S : \A x \in s : g[s] = w[x] + g[s \ {x}]
  <2> DEFINE Bad == {s \in SUBSET S : \E x \in s : g[s] # w[x] + g[s \ {x}]}
  <2>1. ASSUME Bad # {}
        PROVE  FALSE
    <3>1. PICK s \in Bad : \A x \in s : s \ {x} \notin Bad
      BY <2>1, LeastSubset
    <3>2. PICK x \in s : g[s] # w[x] + g[s \ {x}]
      BY <3>1
    <3> DEFINE c == Chosen(s)
    <3>3. c \in s /\ g[s] = w[c] + g[s \ {c}]
      BY <1>1, <3>2
    <3> HIDE DEF c
    <3>4. g[s \ {c}] = w[x] + g[(s \ {c}) \ {x}]
      BY <3>1, <3>2, <3>3
    <3>5. g[s \ {x}] = w[c] + g[(s \ {x}) \ {c}]
      BY <3>1, <3>2, <3>3
    <3>6. (s \ {c}) \ {x} = (s \ {x}) \ {c}
      OBVIOUS
    <3>7. w[x] \in Nat /\ w[c] \in Nat /\ g[(s \ {x}) \ {c}] \in Nat
      BY <1>2, <3>2, <3>3
    <3> QED
      <4> DEFINE d == (s \ {c}) \ {x}
      <4>1. g[s] = w[c] + (w[x] + g[d]) /\ g[s \ {x}] = w[c] + g[d] /\ g[d] \in Nat
        BY <3>3, <3>4, <3>5, <3>6, <3>7
      <4> HIDE DEF d
      <4> QED
        BY <3>2, <3>7, <4>1
  <2> QED
    BY <2>1
<1> QED
  BY <1>2, <1>3, <1>4

(* A sum of naturals over a finite set, as the model uses it.               *)
LEMMA SumFacts ==
    ASSUME NEW S, IsFiniteSet(S), NEW w, \A x \in S : w[x] \in Nat
    PROVE  /\ SumFunctionOnSet(w, S) \in Nat
           /\ \A x \in S : SumFunctionOnSet(w, S) >= w[x]
           /\ \A x, y \in S : x # y => SumFunctionOnSet(w, S) >= w[x] + w[y]
           /\ (\A x \in S : w[x] = 0) => SumFunctionOnSet(w, S) = 0
           /\ \A x \in S :
                 (\A y \in S \ {x} : w[y] = 0) => SumFunctionOnSet(w, S) = w[x]
<1> DEFINE g == CHOOSE f : Adds(w, S, f)
<1>1. Adds(w, S, g)
  BY SumExists
<1>2. SumFunctionOnSet(w, S) = g[S]
  BY SumUnfolded
<1> HIDE DEF g
<1>3. /\ \A s \in SUBSET S : g[s] \in Nat
      /\ \A s \in SUBSET S : \A x \in s : g[s] = w[x] + g[s \ {x}]
      /\ \A s \in SUBSET S : (\A x \in s : w[x] = 0) => g[s] = 0
  BY <1>1, SumSplits
<1>4. ASSUME NEW x \in S
      PROVE  /\ g[S] = w[x] + g[S \ {x}]
             /\ g[S \ {x}] \in Nat
             /\ (\A y \in S \ {x} : w[y] = 0) => g[S \ {x}] = 0
             /\ \A y \in S \ {x} : g[S \ {x}] = w[y] + g[(S \ {x}) \ {y}]
             /\ \A y \in S \ {x} : g[(S \ {x}) \ {y}] \in Nat
  <2>1. S \in SUBSET S /\ S \ {x} \in SUBSET S
    OBVIOUS
  <2>2. \A y \in S \ {x} : (S \ {x}) \ {y} \in SUBSET S
    OBVIOUS
  <2> QED
    BY <1>3, <2>1, <2>2
<1>5. g[S] \in Nat /\ ((\A x \in S : w[x] = 0) => g[S] = 0)
  BY <1>3
<1>6. ASSUME NEW x \in S
      PROVE  g[S] >= w[x] /\ ((\A y \in S \ {x} : w[y] = 0) => g[S] = w[x])
  <2> DEFINE rest == g[S \ {x}]
  <2>1. w[x] \in Nat /\ rest \in Nat /\ g[S] = w[x] + rest
    BY <1>4
  <2>2. (\A y \in S \ {x} : w[y] = 0) => rest = 0
    BY <1>4
  <2> HIDE DEF rest
  <2> QED
    BY <2>1, <2>2
<1>7. ASSUME NEW x \in S, NEW y \in S, x # y
      PROVE  g[S] >= w[x] + w[y]
  <2>1. y \in S \ {x} /\ w[x] \in Nat /\ w[y] \in Nat
    BY <1>7
  <2>2. g[S] = w[x] + (w[y] + g[(S \ {x}) \ {y}]) /\ g[(S \ {x}) \ {y}] \in Nat
    BY <1>4, <2>1
  <2> QED
    BY <2>1, <2>2
<1> QED
  BY <1>2, <1>5, <1>6, <1>7

-----------------------------------------------------------------------------
\* Sequences that list a finite set, and sets of the members of a sequence.

LEMMA IndicesFinite ==
    ASSUME NEW X, NEW q \in Seq(X)
    PROVE  /\ IsFiniteSet(ToSet(q))
           /\ ToSet(q) \in SUBSET X
<1>1. IsFiniteSet(1 .. Len(q)) /\ DOMAIN q = 1 .. Len(q)
  BY FS_Interval
<1>2. [i \in 1 .. Len(q) |-> q[i]] \in Surjection(1 .. Len(q), ToSet(q))
  BY <1>1 DEF Surjection, ToSet
<1> QED
  BY <1>1, <1>2, FS_Surjection DEF ToSet

(* An injective sequence as long as a finite set lists all of it.           *)
LEMMA ListsAll ==
    ASSUME NEW S, IsFiniteSet(S), NEW q \in [1 .. Cardinality(S) -> S],
           \A i, j \in 1 .. Cardinality(S) : q[i] = q[j] => i = j
    PROVE  q \in Seq(S) /\ Len(q) = Cardinality(S) /\ ToSet(q) = S
<1>1. Cardinality(S) \in Nat
  BY FS_CardinalityType
<1>2. IsFiniteSet(1 .. Cardinality(S)) /\ Cardinality(1 .. Cardinality(S)) = Cardinality(S)
  BY <1>1, FS_Interval
<1>3. q \in Injection(1 .. Cardinality(S), S)
  BY DEF Injection, IsInjective
<1>4. q \in Surjection(1 .. Cardinality(S), S)
  BY <1>2, <1>3, FS_Injection
<1>5. ToSet(q) = S
  BY <1>4 DEF Surjection, ToSet
<1> QED
  BY <1>1, <1>5

(* SetToSeqs lists a set without repetition, in any order.                  *)
LEMMA SetToSeqsFacts ==
    ASSUME NEW S, IsFiniteSet(S), NEW q \in SetToSeqs(S)
    PROVE  /\ q \in Seq(S) /\ ToSet(q) = S
           /\ \A i, j \in DOMAIN q : i # j => q[i] # q[j]
<1>1. q \in [1 .. Cardinality(S) -> S]
  BY DEF SetToSeqs
<1>2. \A i, j \in 1 .. Cardinality(S) : q[i] = q[j] => i = j
  BY DEF SetToSeqs
<1> QED
  BY <1>1, <1>2, ListsAll

(* SetToSeq lists a set.                                                    *)
LEMMA SetToSeqFacts ==
    ASSUME NEW S, IsFiniteSet(S)
    PROVE  SetToSeq(S) \in Seq(S) /\ ToSet(SetToSeq(S)) = S
<1> DEFINE n == Cardinality(S)
<1>1. \E f \in [1 .. n -> S] : IsInjective(f)
  BY FS_CardinalityType DEF ExistsBijection, Bijection, Injection
<1>2. SetToSeq(S) \in [1 .. n -> S] /\ IsInjective(SetToSeq(S))
  BY <1>1 DEF SetToSeq
<1> QED
  BY <1>2, ListsAll DEF IsInjective

(* Taking one entry out of a sequence leaves the others.                    *)
LEMMA RemoveAtFacts ==
    ASSUME NEW X, NEW q \in Seq(X), NEW i \in DOMAIN q
    PROVE  /\ RemoveAt(q, i) \in Seq(X)
           /\ ToSet(RemoveAt(q, i)) \subseteq ToSet(q)
           /\ \A j \in DOMAIN q : j # i => q[j] \in ToSet(RemoveAt(q, i))
<1> DEFINE left  == SubSeq(q, 1, i - 1)
           right == SubSeq(q, i + 1, Len(q))
<1>1. /\ i \in 1 .. Len(q) /\ Len(q) \in Nat
      /\ \A j \in 1 .. Len(q) : q[j] \in X
  OBVIOUS
<1>2. /\ left \in Seq(X) /\ Len(left) = i - 1
      /\ \A j \in 1 .. i - 1 : left[j] = q[j]
  <2>1. \A j \in 1 .. i - 1 : q[j] \in X
    BY <1>1
  <2>2. 1 \in Int /\ i - 1 \in Int /\ i - 1 >= 0
    BY <1>1
  <2>3. /\ left \in Seq(X)
        /\ Len(left) = IF 1 <= i - 1 THEN (i - 1) - 1 + 1 ELSE 0
        /\ \A j \in 1 .. (i - 1) - 1 + 1 : left[j] = q[1 + j - 1]
    BY <2>1, <2>2, SubSeqProperties
  <2> QED
    BY <2>2, <2>3
<1>3. /\ right \in Seq(X) /\ Len(right) = Len(q) - i
      /\ \A j \in 1 .. Len(q) - i : right[j] = q[i + j]
  <2>1. \A j \in i + 1 .. Len(q) : q[j] \in X
    BY <1>1
  <2>2. i + 1 \in Int /\ Len(q) \in Int /\ Len(q) - i >= 0
    BY <1>1
  <2>3. /\ right \in Seq(X)
        /\ Len(right) = IF i + 1 <= Len(q) THEN Len(q) - (i + 1) + 1 ELSE 0
        /\ \A j \in 1 .. Len(q) - (i + 1) + 1 : right[j] = q[(i + 1) + j - 1]
    BY <2>1, <2>2, SubSeqProperties
  <2>4. /\ Len(q) - (i + 1) + 1 = Len(q) - i
        /\ \A j \in 1 .. Len(q) - i : (i + 1) + j - 1 = i + j
    BY <1>1
  <2>5. Len(right) = Len(q) - i
    BY <1>1, <2>2, <2>3
  <2> HIDE DEF right
  <2> QED
    BY <2>3, <2>4, <2>5
<1> DEFINE rest == left \o right
<1> HIDE DEF left, right
<1>4. /\ rest \in Seq(X) /\ Len(rest) = Len(q) - 1
      /\ \A j \in 1 .. Len(q) - 1 :
            rest[j] = IF j <= i - 1 THEN left[j] ELSE right[j - (i - 1)]
  <2>1. /\ rest \in Seq(X)
        /\ Len(rest) = Len(left) + Len(right)
        /\ \A j \in 1 .. Len(left) + Len(right) :
              rest[j] = IF j <= Len(left) THEN left[j] ELSE right[j - Len(left)]
    BY <1>2, <1>3, ConcatProperties
  <2>2. Len(left) = i - 1 /\ Len(left) + Len(right) = Len(q) - 1
    BY <1>1, <1>2, <1>3
  <2> HIDE DEF rest
  <2> QED
    BY <2>1, <2>2
<1> HIDE DEF rest
<1>5. ASSUME NEW j \in 1 .. i - 1
      PROVE  j \in DOMAIN rest /\ rest[j] = q[j]
  BY <1>1, <1>2, <1>4
<1>6. ASSUME NEW j \in i .. Len(q) - 1
      PROVE  j \in DOMAIN rest /\ rest[j] = q[j + 1]
  <2>1. /\ j \in 1 .. Len(q) - 1 /\ ~ (j <= i - 1)
        /\ j - (i - 1) \in 1 .. Len(q) - i
        /\ i + (j - (i - 1)) = j + 1
    BY <1>1
  <2>2. rest[j] = right[j - (i - 1)]
    BY <1>4, <2>1
  <2>3. right[j - (i - 1)] = q[i + (j - (i - 1))]
    BY <1>3, <2>1
  <2> QED
    BY <1>4, <2>1, <2>2, <2>3
<1>7. \A j \in DOMAIN rest : rest[j] \in ToSet(q)
  <2> SUFFICES ASSUME NEW j \in DOMAIN rest
               PROVE  rest[j] \in ToSet(q)
    OBVIOUS
  <2>1. j \in 1 .. i - 1 \/ j \in i .. Len(q) - 1
    BY <1>1, <1>4
  <2>2. j \in DOMAIN q /\ (j \in i .. Len(q) - 1 => j + 1 \in DOMAIN q)
    BY <1>1, <1>4, <2>1
  <2> QED
    BY <1>5, <1>6, <2>1, <2>2 DEF ToSet
<1>8. ASSUME NEW j \in DOMAIN q, j # i
      PROVE  q[j] \in ToSet(rest)
  <2>1. j \in 1 .. i - 1 \/ j - 1 \in i .. Len(q) - 1
    BY <1>1, <1>8
  <2>2. j \in Int /\ (j - 1) + 1 = j
    BY <1>1
  <2>3. \E k \in DOMAIN rest : rest[k] = q[j]
    BY <1>5, <1>6, <2>1, <2>2
  <2> QED
    BY <2>3 DEF ToSet
<1>9. RemoveAt(q, i) = rest
  BY DEF RemoveAt, rest, left, right
<1>10. ToSet(rest) \subseteq ToSet(q)
  BY <1>7 DEF ToSet
<1> QED
  BY <1>4, <1>8, <1>9, <1>10

-----------------------------------------------------------------------------
\* What the rows of a body say.

Rows == [trade : Trades, units : Int]

Bodies == [units : Int, tradesClosed : Seq(Rows), tradeReduced : Seq(Rows),
           tradeOpened : BOOLEAN]

LEMMA AbsoluteFacts ==
    /\ \A n \in Int : Absolute(n) \in Nat /\ (Absolute(n) = 0 <=> n = 0)
    /\ \A n \in Nat : Absolute(n) = n /\ Absolute(-n) = n
BY DEF Absolute

LEMMA ReportFacts ==
    ASSUME NEW b \in Bodies
    PROVE  /\ IsFiniteSet(Report(b))
           /\ Report(b) \in SUBSET Rows
           /\ \A r \in Report(b) : Magnitude(b, r) = Absolute(r.units) /\ Magnitude(b, r) \in Nat
<1>1. b.tradesClosed \in Seq(Rows) /\ b.tradeReduced \in Seq(Rows)
  BY DEF Bodies
<1>2. IsFiniteSet(Report(b)) /\ Report(b) \in SUBSET Rows
  BY <1>1, IndicesFinite, FS_Union DEF Report
<1>3. \A r \in Report(b) : r.units \in Int
  BY <1>2 DEF Rows
<1> QED
  BY <1>2, <1>3, AbsoluteFacts DEF Magnitude

(* A body without contradiction says one amount of the trade, and it says   *)
(* that the others lost nothing when their rows add up to nothing           *)
(* (the sums of _signed_reduction_magnitude in apply_transaction_body).     *)
LEMMA Reading ==
    ASSUME NEW b \in Bodies, ~Contradictory(b)
    PROVE  /\ Matched(b) \in Nat /\ Other(b) \in Nat
           /\ \A r \in Report(b) : r.trade = Trade => Matched(b) = Absolute(r.units)
           /\ (\A r \in Report(b) : r.trade # Trade) => Matched(b) = 0
           /\ Other(b) = 0 <=> \A r \in Report(b) : r.trade # Trade => r.units = 0
<1> DEFINE w == Magnitudes(b)
           M == {r \in Report(b) : r.trade = Trade}
           N == {r \in Report(b) : r.trade # Trade}
<1>1. IsFiniteSet(M) /\ IsFiniteSet(N)
  BY ReportFacts, FS_Subset
<1>2. /\ \A r \in M : w[r] = Absolute(r.units) /\ w[r] \in Nat
      /\ \A r \in N : w[r] = Absolute(r.units) /\ w[r] \in Nat
  BY ReportFacts DEF Magnitudes
<1>3. \A r \in M, q \in M : r = q
  BY ReportFacts DEF Contradictory, Rows
<1>4. \A r \in N : w[r] = 0 <=> r.units = 0
  BY <1>2, ReportFacts, AbsoluteFacts DEF Rows
<1>5. Matched(b) = SumFunctionOnSet(w, M) /\ Other(b) = SumFunctionOnSet(w, N)
  BY DEF Matched, Other
<1> HIDE DEF w
<1>6. /\ SumFunctionOnSet(w, M) \in Nat
      /\ M = {} => SumFunctionOnSet(w, M) = 0
      /\ \A r \in M : SumFunctionOnSet(w, M) = w[r]
  <2>1. /\ SumFunctionOnSet(w, M) \in Nat
        /\ (\A x \in M : w[x] = 0) => SumFunctionOnSet(w, M) = 0
        /\ \A x \in M : (\A y \in M \ {x} : w[y] = 0) => SumFunctionOnSet(w, M) = w[x]
    BY <1>1, <1>2, SumFacts
  <2> HIDE DEF M
  <2> QED
    BY <1>3, <2>1
<1>7. /\ SumFunctionOnSet(w, N) \in Nat
      /\ (\A r \in N : w[r] = 0) => SumFunctionOnSet(w, N) = 0
      /\ \A r \in N : SumFunctionOnSet(w, N) >= w[r]
  BY <1>1, <1>2, SumFacts
<1>8. SumFunctionOnSet(w, N) = 0 => \A r \in N : w[r] = 0
  BY <1>2, <1>7
<1> QED
  BY <1>2, <1>4, <1>5, <1>6, <1>7, <1>8

-----------------------------------------------------------------------------
\* The broker's report.

\* A row for each trade the fill took units of, in its part of the body, and
\* the units of the fill.
TrueReport(b) ==
    /\ b \in Bodies
    /\ b.units = Side * (Sum(taken) + opened)
    /\ b.tradeOpened = (opened > 0)
    /\ \E sign \in {Side, 1} : \A r \in Report(b) : r.units = sign * taken[r.trade]
    /\ \A r \in ToSet(b.tradesClosed) : r.trade \in ClosedBy(taken)
    /\ \A t \in ClosedBy(taken) : \E r \in ToSet(b.tradesClosed) : r.trade = t
    /\ \A r \in ToSet(b.tradeReduced) : r.trade \in ReducedBy(taken)
    /\ \A t \in ReducedBy(taken) : \E r \in ToSet(b.tradeReduced) : r.trade = t
    /\ ~ListedTwice(b)

BookTypes ==
    /\ direction \in {"BUY", "SELL"}
    /\ requested \in 1 .. MaxUnits
    /\ held \in [Trades -> Amounts]
    /\ taken \in [Trades -> Amounts]
    /\ opened \in {0, 1}
    /\ \A t \in Trades : taken[t] <= held[t]

LEMMA BookFacts ==
    ASSUME BookTypes
    PROVE  /\ Side \in {-1, 1} /\ requested \in Nat \ {0}
           /\ \A t \in Trades : taken[t] \in Nat /\ held[t] \in Nat
           /\ \A t \in Trades : taken[t] > 0 <=> t \in ClosedBy(taken) \cup ReducedBy(taken)
           /\ \A t \in ClosedBy(taken) : t \in Trades /\ taken[t] > 0 /\ taken[t] = held[t]
           /\ \A t \in ReducedBy(taken) : t \in Trades /\ taken[t] > 0 /\ taken[t] # held[t]
<1>1. MaxUnits \in Nat
  BY UnitsAssumption
<1>2. \A t \in Trades : taken[t] \in Nat /\ held[t] \in Nat /\ taken[t] <= held[t]
  BY <1>1 DEF BookTypes, Amounts
<1>3. requested \in Nat \ {0}
  BY <1>1 DEF BookTypes
<1> QED
  BY <1>2, <1>3 DEF Side, ClosedBy, ReducedBy

(* What the fill took in all.                                               *)
LEMMA TakenFacts ==
    ASSUME BookTypes
    PROVE  /\ Sum(taken) \in Nat
           /\ \A t \in Trades : Sum(taken) >= taken[t]
           /\ \A s, t \in Trades : s # t => Sum(taken) >= taken[s] + taken[t]
           /\ (\A t \in Trades \ {Trade} : taken[t] = 0) => Sum(taken) = taken[Trade]
BY BookFacts, SumFacts, TradeAssumption DEF Sum

(* The true report: its rows name what was taken, in full.                  *)
LEMMA TrueRows ==
    ASSUME BookTypes, NEW b, TrueReport(b)
    PROVE  /\ \A r \in Report(b) : r.trade \in Trades /\ Absolute(r.units) = taken[r.trade]
                                   /\ taken[r.trade] > 0
           /\ \A t \in Trades : taken[t] > 0 => \E r \in Report(b) : r.trade = t
           /\ ~Contradictory(b) /\ ~ListedTwice(b)
           /\ Absolute(b.units) = Sum(taken) + opened
<1>1. PICK sign \in {Side, 1} : \A r \in Report(b) : r.units = sign * taken[r.trade]
  BY DEF TrueReport
<1>2. sign \in {-1, 1} /\ Side \in {-1, 1}
  BY BookFacts
<1>3. \A r \in Report(b) : r.trade \in Trades /\ taken[r.trade] > 0 /\ taken[r.trade] \in Nat
  BY BookFacts DEF TrueReport, Report
<1>4. \A n \in Nat : Absolute(sign * n) = n /\ Absolute(Side * n) = n
  BY <1>2 DEF Absolute
<1>5. \A r \in Report(b) : Absolute(r.units) = taken[r.trade]
  BY <1>1, <1>3, <1>4
<1>6. \A t \in Trades : taken[t] > 0 => \E r \in Report(b) : r.trade = t
  BY BookFacts DEF TrueReport, Report
<1>7. ~Contradictory(b)
  BY <1>1 DEF Contradictory
<1>8. Absolute(b.units) = Sum(taken) + opened
  BY <1>4, TakenFacts DEF TrueReport, BookTypes
<1> QED
  BY <1>3, <1>5, <1>6, <1>7, <1>8 DEF TrueReport

(* What a full confirmation takes (the last checks of                       *)
(* apply_transaction_body).                                                 *)
LEMMA Confirmed ==
    ASSUME NEW b, Verdict(b) = "FULLY_CONFIRMED"
    PROVE  /\ ~ListedTwice(b) /\ ~Contradictory(b)
           /\ FillExplained(b) /\ ~ (Other(b) > 0)
           /\ ~ (Matched(b) > requested) /\ ~ (Matched(b) < requested)
           /\ \E r \in ToSet(b.tradesClosed) : r.trade = Trade
BY DEF Verdict, Unreadable

(* A true report is not put aside as unreadable unless the trade lost       *)
(* nothing.                                                                 *)
LEMMA TrueReadable ==
    ASSUME BookTypes, NEW b, TrueReport(b), taken # None \/ opened > 0
    PROVE  Unreadable(b) <=> taken[Trade] = 0
<1>1. PICK sign \in {Side, 1} : \A r \in Report(b) : r.units = sign * taken[r.trade]
  BY DEF TrueReport
<1>2. Trade \in Trades /\ taken[Trade] \in Nat
  BY BookFacts, TradeAssumption
<1>3. Sum(taken) + opened > 0
  <2>1. CASE taken # None
    <3>1. PICK t \in Trades : taken[t] # 0
      BY <2>1 DEF None, BookTypes
    <3>2. taken[t] \in Nat /\ Sum(taken) >= taken[t] /\ Sum(taken) \in Nat
      BY BookFacts, TakenFacts
    <3> QED
      BY <3>1, <3>2 DEF BookTypes
  <2> QED
    BY <2>1, TakenFacts DEF BookTypes
<1>4. ~WrongDirection(b)
  <2>1. Sum(taken) + opened \in Nat
    BY TakenFacts DEF BookTypes
  <2> QED
    BY <1>3, <2>1 DEF WrongDirection, TrueReport, Side
<1>5. ~NegativeUnits(b)
  <2> SUFFICES ASSUME NEW r \in Report(b), b.units > 0, r.units < 0
               PROVE  FALSE
    BY DEF NegativeUnits
  <2>1. Side = 1
    <3>1. Sum(taken) + opened \in Nat
      BY TakenFacts DEF BookTypes
    <3> QED
      BY <3>1 DEF TrueReport, Side
  <2>2. taken[r.trade] \in Nat
    BY BookFacts, TrueRows
  <2> QED
    BY <1>1, <2>1, <2>2
<1>6. (\A r \in Report(b) : r.trade # Trade) <=> taken[Trade] = 0
  <2>1. ASSUME taken[Trade] = 0, NEW r \in Report(b)
        PROVE  r.trade # Trade
    BY <2>1, TrueRows
  <2>2. ASSUME taken[Trade] # 0
        PROVE  \E r \in Report(b) : r.trade = Trade
    BY <1>2, <2>2, TrueRows
  <2> QED
    BY <2>1, <2>2
<1>7. Report(b) = {} => taken[Trade] = 0
  BY <1>6
<1> QED
  BY <1>4, <1>5, <1>6, <1>7, TrueRows DEF Unreadable

(* What the sums of a true report are.                                      *)
LEMMA TrueSums ==
    ASSUME BookTypes, NEW b, TrueReport(b), taken[Trade] > 0
    PROVE  /\ Matched(b) = taken[Trade]
           /\ Other(b) \in Nat
           /\ FillExplained(b) /\ Other(b) = 0 <=> OnlyTheTrade
           /\ (\A r \in ToSet(b.tradesClosed) : r.trade # Trade) <=> taken[Trade] # held[Trade]
<1>1. /\ b \in Bodies /\ Trade \in Trades /\ opened \in {0, 1}
      /\ \A t \in Trades : taken[t] \in Nat
  BY BookFacts, TradeAssumption DEF TrueReport, BookTypes
<1>2. Matched(b) = taken[Trade] /\ Other(b) \in Nat
  BY <1>1, Reading, TrueRows
<1>3. Other(b) = 0 <=> \A t \in Trades \ {Trade} : taken[t] = 0
  <2>1. Other(b) = 0 <=> \A r \in Report(b) : r.trade # Trade => r.units = 0
    BY <1>1, Reading, TrueRows
  <2>2. \A r \in Report(b) : r.units # 0
    <3>1. \A r \in Report(b) : r.units \in Int
      BY <1>1, ReportFacts DEF Rows
    <3> QED
      BY <3>1, TrueRows, AbsoluteFacts
  <2>3. ASSUME \A r \in Report(b) : r.trade = Trade, NEW t \in Trades \ {Trade}
        PROVE  taken[t] = 0
    BY <1>1, <2>3, TrueRows
  <2>4. ASSUME \A t \in Trades \ {Trade} : taken[t] = 0, NEW r \in Report(b)
        PROVE  r.trade = Trade
    BY <2>4, TrueRows
  <2> QED
    BY <2>1, <2>2, <2>3, <2>4
<1>4. b.tradeOpened <=> opened # 0
  <2>1. b.tradeOpened = (opened > 0)
    BY DEF TrueReport
  <2>2. (opened > 0) <=> opened # 0
    BY <1>1
  <2> QED
    BY <2>1, <2>2
<1>5. Other(b) = 0 => Sum(taken) = taken[Trade]
  BY <1>3, TakenFacts
<1>6. FillExplained(b) /\ Other(b) = 0 <=> OnlyTheTrade
  <2>1. ASSUME OnlyTheTrade
        PROVE  FillExplained(b) /\ Other(b) = 0
    <3>1. Other(b) = 0 /\ opened = 0 /\ Sum(taken) = taken[Trade]
      BY <1>3, <1>5, <2>1 DEF OnlyTheTrade
    <3>2. Absolute(b.units) = taken[Trade]
      BY <1>1, <3>1, TrueRows
    <3> QED
      BY <1>1, <1>2, <1>4, <3>1, <3>2 DEF FillExplained
  <2>2. ASSUME FillExplained(b), Other(b) = 0
        PROVE  OnlyTheTrade
    BY <1>3, <1>4, <2>2 DEF FillExplained, OnlyTheTrade
  <2> QED
    BY <2>1, <2>2
<1>7. (\A r \in ToSet(b.tradesClosed) : r.trade # Trade) <=> taken[Trade] # held[Trade]
  <2>1. Trade \in ClosedBy(taken) <=> taken[Trade] = held[Trade]
    BY <1>1 DEF ClosedBy
  <2>2. Trade \in ClosedBy(taken) <=> \E r \in ToSet(b.tradesClosed) : r.trade = Trade
    BY DEF TrueReport
  <2> QED
    BY <2>1, <2>2
<1> QED
  BY <1>2, <1>6, <1>7

(* The verdict of a true report is the book's.                              *)
LEMMA TrueVerdict ==
    ASSUME BookTypes, NEW b, TrueReport(b), taken # None \/ opened > 0
    PROVE  Verdict(b) = BookVerdict
<1>1. taken[Trade] \in Nat /\ requested \in Nat \ {0} /\ ~Contradictory(b)
  BY BookFacts, TrueRows, TradeAssumption
<1>2. CASE taken[Trade] = 0
  BY <1>2, TrueReadable DEF Verdict, BookVerdict
<1>3. CASE taken[Trade] > 0
  <2>1. ~Unreadable(b)
    BY <1>3, TrueReadable
  <2>2. /\ Matched(b) = taken[Trade] /\ Matched(b) # 0
        /\ Other(b) \in Nat
        /\ FillExplained(b) /\ Other(b) = 0 <=> OnlyTheTrade
        /\ (\A r \in ToSet(b.tradesClosed) : r.trade # Trade) <=> taken[Trade] # held[Trade]
    BY <1>3, TrueSums
  <2>3. (~FillExplained(b) \/ Other(b) > 0) <=> ~OnlyTheTrade
    BY <2>2
  <2>4. CASE ~OnlyTheTrade \/ taken[Trade] > requested
    <3>1. BookVerdict = "RECONCILIATION_REQUIRED"
      BY <1>3, <2>4 DEF BookVerdict
    <3>2. Verdict(b) = "RECONCILIATION_REQUIRED"
      BY <2>1, <2>2, <2>3, <2>4 DEF Verdict
    <3> QED
      BY <3>1, <3>2
  <2>5. CASE OnlyTheTrade /\ ~ (taken[Trade] > requested)
    <3>1. BookVerdict = IF taken[Trade] < requested THEN "PARTIALLY_CONFIRMED"
                        ELSE IF taken[Trade] = held[Trade] THEN "FULLY_CONFIRMED"
                        ELSE "RECONCILIATION_REQUIRED"
      BY <1>3, <2>5 DEF BookVerdict
    <3>2. Verdict(b) = IF taken[Trade] < requested THEN "PARTIALLY_CONFIRMED"
                       ELSE IF taken[Trade] # held[Trade] THEN "RECONCILIATION_REQUIRED"
                       ELSE "FULLY_CONFIRMED"
      BY <1>1, <2>1, <2>2, <2>3, <2>5 DEF Verdict
    <3> QED
      BY <3>1, <3>2
  <2> QED
    BY <2>4, <2>5
<1> QED
  BY <1>1, <1>2, <1>3

-----------------------------------------------------------------------------
\* One fault.

(* A body that confirms a full close says as much of the others: a trade    *)
(* whose row is whole lost nothing.                                         *)
LEMMA ConfirmedRows ==
    ASSUME BookTypes, NEW c \in Bodies, Verdict(c) = "FULLY_CONFIRMED"
    PROVE  /\ \A r \in Report(c) : r.trade # Trade => r.units = 0
           /\ \A r \in Report(c) : r.trade = Trade => Absolute(r.units) = requested
           /\ Absolute(c.units) = requested
           /\ ~c.tradeOpened
<1>1. ~Contradictory(c) /\ FillExplained(c) /\ ~ (Other(c) > 0)
      /\ ~ (Matched(c) > requested) /\ ~ (Matched(c) < requested)
  BY Confirmed
<1>2. /\ Matched(c) \in Nat /\ Other(c) \in Nat
      /\ \A r \in Report(c) : r.trade = Trade => Matched(c) = Absolute(r.units)
      /\ Other(c) = 0 <=> \A r \in Report(c) : r.trade # Trade => r.units = 0
  BY <1>1, Reading
<1>3. requested \in Nat
  BY BookFacts
<1>4. Matched(c) = requested /\ Other(c) = 0
  BY <1>1, <1>2, <1>3
<1>5. Matched(c) + Other(c) = Absolute(c.units) /\ ~c.tradeOpened
  BY <1>1 DEF FillExplained
<1> QED
  BY <1>2, <1>3, <1>4, <1>5

(* The row of a trade, whole: it says what the fill took of it.             *)
Whole(c, t) == \E r \in Report(c) : r.trade = t /\ Absolute(r.units) = taken[t]

(* With the rows of all trades but the one whole, and two of its row, the   *)
(* fill and the opened part intact, a confirmed close was a full close of   *)
(* the trade alone.                                                         *)
LEMMA OthersWhole ==
    ASSUME BookTypes, NEW b, TrueReport(b), NEW c \in Bodies,
           Verdict(c) = "FULLY_CONFIRMED", Trade \in ClosedBy(taken),
           \A t \in Trades \ {Trade} : taken[t] > 0 => Whole(c, t),
           \/ c.units = b.units /\ c.tradeOpened = b.tradeOpened
           \/ c.units = b.units /\ Whole(c, Trade)
           \/ c.tradeOpened = b.tradeOpened /\ Whole(c, Trade)
    PROVE  BookVerdict = "FULLY_CONFIRMED"
<1>1. /\ \A t \in Trades : taken[t] \in Nat
      /\ Trade \in Trades /\ taken[Trade] > 0 /\ taken[Trade] = held[Trade]
      /\ requested \in Nat \ {0} /\ opened \in {0, 1}
  BY BookFacts DEF BookTypes
<1>2. \A t \in Trades \ {Trade} : taken[t] = 0
  <2> SUFFICES ASSUME NEW t \in Trades \ {Trade}, taken[t] # 0
               PROVE  FALSE
    OBVIOUS
  <2>1. taken[t] > 0
    BY <1>1
  <2>2. PICK r \in Report(c) : r.trade = t /\ Absolute(r.units) = taken[t]
    BY <2>1 DEF Whole
  <2>3. r.units = 0 /\ Absolute(0) = 0
    BY <2>2, ConfirmedRows, AbsoluteFacts
  <2> QED
    BY <2>2, <2>3
<1>3. Sum(taken) = taken[Trade]
  BY <1>2, TakenFacts
<1>4. c.units = b.units => requested = taken[Trade] + opened
  BY <1>3, ConfirmedRows, TrueRows
<1>5. c.tradeOpened = b.tradeOpened => opened = 0
  <2>1. b.tradeOpened = (opened > 0) /\ ~c.tradeOpened
    BY ConfirmedRows DEF TrueReport
  <2>2. opened = 0 \/ opened > 0
    BY <1>1
  <2> QED
    BY <2>1, <2>2
<1>6. Whole(c, Trade) => requested = taken[Trade]
  BY ConfirmedRows DEF Whole
<1>7. opened = 0 /\ requested = taken[Trade]
  BY <1>1, <1>4, <1>5, <1>6
<1>8. OnlyTheTrade
  BY <1>2, <1>7 DEF OnlyTheTrade
<1> QED
  BY <1>1, <1>7, <1>8 DEF BookVerdict

(* With the fill and the row of the trade intact, what another trade lost   *)
(* shows in the fill (fill_reduction_mismatch).                             *)
LEMMA OtherShows ==
    ASSUME BookTypes, NEW b, TrueReport(b), NEW c \in Bodies,
           Verdict(c) = "FULLY_CONFIRMED", c.units = b.units, Whole(c, Trade),
           NEW s \in Trades \ {Trade}, taken[s] > 0
    PROVE  FALSE
<1>1. Trade \in Trades /\ taken[s] \in Nat /\ taken[Trade] \in Nat /\ opened \in {0, 1}
  BY BookFacts, TradeAssumption DEF BookTypes
<1>2. requested = Sum(taken) + opened
  BY ConfirmedRows, TrueRows
<1>3. requested = taken[Trade]
  BY ConfirmedRows DEF Whole
<1>4. Sum(taken) >= taken[Trade] + taken[s] /\ Sum(taken) \in Nat
  BY <1>1, TakenFacts
<1> QED
  BY <1>1, <1>2, <1>3, <1>4

(* The verdict depends on the body, the direction and the units asked for;  *)
(* the book's on the book.                                                  *)
LEMMA SameVerdicts ==
    ASSUME UNCHANGED <<direction, requested, held, taken, opened>>
    PROVE  Verdict(body)' = Verdict(body') /\ BookVerdict' = BookVerdict
<1>1. BookVerdict' = BookVerdict
  BY DEF BookVerdict, OnlyTheTrade
<1>2. Unreadable(body)' = Unreadable(body')
  BY DEF Unreadable, WrongDirection, ListedTwice, Contradictory, NegativeUnits, Report
<1>3. Verdict(body)' = Verdict(body')
  BY <1>2 DEF Verdict
<1> QED
  BY <1>1, <1>3

(* The rows of the true report are whole, and stay so where they are kept.  *)
LEMMA KeptRows ==
    ASSUME BookTypes, NEW b, TrueReport(b), NEW c
    PROVE  /\ \A r \in Report(b) \cap Report(c) : Whole(c, r.trade)
           /\ Report(b) \subseteq Report(c) =>
                 \A t \in Trades : taken[t] > 0 => Whole(c, t)
BY TrueRows DEF Whole

(* A confirmed full close lists the trade among the closed ones; where no   *)
(* row was added to them, the fill closed it.                               *)
LEMMA ClosedTrade ==
    ASSUME NEW b, TrueReport(b), NEW c, Verdict(c) = "FULLY_CONFIRMED",
           \A r \in ToSet(c.tradesClosed) : \E q \in ToSet(b.tradesClosed) : q.trade = r.trade
    PROVE  Trade \in ClosedBy(taken)
<1>1. PICK r \in ToSet(c.tradesClosed) : r.trade = Trade
  BY Confirmed
<1>2. PICK q \in ToSet(b.tradesClosed) : q.trade = Trade
  BY <1>1
<1> QED
  BY <1>2 DEF TrueReport

(* A wrong number of units of the fill.                                     *)
LEMMA WrongUnits ==
    ASSUME BookTypes, NEW b, TrueReport(b), NEW u \in Int,
           NEW c, c = [b EXCEPT !.units = u]
    PROVE  /\ c \in Bodies
           /\ Verdict(c) = "FULLY_CONFIRMED" => BookVerdict = "FULLY_CONFIRMED"
<1>1. /\ c \in Bodies /\ Report(c) = Report(b) /\ c.tradeOpened = b.tradeOpened
      /\ c.tradesClosed = b.tradesClosed
  BY DEF TrueReport, Bodies, Report
<1>2. ASSUME Verdict(c) = "FULLY_CONFIRMED"
      PROVE  BookVerdict = "FULLY_CONFIRMED"
  <2>1. Trade \in ClosedBy(taken)
    BY <1>1, <1>2, ClosedTrade
  <2>2. \A t \in Trades : taken[t] > 0 => Whole(c, t)
    BY <1>1, KeptRows
  <2>3. Trade \in Trades /\ Whole(c, Trade)
    BY <2>1, <2>2, BookFacts
  <2> QED
    BY <1>1, <1>2, <2>1, <2>2, <2>3, OthersWhole
<1> QED
  BY <1>1, <1>2

(* The part of the fill that opened a trade is lost.                        *)
LEMMA LostOpened ==
    ASSUME BookTypes, NEW b, TrueReport(b),
           NEW c, c = [b EXCEPT !.tradeOpened = FALSE]
    PROVE  /\ c \in Bodies
           /\ Verdict(c) = "FULLY_CONFIRMED" => BookVerdict = "FULLY_CONFIRMED"
<1>1. /\ c \in Bodies /\ Report(c) = Report(b) /\ c.units = b.units
      /\ c.tradesClosed = b.tradesClosed
  BY DEF TrueReport, Bodies, Report
<1>2. ASSUME Verdict(c) = "FULLY_CONFIRMED"
      PROVE  BookVerdict = "FULLY_CONFIRMED"
  <2>1. Trade \in ClosedBy(taken)
    BY <1>1, <1>2, ClosedTrade
  <2>2. \A t \in Trades : taken[t] > 0 => Whole(c, t)
    BY <1>1, KeptRows
  <2>3. Trade \in Trades /\ Whole(c, Trade)
    BY <2>1, <2>2, BookFacts
  <2> QED
    BY <1>1, <1>2, <2>1, <2>2, <2>3, OthersWhole
<1> QED
  BY <1>1, <1>2

(* One row is wrong or lost and the fill and the opened part are not: every *)
(* fault of a row but a repeated one.                                       *)
LEMMA OneRowFault ==
    ASSUME BookTypes, NEW b, TrueReport(b), NEW c \in Bodies,
           c.units = b.units, c.tradeOpened = b.tradeOpened,
           Trade \in ClosedBy(taken), NEW s \in Trades, taken[s] > 0,
           \A r \in Report(b) : r.trade # s => r \in Report(c),
           Verdict(c) = "FULLY_CONFIRMED"
    PROVE  BookVerdict = "FULLY_CONFIRMED"
<1>1. \A t \in Trades \ {s} : taken[t] > 0 => Whole(c, t)
  BY TrueRows, KeptRows
<1>2. CASE s = Trade
  BY <1>1, <1>2, OthersWhole
<1>3. CASE s # Trade
  <2>1. Trade \in Trades /\ taken[Trade] > 0
    BY BookFacts
  <2> QED
    BY <1>1, <1>3, <2>1, OtherShows
<1> QED
  BY <1>2, <1>3

(* A row of a list is replaced.                                             *)
LEMMA ReplacedRow ==
    ASSUME NEW q \in Seq(Rows), NEW i \in DOMAIN q, NEW row \in Rows,
           NEW d, d = [q EXCEPT ![i] = row]
    PROVE  /\ d \in Seq(Rows) /\ DOMAIN d = DOMAIN q
           /\ \A j \in DOMAIN q : d[j] = IF j = i THEN row ELSE q[j]
<1>1. DOMAIN q = 1 .. Len(q)
  OBVIOUS
<1>2. /\ d \in Seq(Rows) /\ Len(d) = Len(q)
      /\ \A j \in 1 .. Len(q) : d[j] = IF j = i THEN row ELSE q[j]
  BY <1>1, ExceptSeq
<1>3. DOMAIN d = 1 .. Len(d)
  BY <1>2
<1> QED
  BY <1>1, <1>2, <1>3

(* A wrong number in a row of a closed trade.                               *)
LEMMA WrongClosedRow ==
    ASSUME BookTypes, NEW b, TrueReport(b), NEW i \in DOMAIN b.tradesClosed, NEW u \in Int,
           NEW c, c = [b EXCEPT !.tradesClosed[i].units = u]
    PROVE  /\ c \in Bodies
           /\ Verdict(c) = "FULLY_CONFIRMED" => BookVerdict = "FULLY_CONFIRMED"
<1> DEFINE row == [b.tradesClosed[i] EXCEPT !.units = u]
           s == b.tradesClosed[i].trade
<1>1. b \in Bodies /\ b.tradesClosed \in Seq(Rows) /\ b.tradesClosed[i] \in Rows
  BY DEF TrueReport, Bodies
<1>2. row \in Rows /\ row.trade = s
  BY <1>1 DEF Rows
<1>3. /\ c.units = b.units /\ c.tradeOpened = b.tradeOpened
      /\ c.tradeReduced = b.tradeReduced
      /\ c.tradesClosed = [b.tradesClosed EXCEPT ![i] = row]
      /\ c = [b EXCEPT !.tradesClosed = [b.tradesClosed EXCEPT ![i] = row]]
  BY <1>1 DEF Bodies
<1> HIDE DEF row
<1>4. /\ c.tradesClosed \in Seq(Rows) /\ DOMAIN c.tradesClosed = DOMAIN b.tradesClosed
      /\ \A j \in DOMAIN b.tradesClosed :
            c.tradesClosed[j] = IF j = i THEN row ELSE b.tradesClosed[j]
  <2> DEFINE q == b.tradesClosed
             d == c.tradesClosed
  <2>1. q \in Seq(Rows) /\ i \in DOMAIN q /\ row \in Rows /\ d = [q EXCEPT ![i] = row]
    BY <1>1, <1>2, <1>3
  <2> HIDE DEF q, d
  <2>2. /\ d \in Seq(Rows) /\ DOMAIN d = DOMAIN q
        /\ \A j \in DOMAIN q : d[j] = IF j = i THEN row ELSE q[j]
    BY <2>1, ReplacedRow
  <2> QED
    BY <2>2 DEF q, d
<1>5. c \in Bodies
  BY <1>1, <1>3, <1>4 DEF Bodies
<1>6. s \in ClosedBy(taken)
  BY <1>1 DEF TrueReport, ToSet
<1>7. ASSUME Verdict(c) = "FULLY_CONFIRMED"
      PROVE  BookVerdict = "FULLY_CONFIRMED"
  <2>2. \A r \in ToSet(c.tradesClosed) : \E q \in ToSet(b.tradesClosed) : q.trade = r.trade
    BY <1>2, <1>4 DEF ToSet
  <2>3. Trade \in ClosedBy(taken)
    BY <1>7, <2>2, ClosedTrade
  <2>4. ASSUME NEW r \in Report(b), r.trade # s
        PROVE  r \in Report(c)
    <3>1. CASE r \in ToSet(b.tradeReduced)
      BY <1>3, <3>1 DEF Report
    <3>2. CASE r \in ToSet(b.tradesClosed)
      <4>1. PICK j \in DOMAIN b.tradesClosed : r = b.tradesClosed[j]
        BY <3>2 DEF ToSet
      <4>2. j \in DOMAIN c.tradesClosed /\ r = c.tradesClosed[j]
        BY <1>4, <2>4, <4>1
      <4> QED
        BY <4>2 DEF Report, ToSet
    <3> QED
      BY <3>1, <3>2 DEF Report
  <2>5. s \in Trades /\ taken[s] > 0
    BY <1>6, BookFacts
  <2> HIDE DEF s
  <2> QED
    BY <1>3, <1>5, <1>7, <2>3, <2>4, <2>5, OneRowFault
<1> QED
  BY <1>5, <1>7

(* A wrong number in the row of a reduced trade.                            *)
LEMMA WrongReducedRow ==
    ASSUME BookTypes, NEW b, TrueReport(b), NEW i \in DOMAIN b.tradeReduced, NEW u \in Int,
           NEW c, c = [b EXCEPT !.tradeReduced[i].units = u]
    PROVE  /\ c \in Bodies
           /\ Verdict(c) = "FULLY_CONFIRMED" => BookVerdict = "FULLY_CONFIRMED"
<1> DEFINE row == [b.tradeReduced[i] EXCEPT !.units = u]
           s == b.tradeReduced[i].trade
<1>1. b \in Bodies /\ b.tradeReduced \in Seq(Rows) /\ b.tradeReduced[i] \in Rows
  BY DEF TrueReport, Bodies
<1>2. row \in Rows
  BY <1>1 DEF Rows
<1>3. /\ c.units = b.units /\ c.tradeOpened = b.tradeOpened
      /\ c.tradesClosed = b.tradesClosed
      /\ c.tradeReduced = [b.tradeReduced EXCEPT ![i] = row]
      /\ c = [b EXCEPT !.tradeReduced = [b.tradeReduced EXCEPT ![i] = row]]
  BY <1>1 DEF Bodies
<1> HIDE DEF row
<1>4. /\ c.tradeReduced \in Seq(Rows)
      /\ \A j \in DOMAIN b.tradeReduced :
            j \in DOMAIN c.tradeReduced /\ (j # i => c.tradeReduced[j] = b.tradeReduced[j])
  <2> DEFINE q == b.tradeReduced
             d == c.tradeReduced
  <2>1. q \in Seq(Rows) /\ i \in DOMAIN q /\ row \in Rows /\ d = [q EXCEPT ![i] = row]
    BY <1>1, <1>2, <1>3
  <2> HIDE DEF q, d
  <2>2. /\ d \in Seq(Rows) /\ DOMAIN d = DOMAIN q
        /\ \A j \in DOMAIN q : d[j] = IF j = i THEN row ELSE q[j]
    BY <2>1, ReplacedRow
  <2> QED
    BY <2>2 DEF q, d
<1>5. c \in Bodies
  BY <1>1, <1>3, <1>4 DEF Bodies
<1>6. s \in ReducedBy(taken)
  BY <1>1 DEF TrueReport, ToSet
<1>7. ASSUME Verdict(c) = "FULLY_CONFIRMED"
      PROVE  BookVerdict = "FULLY_CONFIRMED"
  <2>1. Trade \in ClosedBy(taken)
    BY <1>3, <1>7, ClosedTrade
  <2>2. ASSUME NEW r \in Report(b), r.trade # s
        PROVE  r \in Report(c)
    <3>1. CASE r \in ToSet(b.tradesClosed)
      BY <1>3, <3>1 DEF Report
    <3>2. CASE r \in ToSet(b.tradeReduced)
      <4>1. PICK j \in DOMAIN b.tradeReduced : r = b.tradeReduced[j]
        BY <3>2 DEF ToSet
      <4>2. j \in DOMAIN c.tradeReduced /\ r = c.tradeReduced[j]
        BY <1>4, <2>2, <4>1
      <4> QED
        BY <4>2 DEF Report, ToSet
    <3> QED
      BY <3>1, <3>2 DEF Report
  <2>3. s \in Trades /\ taken[s] > 0
    BY <1>6, BookFacts
  <2> HIDE DEF s
  <2> QED
    BY <1>3, <1>5, <1>7, <2>1, <2>2, <2>3, OneRowFault
<1> QED
  BY <1>5, <1>7

(* The row of a closed trade is lost.                                       *)
LEMMA LostClosedRow ==
    ASSUME BookTypes, NEW b, TrueReport(b), NEW i \in DOMAIN b.tradesClosed,
           NEW c, c = [b EXCEPT !.tradesClosed = RemoveAt(@, i)]
    PROVE  /\ c \in Bodies
           /\ Verdict(c) = "FULLY_CONFIRMED" => BookVerdict = "FULLY_CONFIRMED"
<1> DEFINE s == b.tradesClosed[i].trade
<1>1. b \in Bodies /\ b.tradesClosed \in Seq(Rows)
  BY DEF TrueReport, Bodies
<1>2. /\ c.units = b.units /\ c.tradeOpened = b.tradeOpened
      /\ c.tradeReduced = b.tradeReduced
      /\ c.tradesClosed = RemoveAt(b.tradesClosed, i)
  BY <1>1 DEF Bodies
<1>3. /\ c.tradesClosed \in Seq(Rows)
      /\ ToSet(c.tradesClosed) \subseteq ToSet(b.tradesClosed)
      /\ \A j \in DOMAIN b.tradesClosed : j # i => b.tradesClosed[j] \in ToSet(c.tradesClosed)
  BY <1>1, <1>2, RemoveAtFacts
<1>4. c \in Bodies
  BY <1>1, <1>2, <1>3 DEF Bodies
<1>5. s \in ClosedBy(taken)
  BY <1>1 DEF TrueReport, ToSet
<1>6. ASSUME Verdict(c) = "FULLY_CONFIRMED"
      PROVE  BookVerdict = "FULLY_CONFIRMED"
  <2>1. Trade \in ClosedBy(taken)
    BY <1>3, <1>6, ClosedTrade
  <2>2. \A r \in ToSet(b.tradesClosed) : r.trade # s => r \in ToSet(c.tradesClosed)
    <3> SUFFICES ASSUME NEW r \in ToSet(b.tradesClosed), r.trade # s
                 PROVE  r \in ToSet(c.tradesClosed)
      OBVIOUS
    <3>1. PICK j \in DOMAIN b.tradesClosed : r = b.tradesClosed[j]
      BY DEF ToSet
    <3> QED
      BY <1>3, <3>1
  <2>3. \A r \in Report(b) : r.trade # s => r \in Report(c)
    BY <1>2, <2>2 DEF Report
  <2> QED
    BY <1>2, <1>4, <1>5, <1>6, <2>1, <2>3, OneRowFault, BookFacts
<1> QED
  BY <1>4, <1>6

(* A body with one of its two lists of rows exchanged.                      *)
LEMMA OtherClosed ==
    ASSUME NEW b \in Bodies, NEW q \in Seq(Rows), NEW c, c = [b EXCEPT !.tradesClosed = q]
    PROVE  c \in Bodies /\ c.tradesClosed = q
BY DEF Bodies

LEMMA OtherReduced ==
    ASSUME NEW b \in Bodies, NEW q \in Seq(Rows), NEW c, c = [b EXCEPT !.tradeReduced = q]
    PROVE  /\ c \in Bodies /\ c.tradeReduced = q
           /\ c.tradesClosed = b.tradesClosed
           /\ c.units = b.units /\ c.tradeOpened = b.tradeOpened
BY DEF Bodies

(* The row of the reduced trade is lost.                                    *)
LEMMA LostReducedRow ==
    ASSUME BookTypes, NEW b, TrueReport(b),
           NEW c, c = [b EXCEPT !.tradeReduced = <<>>]
    PROVE  /\ c \in Bodies
           /\ Verdict(c) = "FULLY_CONFIRMED" => BookVerdict = "FULLY_CONFIRMED"
<1> DEFINE none == <<>>
<1>1. b \in Bodies /\ none \in Seq(Rows) /\ c = [b EXCEPT !.tradeReduced = none]
  BY DEF TrueReport
<1> HIDE DEF none
<1>2. /\ c.units = b.units /\ c.tradeOpened = b.tradeOpened
      /\ c.tradesClosed = b.tradesClosed /\ c \in Bodies
  BY <1>1, OtherReduced
<1>3. ASSUME Verdict(c) = "FULLY_CONFIRMED"
      PROVE  BookVerdict = "FULLY_CONFIRMED"
  <2>1. Trade \in ClosedBy(taken)
    BY <1>2, <1>3, ClosedTrade
  <2>2. \A t \in ClosedBy(taken) : Whole(c, t)
    <3> SUFFICES ASSUME NEW t \in ClosedBy(taken)
                 PROVE  Whole(c, t)
      OBVIOUS
    <3>1. PICK r \in ToSet(b.tradesClosed) : r.trade = t
      BY DEF TrueReport
    <3>2. r \in Report(b) \cap Report(c)
      BY <1>2 DEF Report
    <3> QED
      BY <3>1, <3>2, KeptRows
  <2>3. CASE ReducedBy(taken) = {}
    <3>1. \A t \in Trades \ {Trade} : taken[t] > 0 => Whole(c, t)
      BY <2>2, <2>3, BookFacts
    <3> QED
      BY <1>2, <1>3, <2>1, <3>1, OthersWhole
  <2>4. ASSUME NEW s \in ReducedBy(taken)
        PROVE  FALSE
    <3>1. s \in Trades \ {Trade} /\ taken[s] > 0
      BY <2>1, BookFacts
    <3> QED
      BY <1>2, <1>3, <2>1, <2>2, <3>1, OtherShows
  <2> QED
    BY <2>3, <2>4
<1> QED
  BY <1>2, <1>3

(* A row of a closed trade is listed again (duplicate_transaction_id).      *)
LEMMA RepeatedRow ==
    ASSUME BookTypes, NEW b, TrueReport(b), NEW i \in DOMAIN b.tradesClosed,
           NEW c, c = [b EXCEPT !.tradesClosed = Append(@, @[i])]
    PROVE  c \in Bodies /\ Verdict(c) # "FULLY_CONFIRMED"
<1> DEFINE q == b.tradesClosed
           n == Len(q) + 1
<1>1. b \in Bodies /\ q \in Seq(Rows) /\ q[i] \in Rows
  BY DEF TrueReport, Bodies
<1>2. Append(q, q[i]) \in Seq(Rows)
  BY <1>1
<1> DEFINE q2 == Append(q, q[i])
<1> HIDE DEF q2
<1>3. c \in Bodies /\ c.tradesClosed = Append(q, q[i])
  <2>1. c = [b EXCEPT !.tradesClosed = q2] /\ q2 \in Seq(Rows)
    BY <1>2 DEF q2
  <2>2. c \in Bodies /\ c.tradesClosed = q2
    BY <1>1, <2>1, OtherClosed
  <2> QED
    BY <2>2 DEF q2
<1>4. /\ i \in DOMAIN c.tradesClosed /\ n \in DOMAIN c.tradesClosed /\ i # n
      /\ c.tradesClosed[i] = q[i] /\ c.tradesClosed[n] = q[i]
  BY <1>1, <1>3
<1>5. ListedTwice(c)
  BY <1>4 DEF ListedTwice
<1> QED
  BY <1>3, <1>5, Confirmed

(* A row of a closed trade is listed again as a reduction.                  *)
LEMMA MovedRow ==
    ASSUME BookTypes, NEW b, TrueReport(b), NEW i \in DOMAIN b.tradesClosed,
           b.tradeReduced = <<>>,
           NEW c, c = [b EXCEPT !.tradeReduced = <<b.tradesClosed[i]>>]
    PROVE  /\ c \in Bodies
           /\ Verdict(c) = "FULLY_CONFIRMED" => BookVerdict = "FULLY_CONFIRMED"
<1>1. b \in Bodies /\ b.tradesClosed \in Seq(Rows) /\ b.tradesClosed[i] \in Rows
  BY DEF TrueReport, Bodies
<1> DEFINE q == <<b.tradesClosed[i]>>
<1>a. q \in Seq(Rows) /\ c = [b EXCEPT !.tradeReduced = q]
  BY <1>1
<1> HIDE DEF q
<1>2. /\ c.units = b.units /\ c.tradeOpened = b.tradeOpened
      /\ c.tradesClosed = b.tradesClosed /\ c \in Bodies
  BY <1>1, <1>a, OtherReduced
<1>3. Report(b) \subseteq Report(c)
  BY <1>2 DEF Report, ToSet
<1>4. ASSUME Verdict(c) = "FULLY_CONFIRMED"
      PROVE  BookVerdict = "FULLY_CONFIRMED"
  <2>1. Trade \in ClosedBy(taken)
    BY <1>2, <1>4, ClosedTrade
  <2>2. \A t \in Trades : taken[t] > 0 => Whole(c, t)
    BY <1>3, KeptRows
  <2> QED
    BY <1>2, <1>4, <2>1, <2>2, OthersWhole
<1> QED
  BY <1>2, <1>4

-----------------------------------------------------------------------------
\* The inductive invariant.

EvidenceInv ==
    /\ BookTypes
    /\ intact \in BOOLEAN
    /\ body # NoBody =>
          /\ body \in Bodies
          /\ taken # None \/ opened > 0
          /\ intact => TrueReport(body)
    /\ FaultNeverConfirms

LEMMA InitEvidence == Init => EvidenceInv
<1> SUFFICES ASSUME Init
             PROVE  EvidenceInv
  OBVIOUS
<1>1. MaxUnits \in Nat \ {0}
  BY UnitsAssumption
<1>2. BookTypes
  BY <1>1 DEF Init, BookTypes, None, Amounts
<1> QED
  BY <1>2 DEF Init, EvidenceInv, FaultNeverConfirms

(* The broker executes once, before it reports.                             *)
LEMMA ExecuteEvidence == EvidenceInv /\ Execute => EvidenceInv'
<1> SUFFICES ASSUME EvidenceInv, Execute
             PROVE  EvidenceInv'
  OBVIOUS
<1>1. body = NoBody /\ body' = NoBody
  BY DEF EvidenceInv, Execute
<1>2. BookTypes'
  BY DEF EvidenceInv, Execute, BookTypes
<1> QED
  BY <1>1, <1>2 DEF EvidenceInv, FaultNeverConfirms, Execute

(* What the broker reports is the true report.                              *)
LEMMA RetrieveEvidence == EvidenceInv /\ Retrieve => EvidenceInv'
<1> SUFFICES ASSUME EvidenceInv, Retrieve
             PROVE  EvidenceInv'
  OBVIOUS
<1>0. BookTypes /\ UNCHANGED <<direction, requested, held, taken, opened, intact>>
  BY DEF EvidenceInv, Retrieve
<1>1. PICK sign \in {Side, 1}, ts \in SetToSeqs(ClosedBy(taken)) :
         body' = [units        |-> Side * (Sum(taken) + opened),
                  tradesClosed |-> [i \in DOMAIN ts |-> [trade |-> ts[i],
                                                         units |-> sign * taken[ts[i]]]],
                  tradeReduced |-> SetToSeq({[trade |-> t, units |-> sign * taken[t]] :
                                                t \in ReducedBy(taken)}),
                  tradeOpened  |-> opened > 0]
  BY DEF Retrieve
<1> DEFINE Entry(t) == [trade |-> t, units |-> sign * taken[t]]
           b == [units        |-> Side * (Sum(taken) + opened),
                 tradesClosed |-> [i \in DOMAIN ts |-> Entry(ts[i])],
                 tradeReduced |-> SetToSeq({Entry(t) : t \in ReducedBy(taken)}),
                 tradeOpened  |-> opened > 0]
<1>2. /\ IsFiniteSet(ClosedBy(taken)) /\ IsFiniteSet(ReducedBy(taken))
      /\ ClosedBy(taken) \in SUBSET Trades /\ ReducedBy(taken) \in SUBSET Trades
  BY TradeAssumption, FS_Subset DEF ClosedBy, ReducedBy
<1>3. sign \in Int /\ Side \in Int /\ Sum(taken) + opened \in Int
  BY <1>0, BookFacts, TakenFacts DEF BookTypes
<1>4. \A t \in Trades : Entry(t) \in Rows /\ Entry(t).trade = t
                        /\ Entry(t).units = sign * taken[t]
  BY <1>0, <1>3, BookFacts DEF Rows
<1>5. /\ ts \in Seq(ClosedBy(taken)) /\ ToSet(ts) = ClosedBy(taken)
      /\ \A i, j \in DOMAIN ts : i # j => ts[i] # ts[j]
  BY <1>2, SetToSeqsFacts
<1> DEFINE closed == [i \in DOMAIN ts |-> Entry(ts[i])]
<1>6. /\ closed \in Seq(Rows) /\ DOMAIN closed = DOMAIN ts
      /\ \A i \in DOMAIN ts : ts[i] \in ClosedBy(taken) /\ closed[i] = Entry(ts[i])
  BY <1>2, <1>4, <1>5
<1> DEFINE S == {Entry(t) : t \in ReducedBy(taken)}
           reduced == SetToSeq(S)
<1>7. S \in SUBSET Rows /\ IsFiniteSet(S)
  <2>1. [t \in ReducedBy(taken) |-> Entry(t)] \in Surjection(ReducedBy(taken), S)
    BY DEF Surjection
  <2> QED
    BY <1>2, <1>4, <2>1, FS_Surjection
<1>8. reduced \in Seq(Rows) /\ ToSet(reduced) = S
  <2> HIDE DEF S
  <2> QED
    BY <1>7, SetToSeqFacts
<1>9. TrueReport(b)
  <2> HIDE DEF reduced, closed
  <2>1. /\ b.units = Side * (Sum(taken) + opened) /\ b.tradesClosed = closed
        /\ b.tradeReduced = reduced /\ b.tradeOpened = (opened > 0)
    BY DEF closed, reduced
  <2>2. b \in Bodies
    BY <1>3, <1>6, <1>8 DEF Bodies, closed, reduced
  <2> HIDE DEF b
  <2>3. \A r \in ToSet(closed) : \E t \in ClosedBy(taken) : r = Entry(t)
    BY <1>6 DEF ToSet
  <2>4. \A t \in ClosedBy(taken) : \E r \in ToSet(closed) : r = Entry(t)
    BY <1>5, <1>6 DEF ToSet
  <2>5. ~ListedTwice(b)
    BY <1>2, <1>4, <1>5, <1>6, <2>1 DEF ListedTwice
  <2> HIDE DEF Entry
  <2>6. \A r \in Report(b) : r.units = sign * taken[r.trade]
    BY <1>2, <1>4, <1>8, <2>1, <2>3 DEF Report
  <2> QED
    BY <1>2, <1>4, <1>8, <2>1, <2>2, <2>3, <2>4, <2>5, <2>6 DEF TrueReport
<1>10. body' = b
  BY <1>1
<1>11. taken # None \/ opened > 0
  BY DEF Retrieve
<1> HIDE DEF b
<1>12. Verdict(b) = BookVerdict
  BY <1>0, <1>9, <1>11, TrueVerdict
<1>13. FaultNeverConfirms'
  BY <1>0, <1>10, <1>12, SameVerdicts DEF FaultNeverConfirms
<1>14. TrueReport(body)' /\ BookTypes'
  BY <1>0, <1>9, <1>10 DEF TrueReport, BookTypes, Report, ClosedBy, ReducedBy, ListedTwice, Side, Sum
<1>15. body' \in Bodies
  BY <1>9, <1>10 DEF TrueReport
<1> QED
  BY <1>0, <1>11, <1>13, <1>14, <1>15 DEF EvidenceInv

(* One fault, whichever it is, makes no full close of another.              *)
LEMMA FaultEvidence == EvidenceInv /\ Fault => EvidenceInv'
<1> SUFFICES ASSUME EvidenceInv, Fault
             PROVE  EvidenceInv'
  OBVIOUS
<1>0. /\ BookTypes /\ TrueReport(body) /\ (taken # None \/ opened > 0)
      /\ UNCHANGED <<direction, requested, held, taken, opened>>
      /\ intact' = FALSE
  BY DEF EvidenceInv, Fault
<1>1. \A u \in -2 * MaxUnits .. 2 * MaxUnits : u \in Int
  BY UnitsAssumption
<1>2. \A u \in -MaxUnits .. MaxUnits : u \in Int
  BY UnitsAssumption
<1>3. /\ body' \in Bodies
      /\ Verdict(body') = "FULLY_CONFIRMED" => BookVerdict = "FULLY_CONFIRMED"
  <2>1. CASE \E u \in -2 * MaxUnits .. 2 * MaxUnits : body' = [body EXCEPT !.units = u]
    BY <1>0, <1>1, <2>1, WrongUnits
  <2>2. CASE \E i \in DOMAIN body.tradesClosed, u \in -MaxUnits .. MaxUnits :
                body' = [body EXCEPT !.tradesClosed[i].units = u]
    BY <1>0, <1>2, <2>2, WrongClosedRow
  <2>3. CASE \E i \in DOMAIN body.tradeReduced, u \in -MaxUnits .. MaxUnits :
                body' = [body EXCEPT !.tradeReduced[i].units = u]
    BY <1>0, <1>2, <2>3, WrongReducedRow
  <2>4. ASSUME NEW i \in DOMAIN body.tradesClosed,
               body' = [body EXCEPT !.tradesClosed = RemoveAt(@, i)]
        PROVE  /\ body' \in Bodies
               /\ Verdict(body') = "FULLY_CONFIRMED" => BookVerdict = "FULLY_CONFIRMED"
    BY <1>0, <2>4, LostClosedRow
  <2>5. ASSUME NEW i \in DOMAIN body.tradesClosed,
               body' = [body EXCEPT !.tradesClosed = Append(@, @[i])]
        PROVE  /\ body' \in Bodies
               /\ Verdict(body') = "FULLY_CONFIRMED" => BookVerdict = "FULLY_CONFIRMED"
    BY <1>0, <2>5, RepeatedRow
  <2>6. ASSUME NEW i \in DOMAIN body.tradesClosed, body.tradeReduced = <<>>,
               body' = [body EXCEPT !.tradeReduced = <<body.tradesClosed[i]>>]
        PROVE  /\ body' \in Bodies
               /\ Verdict(body') = "FULLY_CONFIRMED" => BookVerdict = "FULLY_CONFIRMED"
    BY <1>0, <2>6, MovedRow
  <2>7. CASE body' = [body EXCEPT !.tradeReduced = <<>>]
    BY <1>0, <2>7, LostReducedRow
  <2>8. CASE body' = [body EXCEPT !.tradeOpened = FALSE]
    BY <1>0, <2>8, LostOpened
  <2> QED
    BY <2>1, <2>2, <2>3, <2>4, <2>5, <2>6, <2>7, <2>8 DEF Fault
<1>4. FaultNeverConfirms'
  BY <1>0, <1>3, SameVerdicts DEF FaultNeverConfirms
<1>5. BookTypes'
  BY <1>0 DEF BookTypes
<1> QED
  BY <1>0, <1>3, <1>4, <1>5 DEF EvidenceInv

LEMMA EvidenceStep == EvidenceInv /\ [Next]_vars => EvidenceInv'
<1>1. EvidenceInv /\ UNCHANGED vars => EvidenceInv'
  <2> SUFFICES ASSUME EvidenceInv, UNCHANGED vars
               PROVE  EvidenceInv'
    OBVIOUS
  <2>1. FaultNeverConfirms'
    BY SameVerdicts DEF vars, EvidenceInv, FaultNeverConfirms
  <2>2. body' \in Bodies /\ intact => TrueReport(body)' = TrueReport(body)
    BY DEF vars, TrueReport, Report, ClosedBy, ReducedBy, ListedTwice, Side, Sum
  <2> QED
    BY <2>1, <2>2 DEF vars, EvidenceInv, BookTypes
<1> QED
  BY <1>1, ExecuteEvidence, RetrieveEvidence, FaultEvidence DEF Next

(* A true report is read as what the broker's book says, with any number of *)
(* trades on the instrument, whichever of them the fill took units of       *)
(* (apply_transaction_body).                                                *)
THEOREM EvidenceMatchesBook == Spec => []VerdictMatchesBook
<1>1. EvidenceInv => VerdictMatchesBook
  BY TrueVerdict DEF EvidenceInv, VerdictMatchesBook
<1> QED
  BY <1>1, InitEvidence, EvidenceStep, PTL DEF Spec

(* One wrong number, lost part or repeated row, in a body with any number   *)
(* of rows, never turns anything but a full close of the trade into one.    *)
THEOREM EvidenceFaultNeverConfirms == Spec => []FaultNeverConfirms
<1>1. EvidenceInv => FaultNeverConfirms
  BY DEF EvidenceInv
<1> QED
  BY <1>1, InitEvidence, EvidenceStep, PTL DEF Spec
=============================================================================
