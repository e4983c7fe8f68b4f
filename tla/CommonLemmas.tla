---------------------------- MODULE CommonLemmas ----------------------------
(* Facts about sequences and about sums, and induction over the natural       *)
(* numbers and over finite sets, that the proofs of several components need.  *)
EXTENDS Integers, FiniteSets, Functions, SequencesExt, SequenceTheorems, FiniteSetTheorems,
        WellFoundedInduction, TLAPS

\* A set of natural numbers has a least element.
LEMMA LeastNat ==
    ASSUME NEW S \in SUBSET Nat, S # {}
    PROVE  \E n \in S : \A m \in S : n <= m
<1>1. PICK n \in S : \A m \in S : ~(<<m, n>> \in OpToRel(<, Nat))
  BY NatLessThanWellFounded, WFMin
<1>2. \A m \in S : ~(m < n)
  BY <1>1 DEF OpToRel
<1> QED
  BY <1>2

\* Induction: a set that holds 0 and the successors of its members holds Nat.
LEMMA SetInduction ==
    ASSUME NEW S, 0 \in S, \A n \in Nat : n \in S => n + 1 \in S
    PROVE  Nat \subseteq S
<1>1. SUFFICES ASSUME NEW T, T = {n \in Nat : n \notin S}, T # {} PROVE FALSE
  OBVIOUS
<1>2. PICK n \in T : \A m \in T : n <= m
  BY <1>1, LeastNat
<1>3. n - 1 \in Nat /\ n - 1 \notin T
  BY <1>1, <1>2
<1> QED
  BY <1>1, <1>2, <1>3

\* The lesser of two numbers.
LEMMA MinPair ==
    ASSUME NEW a \in Int, NEW b \in Int
    PROVE  Min({a, b}) \in {a, b} /\ Min({a, b}) <= a /\ Min({a, b}) <= b
<1>1. \E m \in {a, b} : \A y \in {a, b} : m <= y
  <2>1. CASE a <= b
    BY <2>1
  <2>2. CASE ~(a <= b)
    BY <2>2
  <2> QED
    BY <2>1, <2>2
<1> QED
  BY <1>1 DEF Min

\* ToSet of a sequence, by index.
LEMMA ToSetSeq ==
    ASSUME NEW T, NEW s \in Seq(T)
    PROVE  /\ ToSet(s) = {s[i] : i \in 1 .. Len(s)}
           /\ ToSet(s) \subseteq T
           /\ \A e : e \in ToSet(s) <=> \E i \in 1 .. Len(s) : s[i] = e
BY DEF ToSet

\* Append adds its element to the set.
LEMMA AppendToSet ==
    ASSUME NEW T, NEW s \in Seq(T), NEW e \in T
    PROVE  Append(s, e) # <<>> /\ ToSet(Append(s, e)) = ToSet(s) \cup {e}
<1>1. /\ Append(s, e) \in Seq(T) /\ Len(Append(s, e)) = Len(s) + 1
      /\ \A i \in 1 .. Len(s) : Append(s, e)[i] = s[i]
      /\ Append(s, e)[Len(s) + 1] = e
  OBVIOUS
<1>2. PICK t : t = Append(s, e)
  OBVIOUS
<1>3. \A x : /\ x \in ToSet(t) <=> \E i \in 1 .. Len(t) : t[i] = x
             /\ x \in ToSet(s) <=> \E i \in 1 .. Len(s) : s[i] = x
  BY <1>1, <1>2, ToSetSeq
<1>4. ASSUME NEW x PROVE x \in ToSet(t) <=> x \in ToSet(s) \/ x = e
  BY <1>1, <1>2, <1>3
<1> QED
  BY <1>1, <1>2, <1>4

\* RemoveAt keeps all elements but one, in their order.
LEMMA RemoveAtLemma ==
    ASSUME NEW T, NEW s \in Seq(T), NEW k \in 1 .. Len(s)
    PROVE  /\ RemoveAt(s, k) \in Seq(T)
           /\ Len(RemoveAt(s, k)) = Len(s) - 1
           /\ \A i \in 1 .. Len(s) - 1 : RemoveAt(s, k)[i] = IF i < k THEN s[i] ELSE s[i + 1]
<1>1. PICK a : a = SubSeq(s, 1, k - 1)
  OBVIOUS
<1>2. PICK b : b = SubSeq(s, k + 1, Len(s))
  OBVIOUS
<1>3. a \in Seq(T) /\ Len(a) = k - 1 /\ \A i \in 1 .. k - 1 : a[i] = s[i]
  BY <1>1
<1>4. b \in Seq(T) /\ Len(b) = Len(s) - k /\ \A i \in 1 .. Len(s) - k : b[i] = s[k + i]
  BY <1>2
<1>5. /\ a \o b \in Seq(T) /\ Len(a \o b) = Len(s) - 1
      /\ \A i \in 1 .. Len(s) - 1 : (a \o b)[i] = IF i < k THEN a[i] ELSE b[i - k + 1]
  <2>1. /\ a \o b \in Seq(T) /\ Len(a \o b) = Len(a) + Len(b)
        /\ \A i \in 1 .. Len(a) + Len(b) : (a \o b)[i] = IF i <= Len(a) THEN a[i] ELSE b[i - Len(a)]
    BY <1>3, <1>4, ConcatProperties
  <2> QED
    BY <1>3, <1>4, <2>1
<1>6. \A i \in 1 .. Len(s) - 1 : (a \o b)[i] = IF i < k THEN s[i] ELSE s[i + 1]
  BY <1>3, <1>4, <1>5
<1> QED
  BY <1>1, <1>2, <1>5, <1>6 DEF RemoveAt

\* InsertAt keeps all elements in their order, with the new one at its place.
LEMMA InsertAtLemma ==
    ASSUME NEW T, NEW s \in Seq(T), NEW k \in 1 .. Len(s) + 1, NEW e \in T
    PROVE  /\ InsertAt(s, k, e) \in Seq(T)
           /\ Len(InsertAt(s, k, e)) = Len(s) + 1
           /\ \A i \in 1 .. Len(s) + 1 :
                 InsertAt(s, k, e)[i] = IF i < k THEN s[i] ELSE IF i = k THEN e ELSE s[i - 1]
<1>1. PICK a : a = SubSeq(s, 1, k - 1)
  OBVIOUS
<1>2. PICK b : b = SubSeq(s, k, Len(s))
  OBVIOUS
<1>3. a \in Seq(T) /\ Len(a) = k - 1 /\ \A i \in 1 .. k - 1 : a[i] = s[i]
  BY <1>1
<1>4. b \in Seq(T) /\ Len(b) = Len(s) - k + 1 /\ \A i \in 1 .. Len(s) - k + 1 : b[i] = s[k + i - 1]
  BY <1>2
<1>5. PICK c : c = a \o <<e>>
  OBVIOUS
<1>6. /\ c \in Seq(T) /\ Len(c) = k
      /\ \A i \in 1 .. k : c[i] = IF i < k THEN s[i] ELSE e
  BY <1>3, <1>5
<1>7. /\ c \o b \in Seq(T) /\ Len(c \o b) = Len(s) + 1
      /\ \A i \in 1 .. Len(s) + 1 : (c \o b)[i] = IF i <= k THEN c[i] ELSE b[i - k]
  <2>1. /\ c \o b \in Seq(T) /\ Len(c \o b) = Len(c) + Len(b)
        /\ \A i \in 1 .. Len(c) + Len(b) : (c \o b)[i] = IF i <= Len(c) THEN c[i] ELSE b[i - Len(c)]
    BY <1>4, <1>6, ConcatProperties
  <2> QED
    BY <1>4, <1>6, <2>1
<1>8. \A i \in 1 .. Len(s) + 1 : (c \o b)[i] = IF i < k THEN s[i] ELSE IF i = k THEN e ELSE s[i - 1]
  BY <1>4, <1>6, <1>7
<1> QED
  BY <1>1, <1>2, <1>5, <1>7, <1>8 DEF InsertAt
-------------------------------------------------------------------------------
(* Sums of a function over a finite set.                                     *)

\* The element that SumFunction takes next.
Pick(s) == CHOOSE x \in s : TRUE

\* h gives the sum of g over each of these sets.
SumsOn(h, g, sets) ==
    /\ h \in [sets -> Int]
    /\ \A s \in sets : h[s] = IF s = {} THEN 0 ELSE g[Pick(s)] + h[s \ {Pick(s)}]

SumTable(h, g, D) == SumsOn(h, g, SUBSET D)

\* Such a table, read in any order.
AnyOrder(h, g, D) ==
    \A T \in SUBSET D : h[T] \in Int /\ \A x \in T : g[x] \in Int /\ h[T] = g[x] + h[T \ {x}]

\* The function that SumFunction chooses.
Sums(h, g) == h = [s \in SUBSET DOMAIN g |->
                      IF s = {} THEN 0 ELSE g[Pick(s)] + h[s \ {Pick(s)}]]

\* Subsets of a finite set, up to a size.
UpTo(S, n) == {s \in SUBSET S : Cardinality(s) <= n}

\* A subset without one of its elements.
LEMMA SmallerSet ==
    ASSUME NEW S, IsFiniteSet(S), NEW s \in SUBSET S, NEW x \in s
    PROVE  /\ Pick(s) \in s
           /\ s \ {x} \in SUBSET S
           /\ Cardinality(s) \in Nat /\ Cardinality(s \ {x}) \in Nat
           /\ Cardinality(s \ {x}) = Cardinality(s) - 1
<1>1. Pick(s) \in s
  BY DEF Pick
<1>2. IsFiniteSet(s)
  BY FS_Subset
<1> QED
  BY <1>1, <1>2, FS_RemoveElement, FS_CardinalityType

\* There is such a function for a function over a finite set.
LEMMA SumExists ==
    ASSUME NEW D, IsFiniteSet(D), NEW g \in [D -> Int]
    PROVE  \E h : SumsOn(h, g, SUBSET D)
<1> DEFINE S == {n \in Nat : \E h : SumsOn(h, g, UpTo(D, n))}
<1>1. 0 \in S
  <2>1. \A s \in UpTo(D, 0) : s = {}
    <3> SUFFICES ASSUME NEW s \in UpTo(D, 0) PROVE s = {}
      OBVIOUS
    <3>1. IsFiniteSet(s) /\ Cardinality(s) \in Nat /\ Cardinality(s) <= 0
      BY FS_Subset, FS_CardinalityType DEF UpTo
    <3> QED
      BY <3>1, FS_EmptySet
  <2>2. SumsOn([s \in UpTo(D, 0) |-> 0], g, UpTo(D, 0))
    BY <2>1 DEF SumsOn
  <2> QED
    BY <2>2
<1>2. ASSUME NEW n \in Nat, n \in S PROVE n + 1 \in S
  <2>1. PICK h : SumsOn(h, g, UpTo(D, n))
    BY <1>2
  <2>2. PICK k : k = [s \in UpTo(D, n + 1) |->
                         IF s = {} THEN 0 ELSE g[Pick(s)] + h[s \ {Pick(s)}]]
    OBVIOUS
  <2>3. \A s \in UpTo(D, n + 1) : s # {} => Pick(s) \in D /\ s \ {Pick(s)} \in UpTo(D, n)
    <3> SUFFICES ASSUME NEW s \in UpTo(D, n + 1), s # {}
                 PROVE Pick(s) \in D /\ s \ {Pick(s)} \in UpTo(D, n)
      OBVIOUS
    <3>1. PICK x \in s : x = Pick(s)
      BY DEF Pick
    <3> QED
      BY <3>1, SmallerSet DEF UpTo
  <2>4. \A s \in UpTo(D, n) : s \in UpTo(D, n + 1)
    <3> SUFFICES ASSUME NEW s \in UpTo(D, n) PROVE s \in UpTo(D, n + 1)
      OBVIOUS
    <3>1. Cardinality(s) \in Nat
      BY FS_Subset, FS_CardinalityType DEF UpTo
    <3> QED
      BY <3>1 DEF UpTo
  <2>5. \A s \in UpTo(D, n) : k[s] = h[s]
    BY <2>1, <2>2, <2>4 DEF SumsOn
  <2>6. k \in [UpTo(D, n + 1) -> Int]
    BY <2>1, <2>2, <2>3 DEF SumsOn
  <2>7. SumsOn(k, g, UpTo(D, n + 1))
    BY <2>2, <2>3, <2>5, <2>6 DEF SumsOn
  <2> QED
    BY <2>7
<1>3. Nat \subseteq S
  <2> HIDE DEF S
  <2> QED
    BY <1>1, <1>2, SetInduction
<1>4. UpTo(D, Cardinality(D)) = SUBSET D
  BY FS_Subset DEF UpTo
<1>5. Cardinality(D) \in S
  <2> HIDE DEF S
  <2> QED
    BY <1>3, FS_CardinalityType
<1> QED
  BY <1>4, <1>5

\* SumFunction computes it.
LEMMA SumFunctionIs ==
    ASSUME NEW D, IsFiniteSet(D), NEW g \in [D -> Int]
    PROVE  \E h : SumTable(h, g, D) /\ SumFunction(g) = h[D]
<1>1. SumFunction(g) = (CHOOSE h : Sums(h, g))[DOMAIN g]
  BY DEF SumFunction, SumFunctionOnSet, FoldFunctionOnSet, MapThenFoldSet, Sums, Pick
<1>2. \E h : Sums(h, g)
  <2>1. PICK h : SumsOn(h, g, SUBSET D)
    BY SumExists
  <2>2. Sums(h, g)
    BY <2>1 DEF SumsOn, Sums
  <2> QED
    BY <2>2
<1>3. PICK h : h = CHOOSE k : Sums(k, g)
  OBVIOUS
<1>4. Sums(h, g)
  BY <1>2, <1>3
<1>5. h = [s \in SUBSET D |-> h[s]]
  BY <1>4 DEF Sums
<1>a. \A s \in SUBSET D : h[s] = IF s = {} THEN 0 ELSE g[Pick(s)] + h[s \ {Pick(s)}]
  BY <1>4 DEF Sums
<1> DEFINE P(n) == \A s \in UpTo(D, n) : h[s] \in Int
           S == {n \in Nat : P(n)}
<1>6. P(0)
  <2> SUFFICES ASSUME NEW s \in UpTo(D, 0) PROVE h[s] \in Int
    OBVIOUS
  <2>1. IsFiniteSet(s) /\ Cardinality(s) \in Nat /\ Cardinality(s) <= 0 /\ s \in SUBSET D
    BY FS_Subset, FS_CardinalityType DEF UpTo
  <2>2. s = {}
    BY <2>1, FS_EmptySet
  <2>3. h[s] = 0
    BY <1>a, <2>1, <2>2
  <2> QED
    BY <2>3
<1>7. ASSUME NEW n \in Nat, P(n) PROVE P(n + 1)
  <2> SUFFICES ASSUME NEW s \in UpTo(D, n + 1) PROVE h[s] \in Int
    OBVIOUS
  <2>0. s \in SUBSET D
    BY DEF UpTo
  <2>1. CASE s = {}
    <3>1. h[s] = 0
      BY <1>a, <2>0, <2>1
    <3> QED
      BY <3>1
  <2>2. CASE s # {}
    <3>1. PICK x \in s : x = Pick(s)
      BY <2>2 DEF Pick
    <3>2. s \ {x} \in UpTo(D, n)
      BY <3>1, SmallerSet DEF UpTo
    <3>3. h[s] = g[x] + h[s \ {x}]
      BY <1>a, <2>0, <2>2, <3>1
    <3>4. g[x] \in Int /\ h[s \ {x}] \in Int
      BY <1>7, <2>0, <3>2
    <3> QED
      BY <3>3, <3>4
  <2> QED
    BY <2>1, <2>2
<1>8. Nat \subseteq S
  <2>1. 0 \in S /\ \A n \in Nat : n \in S => n + 1 \in S
    <3> HIDE DEF P
    <3> QED
      BY <1>6, <1>7
  <2> HIDE DEF S
  <2> QED
    BY <2>1, SetInduction
<1>9. \A s \in SUBSET D : h[s] \in Int
  BY <1>8, FS_Subset, FS_CardinalityType DEF UpTo
<1>10. SumTable(h, g, D)
  BY <1>5, <1>a, <1>9 DEF SumTable, SumsOn
<1> QED
  BY <1>1, <1>3, <1>10

\* Induction over the subsets of a finite set.
LEMMA SubsetInduction ==
    ASSUME NEW D, IsFiniteSet(D), NEW S,
           \A T \in SUBSET D : (\A x \in T : T \ {x} \in S) => T \in S
    PROVE  SUBSET D \subseteq S
<1> DEFINE P(n) == \A s \in UpTo(D, n) : s \in S
           N == {n \in Nat : P(n)}
<1>1. P(0)
  <2> SUFFICES ASSUME NEW s \in UpTo(D, 0) PROVE s \in S
    OBVIOUS
  <2>1. IsFiniteSet(s) /\ Cardinality(s) \in Nat /\ Cardinality(s) <= 0 /\ s \in SUBSET D
    BY FS_Subset, FS_CardinalityType DEF UpTo
  <2>2. s = {}
    BY <2>1, FS_EmptySet
  <2> QED
    BY <2>1, <2>2
<1>2. ASSUME NEW n \in Nat, P(n) PROVE P(n + 1)
  <2> SUFFICES ASSUME NEW s \in UpTo(D, n + 1) PROVE s \in S
    OBVIOUS
  <2>1. s \in SUBSET D
    BY DEF UpTo
  <2>2. ASSUME NEW x \in s PROVE s \ {x} \in S
    <3>1. s \ {x} \in UpTo(D, n)
      BY <2>1, SmallerSet DEF UpTo
    <3> QED
      BY <1>2, <3>1
  <2> QED
    BY <2>1, <2>2
<1>3. Nat \subseteq N
  <2>1. 0 \in N /\ \A n \in Nat : n \in N => n + 1 \in N
    <3> HIDE DEF P
    <3> QED
      BY <1>1, <1>2
  <2> HIDE DEF N
  <2> QED
    BY <2>1, SetInduction
<1> QED
  BY <1>3, FS_Subset, FS_CardinalityType DEF UpTo

\* The elements may be taken in any order.
LEMMA SumOrder ==
    ASSUME NEW D, IsFiniteSet(D), NEW g \in [D -> Int], NEW h, SumTable(h, g, D)
    PROVE  AnyOrder(h, g, D)
<1> DEFINE P(T) == \A x \in T : h[T] = g[x] + h[T \ {x}]
           S == {T \in SUBSET D : P(T)}
<1>1. \A T \in SUBSET D : T # {} => Pick(T) \in T /\ h[T] = g[Pick(T)] + h[T \ {Pick(T)}]
  BY DEF SumTable, SumsOn, Pick
<1>2. \A T \in SUBSET D : h[T] \in Int
  BY DEF SumTable, SumsOn
<1>3. ASSUME NEW T \in SUBSET D, \A x \in T : P(T \ {x}) PROVE P(T)
  <2> SUFFICES ASSUME NEW x \in T PROVE h[T] = g[x] + h[T \ {x}]
    OBVIOUS
  <2>1. PICK c \in T : h[T] = g[c] + h[T \ {c}]
    BY <1>1
  <2>2. CASE c = x
    BY <2>1, <2>2
  <2>3. CASE c # x
    <3>1. h[T \ {c}] = g[x] + h[(T \ {c}) \ {x}]
      BY <1>3, <2>3
    <3>2. h[T \ {x}] = g[c] + h[(T \ {x}) \ {c}]
      BY <1>3, <2>3
    <3>3. (T \ {c}) \ {x} = (T \ {x}) \ {c} /\ (T \ {x}) \ {c} \in SUBSET D
      OBVIOUS
    <3>4. PICK u \in Int : u = h[(T \ {x}) \ {c}]
      BY <1>2, <3>3
    <3>5. PICK v \in Int, w \in Int : v = g[x] /\ w = g[c]
      OBVIOUS
    <3>6. h[T \ {c}] = v + u /\ h[T \ {x}] = w + u
      BY <3>1, <3>2, <3>3, <3>4, <3>5
    <3>7. h[T] = w + (v + u)
      BY <2>1, <3>5, <3>6
    <3>8. w + (v + u) = v + (w + u)
      OBVIOUS
    <3> QED
      BY <3>5, <3>6, <3>7, <3>8
  <2> QED
    BY <2>2, <2>3
<1>4. SUBSET D \subseteq S
  <2>1. \A T \in SUBSET D : (\A x \in T : T \ {x} \in S) => T \in S
    <3> HIDE DEF P
    <3> QED
      BY <1>3
  <2> HIDE DEF S
  <2> QED
    BY <2>1, SubsetInduction
<1> QED
  BY <1>2, <1>4 DEF AnyOrder

\* Over a set on which two functions agree, the sums do.
LEMMA SumAgree ==
    ASSUME NEW D, IsFiniteSet(D), NEW g \in [D -> Int], NEW h, SumTable(h, g, D),
           NEW E \in SUBSET D, NEW f \in [E -> Int], NEW k, SumTable(k, f, E),
           \A x \in E : f[x] = g[x]
    PROVE  \A T \in SUBSET E : k[T] = h[T]
<1> DEFINE S == {T \in SUBSET E : k[T] = h[T]}
<1>0. IsFiniteSet(E)
  BY FS_Subset
<1>a. AnyOrder(h, g, D) /\ AnyOrder(k, f, E)
  BY <1>0, SumOrder
<1>1. ASSUME NEW T \in SUBSET E, \A x \in T : T \ {x} \in S PROVE k[T] = h[T]
  <2>1. CASE T = {}
    BY <2>1 DEF SumTable, SumsOn
  <2>2. CASE T # {}
    <3>1. PICK x \in T : TRUE
      BY <2>2
    <3>2. k[T] = f[x] + k[T \ {x}]
      BY <1>a DEF AnyOrder
    <3>3. h[T] = g[x] + h[T \ {x}]
      BY <1>a DEF AnyOrder
    <3> QED
      BY <1>1, <3>2, <3>3
  <2> QED
    BY <2>1, <2>2
<1>2. SUBSET E \subseteq S
  <2>1. \A T \in SUBSET E : (\A x \in T : T \ {x} \in S) => T \in S
    BY <1>1
  <2> HIDE DEF S
  <2> QED
    BY <1>0, <2>1, SubsetInduction
<1> QED
  BY <1>2

\* The sum over no element is 0.
LEMMA SumEmpty ==
    ASSUME NEW g, DOMAIN g = {}, g \in [{} -> Int]
    PROVE  SumFunction(g) = 0
<1>1. IsFiniteSet({})
  BY FS_EmptySet
<1>2. PICK h : SumTable(h, g, {}) /\ SumFunction(g) = h[{}]
  BY <1>1, SumFunctionIs
<1> QED
  BY <1>2 DEF SumTable, SumsOn

\* The sum, with one element taken apart.
LEMMA SumStep ==
    ASSUME NEW D, IsFiniteSet(D), NEW g \in [D -> Int], NEW x \in D
    PROVE  LET f == [y \in D \ {x} |-> g[y]]
           IN  /\ SumFunction(g) \in Int /\ SumFunction(f) \in Int
               /\ SumFunction(g) = g[x] + SumFunction(f)
<1>1. PICK E \in SUBSET D : E = D \ {x}
  OBVIOUS
<1>2. PICK f \in [E -> Int] : f = [y \in D \ {x} |-> g[y]]
  BY <1>1
<1>3. PICK h : SumTable(h, g, D) /\ SumFunction(g) = h[D]
  BY SumFunctionIs
<1>4. PICK k : SumTable(k, f, E) /\ SumFunction(f) = k[E]
  BY SumFunctionIs, FS_Subset
<1>5. \A y \in E : f[y] = g[y]
  BY <1>1, <1>2
<1>6. k[E] = h[E]
  BY <1>3, <1>4, <1>5, SumAgree
<1>7. h[D] = g[x] + h[E]
  <2>1. AnyOrder(h, g, D)
    BY <1>3, SumOrder
  <2> QED
    BY <1>1, <2>1 DEF AnyOrder
<1>8. h[D] \in Int /\ k[E] \in Int
  BY <1>3, <1>4 DEF SumTable, SumsOn
<1> QED
  BY <1>2, <1>3, <1>4, <1>6, <1>7, <1>8

\* A sum of natural numbers is one, and none of them exceeds it.
LEMMA SumNat ==
    ASSUME NEW D, IsFiniteSet(D), NEW g \in [D -> Nat]
    PROVE  SumFunction(g) \in Nat /\ \A x \in D : g[x] <= SumFunction(g)
<1>0. g \in [D -> Int]
  OBVIOUS
<1>1. PICK h : SumTable(h, g, D) /\ SumFunction(g) = h[D]
  BY <1>0, SumFunctionIs
<1>a. AnyOrder(h, g, D)
  BY <1>0, <1>1, SumOrder
<1>2. \A T \in SUBSET D : \A x \in T : h[T] = g[x] + h[T \ {x}]
  BY <1>a DEF AnyOrder
<1>b. h[{}] = 0
  BY <1>1 DEF SumTable, SumsOn
<1> DEFINE S == {T \in SUBSET D : h[T] \in Nat}
<1>3. ASSUME NEW T \in SUBSET D, \A x \in T : T \ {x} \in S PROVE h[T] \in Nat
  <2>1. CASE T = {}
    BY <1>b, <2>1
  <2>2. CASE T # {}
    <3>1. PICK x \in T : TRUE
      BY <2>2
    <3>2. h[T] = g[x] + h[T \ {x}] /\ g[x] \in Nat
      BY <1>2
    <3> QED
      BY <1>3, <3>2
  <2> QED
    BY <2>1, <2>2
<1>4. SUBSET D \subseteq S
  <2>1. \A T \in SUBSET D : (\A x \in T : T \ {x} \in S) => T \in S
    BY <1>3
  <2> HIDE DEF S
  <2> QED
    BY <2>1, SubsetInduction
<1>5. ASSUME NEW x \in D PROVE g[x] <= h[D]
  <2>1. h[D] = g[x] + h[D \ {x}] /\ g[x] \in Nat /\ h[D \ {x}] \in Nat /\ h[D] \in Nat
    BY <1>2, <1>4
  <2> QED
    BY <2>1
<1> QED
  BY <1>1, <1>4, <1>5

\* The sum without one element, and the other way round with one more.
LEMMA SumWithout ==
    ASSUME NEW D, IsFiniteSet(D), NEW g \in [D -> Int], NEW x \in D,
           NEW E, E = D \ {x}, NEW f \in [E -> Int], \A y \in E : f[y] = g[y]
    PROVE  /\ SumFunction(g) \in Int /\ SumFunction(f) \in Int
           /\ SumFunction(g) = g[x] + SumFunction(f)
<1>1. f = [y \in D \ {x} |-> g[y]]
  OBVIOUS
<1> QED
  BY <1>1, SumStep

\* The sums of two functions that differ in one element.
LEMMA SumChange ==
    ASSUME NEW D, IsFiniteSet(D), NEW f \in [D -> Int], NEW g \in [D -> Int], NEW x \in D,
           \A y \in D \ {x} : f[y] = g[y]
    PROVE  /\ SumFunction(f) \in Int /\ SumFunction(g) \in Int
           /\ SumFunction(f) - f[x] = SumFunction(g) - g[x]
<1>1. PICK E : E = D \ {x}
  OBVIOUS
<1>2. PICK h \in [E -> Int] : \A y \in E : h[y] = g[y]
  <2>1. [y \in E |-> g[y]] \in [E -> Int]
    BY <1>1
  <2> QED
    BY <2>1
<1>3. \A y \in E : h[y] = f[y]
  BY <1>1, <1>2
<1>4. PICK a \in Int : a = SumFunction(h)
  BY <1>1, <1>2, SumWithout
<1>5. SumFunction(f) = f[x] + a
  <2>1. SumFunction(f) = f[x] + SumFunction(h)
    BY <1>1, <1>3, SumWithout
  <2> QED
    BY <1>4, <2>1
<1>6. SumFunction(g) = g[x] + a
  <2>1. SumFunction(g) = g[x] + SumFunction(h)
    BY <1>1, <1>2, SumWithout
  <2> QED
    BY <1>4, <2>1
<1>7. f[x] \in Int /\ g[x] \in Int
  OBVIOUS
<1> QED
  BY <1>5, <1>6, <1>7
===============================================================================
