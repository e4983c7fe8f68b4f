--------------------------- MODULE MarketDataProofs ---------------------------
(***************************************************************************)
(* Safety of the market-data path, for every stream of updates, every size *)
(* of cache, queue and pool, and any number of faults.                     *)
(***************************************************************************)
EXTENDS MarketData, CommonLemmas

-------------------------------------------------------------------------------
(* What FoldLeft computes when it folds Apply.                               *)

\* h gives the book after the updates whose indices are in a set.
Folds(h, b, es, n) ==
    h = [s \in SUBSET (1 .. n) |-> IF s = {} THEN b ELSE Apply(h[s \ {Max(s)}], es[Max(s)])]

\* The greatest of finitely many numbers.
LEMMA MaxOfSet ==
    ASSUME NEW n \in Nat, NEW s \in SUBSET (1 .. n), s # {}
    PROVE  Max(s) \in s /\ \A y \in s : y <= Max(s)
<1>1. PICK S : S = {n - x : x \in s}
  OBVIOUS
<1>2. S \in SUBSET Nat /\ S # {}
  <2>1. \A x \in s : n - x \in Nat
    OBVIOUS
  <2>2. \A y \in S : \E x \in s : y = n - x
    BY <1>1
  <2> QED
    BY <1>1, <2>1, <2>2
<1>3. PICK m \in S : \A k \in S : m <= k
  BY <1>2, LeastNat
<1>4. PICK x \in s : m = n - x
  BY <1>1, <1>3
<1>5. \A y \in s : x >= y
  <2> SUFFICES ASSUME NEW y \in s PROVE x >= y
    OBVIOUS
  <2>1. n - y \in S
    BY <1>1
  <2>2. n - x <= n - y
    BY <1>3, <1>4, <2>1
  <2> QED
    BY <2>2
<1>6. Max(s) \in s /\ \A y \in s : Max(s) >= y
  BY <1>5 DEF Max
<1> QED
  BY <1>6

\* There is such a function.
LEMMA FoldExists ==
    ASSUME NEW n \in Nat, NEW b, NEW es
    PROVE  \E h : Folds(h, b, es, n)
<1> DEFINE F(h, m) == h = [s \in SUBSET (1 .. m) |->
                              IF s = {} THEN b ELSE Apply(h[s \ {Max(s)}], es[Max(s)])]
           S == {m \in Nat : \E h : F(h, m)}
<1>1. 0 \in S
  <2>1. PICK h : h = [s \in SUBSET (1 .. 0) |-> b]
    OBVIOUS
  <2>2. \A s \in SUBSET (1 .. 0) : s = {}
    OBVIOUS
  <2>3. F(h, 0)
    BY <2>1, <2>2
  <2> QED
    BY <2>3
<1>2. ASSUME NEW m \in Nat, m \in S PROVE m + 1 \in S
  <2>0. PICK p \in Nat : p = m + 1
    OBVIOUS
  <2>1. PICK h : F(h, m)
    BY <1>2
  <2>2. PICK k : k = [s \in SUBSET (1 .. m + 1) |->
                         IF s \in SUBSET (1 .. m) THEN h[s] ELSE Apply(h[s \ {Max(s)}], es[Max(s)])]
    OBVIOUS
  <2>3. ASSUME NEW s \in SUBSET (1 .. m + 1), s # {}
        PROVE  /\ s \ {Max(s)} \in SUBSET (1 .. m)
               /\ s \ {Max(s)} \in SUBSET (1 .. m + 1)
    <3>1. Max(s) \in s /\ \A y \in s : y <= Max(s)
      <4>1. s \in SUBSET (1 .. p)
        BY <2>0
      <4> QED
        BY <2>3, <4>1, MaxOfSet
    <3>2. \A y \in s \ {Max(s)} : y \in 1 .. m
      <4> SUFFICES ASSUME NEW y \in s \ {Max(s)} PROVE y \in 1 .. m
        OBVIOUS
      <4>1. y \in 1 .. m + 1 /\ Max(s) \in 1 .. m + 1 /\ y <= Max(s) /\ y # Max(s)
        BY <3>1
      <4> QED
        BY <4>1
    <3> QED
      BY <3>2
  <2>4. ASSUME NEW s \in SUBSET (1 .. m + 1)
        PROVE  k[s] = IF s = {} THEN b ELSE Apply(k[s \ {Max(s)}], es[Max(s)])
    <3>1. CASE s = {}
      <4>1. s \in SUBSET (1 .. m)
        BY <3>1
      <4>2. h[s] = b
        <5>1. h[s] = IF s = {} THEN b ELSE Apply(h[s \ {Max(s)}], es[Max(s)])
          BY <2>1, <4>1
        <5> QED
          BY <3>1, <5>1
      <4>3. k[s] = h[s]
        BY <2>2, <4>1
      <4> QED
        BY <3>1, <4>2, <4>3
    <3>2. CASE s # {}
      <4>1. k[s \ {Max(s)}] = h[s \ {Max(s)}]
        BY <2>2, <2>3, <3>2
      <4>2. k[s] = Apply(h[s \ {Max(s)}], es[Max(s)])
        <5>1. CASE s \in SUBSET (1 .. m)
          <6>1. h[s] = IF s = {} THEN b ELSE Apply(h[s \ {Max(s)}], es[Max(s)])
            BY <2>1, <5>1
          <6>2. k[s] = h[s]
            BY <2>2, <5>1
          <6> QED
            BY <3>2, <6>1, <6>2
        <5>2. CASE s \notin SUBSET (1 .. m)
          BY <2>2, <5>2
        <5> QED
          BY <5>1, <5>2
      <4> QED
        BY <3>2, <4>1, <4>2
    <3> QED
      BY <3>1, <3>2
  <2>5. F(k, m + 1)
    <3>1. k = [s \in SUBSET (1 .. m + 1) |-> k[s]]
      BY <2>2
    <3> QED
      BY <2>4, <3>1
  <2> QED
    BY <2>0, <2>5
<1>3. Nat \subseteq S
  <2> HIDE DEF S
  <2> QED
    BY <1>1, <1>2, SetInduction
<1>4. n \in S
  <2> HIDE DEF S
  <2> QED
    BY <1>3
<1> QED
  BY <1>4 DEF Folds

\* ApplyAll is its value at all indices.
LEMMA ApplyAllIs ==
    ASSUME NEW n \in Nat, NEW b, NEW es, DOMAIN es = 1 .. n
    PROVE  \E h : Folds(h, b, es, n) /\ ApplyAll(b, es) = h[1 .. n]
<1>1. ApplyAll(b, es) = (CHOOSE h : Folds(h, b, es, n))[1 .. n]
  BY DEF ApplyAll, FoldLeft, MapThenFoldSet, Folds
<1>2. \E h : Folds(h, b, es, n)
  BY FoldExists
<1>3. PICK h : h = CHOOSE k : Folds(k, b, es, n)
  OBVIOUS
<1>4. Folds(h, b, es, n)
  BY <1>2, <1>3
<1> QED
  BY <1>1, <1>3, <1>4

\* Along the initial segments it goes from book to book.
LEMMA FoldStep ==
    ASSUME NEW n \in Nat, NEW b, NEW es, NEW h, Folds(h, b, es, n)
    PROVE  /\ h[1 .. 0] = b
           /\ \A j \in 0 .. n - 1 : h[1 .. j + 1] = Apply(h[1 .. j], es[j + 1])
<1>1. h[1 .. 0] = b
  <2>1. 1 .. 0 \in SUBSET (1 .. n) /\ 1 .. 0 = {}
    OBVIOUS
  <2> QED
    BY <2>1 DEF Folds
<1>2. ASSUME NEW j \in 0 .. n - 1 PROVE h[1 .. j + 1] = Apply(h[1 .. j], es[j + 1])
  <2>1. PICK s : s = 1 .. j + 1
    OBVIOUS
  <2>2. s \in SUBSET (1 .. n) /\ s # {} /\ j + 1 \in s
    BY <2>1
  <2>3. Max(s) \in s /\ \A y \in s : y <= Max(s)
    BY <2>2, MaxOfSet
  <2>4. Max(s) = j + 1
    BY <2>1, <2>2, <2>3
  <2>5. s \ {Max(s)} = 1 .. j
    BY <2>1, <2>4
  <2>6. h[s] = IF s = {} THEN b ELSE Apply(h[s \ {Max(s)}], es[Max(s)])
    BY <2>2 DEF Folds
  <2>7. h[s] = Apply(h[1 .. j], es[j + 1])
    BY <2>2, <2>4, <2>5, <2>6
  <2> QED
    BY <2>1, <2>7
<1> QED
  BY <1>1, <1>2

\* ApplyAll of the prefixes of a sequence: one update after the other.
LEMMA ApplyAllSteps ==
    ASSUME NEW T, NEW es \in Seq(T), NEW b
    PROVE  /\ ApplyAll(b, SubSeq(es, 1, 0)) = b
           /\ \A k \in 0 .. Len(es) - 1 :
                 ApplyAll(b, SubSeq(es, 1, k + 1)) = Apply(ApplyAll(b, SubSeq(es, 1, k)), es[k + 1])
           /\ SubSeq(es, 1, Len(es)) = es
<1>1. PICK n \in Nat : n = Len(es)
  OBVIOUS
<1>2. PICK h : Folds(h, b, es, n)
  BY FoldExists
<1>3. /\ h[1 .. 0] = b
      /\ \A j \in 0 .. n - 1 : h[1 .. j + 1] = Apply(h[1 .. j], es[j + 1])
  BY <1>2, FoldStep
<1>4. ASSUME NEW k \in 0 .. n PROVE ApplyAll(b, SubSeq(es, 1, k)) = h[1 .. k]
  <2>1. PICK t : t = SubSeq(es, 1, k)
    OBVIOUS
  <2>2. DOMAIN t = 1 .. k /\ k \in Nat /\ \A i \in 1 .. k : t[i] = es[i]
    BY <1>1, <2>1
  <2>3. PICK g : Folds(g, b, t, k) /\ ApplyAll(b, t) = g[1 .. k]
    BY <2>2, ApplyAllIs
  <2>4. /\ g[1 .. 0] = b
        /\ \A j \in 0 .. k - 1 : g[1 .. j + 1] = Apply(g[1 .. j], t[j + 1])
    BY <2>2, <2>3, FoldStep
  <2> DEFINE S == {j \in Nat : j <= k => g[1 .. j] = h[1 .. j]}
  <2>5. 0 \in S
    BY <1>3, <2>4
  <2>6. ASSUME NEW j \in Nat, j \in S PROVE j + 1 \in S
    <3>1. CASE j + 1 <= k
      <4>1. g[1 .. j] = h[1 .. j] /\ j \in 0 .. k - 1 /\ j \in 0 .. n - 1 /\ t[j + 1] = es[j + 1]
        BY <2>2, <2>6, <3>1
      <4>2. g[1 .. j + 1] = Apply(g[1 .. j], t[j + 1])
        BY <2>4, <4>1
      <4>3. h[1 .. j + 1] = Apply(h[1 .. j], es[j + 1])
        BY <1>3, <4>1
      <4>4. g[1 .. j + 1] = h[1 .. j + 1]
        BY <4>1, <4>2, <4>3
      <4> QED
        BY <4>4
    <3>2. CASE ~(j + 1 <= k)
      BY <3>2
    <3> QED
      BY <3>1, <3>2
  <2>7. Nat \subseteq S
    <3> HIDE DEF S
    <3> QED
      BY <2>5, <2>6, SetInduction
  <2>8. k \in S
    <3> HIDE DEF S
    <3> QED
      BY <2>2, <2>7
  <2> QED
    BY <2>1, <2>2, <2>3, <2>8
<1>5. ASSUME NEW k \in 0 .. n - 1
      PROVE  ApplyAll(b, SubSeq(es, 1, k + 1)) = Apply(ApplyAll(b, SubSeq(es, 1, k)), es[k + 1])
  <2>1. ApplyAll(b, SubSeq(es, 1, k)) = h[1 .. k]
    BY <1>4
  <2>2. ApplyAll(b, SubSeq(es, 1, k + 1)) = h[1 .. k + 1]
    BY <1>4
  <2> QED
    BY <1>3, <2>1, <2>2
<1>6. ApplyAll(b, SubSeq(es, 1, 0)) = b
  BY <1>3, <1>4
<1> QED
  BY <1>1, <1>5, <1>6
-------------------------------------------------------------------------------
(* The stream of updates and the books it leads to.                          *)

UpdateTypes == {"ADD", "MODIFY", "CANCEL", "TRADE"}

\* An update changes the domain of a book by at most its own order.
LEMMA ApplyDomain ==
    ASSUME NEW b, NEW e
    PROVE  /\ e.type \in {"ADD", "MODIFY"} => DOMAIN Apply(b, e) = DOMAIN b \cup {e.id}
           /\ e.type \in {"CLEAR", "CANCEL", "TRADE", "COMMIT"} => DOMAIN Apply(b, e) \subseteq DOMAIN b
           /\ e.type = "CLEAR" => Apply(b, e) = <<>>
           /\ e.type \in {"TRADE", "COMMIT"} => Apply(b, e) = b
<1>1. CASE e.type = "CLEAR"
  <2>1. Apply(b, e) = <<>>
    BY <1>1 DEF Apply
  <2> QED
    BY <1>1, <2>1
<1>2. CASE e.type \in {"ADD", "MODIFY"}
  <2>1. Apply(b, e) = [i \in DOMAIN b \cup {e.id} |-> IF i = e.id THEN e.qty ELSE b[i]]
    BY <1>2 DEF Apply
  <2> QED
    BY <1>2, <2>1
<1>3. CASE e.type = "CANCEL"
  <2>1. Apply(b, e) = [i \in DOMAIN b \ {e.id} |-> b[i]]
    BY <1>3 DEF Apply
  <2> QED
    BY <1>3, <2>1
<1>4. CASE e.type \in {"TRADE", "COMMIT"}
  <2>1. Apply(b, e) = b
    BY <1>4 DEF Apply
  <2> QED
    BY <1>4, <2>1
<1>5. CASE e.type \notin {"CLEAR", "ADD", "MODIFY", "CANCEL", "TRADE", "COMMIT"}
  BY <1>5
<1> QED
  BY <1>1, <1>2, <1>3, <1>4, <1>5

\* The updates of the stream are what they are and apply one after the other.
LEMMA StreamFacts ==
    ASSUME stream \in Streams
    PROVE  /\ stream \in Seq([type : UpdateTypes, id : Nat, qty : Nat])
           /\ Len(stream) \in Nat
           /\ \A n \in 1 .. Len(stream) : stream[n].type \in UpdateTypes /\ stream[n].id \in Orders
           /\ BookAt(0) = <<>>
           /\ \A n \in 0 .. Len(stream) - 1 :
                 Applies(BookAt(n), stream[n + 1]) /\ BookAt(n + 1) = Apply(BookAt(n), stream[n + 1])
<1>1. stream \in Seq([type : UpdateTypes, id : Nat, qty : Nat]) /\ AllApply(<<>>, stream)
  BY StreamsAssumption DEF UpdateTypes
<1>2. Len(stream) \in Nat /\ DOMAIN stream = 1 .. Len(stream)
  BY <1>1
<1>3. ASSUME NEW n \in 1 .. Len(stream) PROVE stream[n].type \in UpdateTypes
  <2>1. PICK R : R = [type : UpdateTypes, id : Nat, qty : Nat]
    OBVIOUS
  <2>2. stream[n] \in R
    BY <1>1, <2>1, ElementOfSeq
  <2> QED
    BY <2>1, <2>2
<1>4. ASSUME NEW n \in 1 .. Len(stream) PROVE stream[n].id \in Orders
  <2>1. PICK X : X = {stream[i].id : i \in DOMAIN stream}
    OBVIOUS
  <2>2. stream[n].id \in X
    BY <1>2, <2>1
  <2>3. X \in {{s[i].id : i \in DOMAIN s} : s \in Streams}
    BY <2>1
  <2> QED
    BY <2>2, <2>3 DEF Orders
<1>5. /\ ApplyAll(<<>>, SubSeq(stream, 1, 0)) = <<>>
      /\ \A k \in 0 .. Len(stream) - 1 :
            ApplyAll(<<>>, SubSeq(stream, 1, k + 1)) =
               Apply(ApplyAll(<<>>, SubSeq(stream, 1, k)), stream[k + 1])
  BY <1>1, ApplyAllSteps
<1>6. ASSUME NEW n \in 0 .. Len(stream) - 1 PROVE Applies(BookAt(n), stream[n + 1])
  <2>1. n + 1 \in 1 .. Len(stream) /\ (n + 1) - 1 = n
    BY <1>2
  <2>2. Applies(ApplyAll(<<>>, SubSeq(stream, 1, (n + 1) - 1)), stream[n + 1])
    BY <1>1, <2>1 DEF AllApply
  <2> QED
    BY <2>1, <2>2 DEF BookAt
<1> QED
  BY <1>1, <1>2, <1>3, <1>4, <1>5, <1>6 DEF BookAt

\* Their books hold finitely many of the stream's orders.
LEMMA StreamBooks ==
    ASSUME stream \in Streams, NEW n \in 0 .. Len(stream)
    PROVE  DOMAIN BookAt(n) \subseteq Orders /\ IsFiniteSet(DOMAIN BookAt(n))
<1> DEFINE S == {k \in Nat : k <= Len(stream) =>
                                DOMAIN BookAt(k) \subseteq Orders /\ IsFiniteSet(DOMAIN BookAt(k))}
<1>1. 0 \in S
  <2>1. DOMAIN BookAt(0) = {}
    BY StreamFacts
  <2>2. IsFiniteSet(DOMAIN BookAt(0))
    BY <2>1, FS_EmptySet
  <2> QED
    BY <2>1, <2>2
<1>2. ASSUME NEW k \in Nat, k \in S PROVE k + 1 \in S
  <2>1. CASE k + 1 <= Len(stream)
    <3>1. /\ k \in 0 .. Len(stream) - 1 /\ k + 1 \in 1 .. Len(stream)
          /\ DOMAIN BookAt(k) \subseteq Orders /\ IsFiniteSet(DOMAIN BookAt(k))
      BY <1>2, <2>1, StreamFacts
    <3>2. PICK e : e = stream[k + 1]
      OBVIOUS
    <3>3. e.type \in UpdateTypes /\ e.id \in Orders /\ BookAt(k + 1) = Apply(BookAt(k), e)
      BY <3>1, <3>2, StreamFacts
    <3>4. DOMAIN BookAt(k + 1) \subseteq DOMAIN BookAt(k) \cup {e.id}
      BY <3>3, ApplyDomain DEF UpdateTypes
    <3>5. IsFiniteSet(DOMAIN BookAt(k) \cup {e.id})
      BY <3>1, FS_AddElement
    <3>6. IsFiniteSet(DOMAIN BookAt(k + 1))
      BY <3>4, <3>5, FS_Subset
    <3> QED
      BY <3>1, <3>3, <3>4, <3>6
  <2>2. CASE ~(k + 1 <= Len(stream))
    BY <2>2
  <2> QED
    BY <2>1, <2>2
<1>3. Nat \subseteq S
  <2> HIDE DEF S
  <2> QED
    BY <1>1, <1>2, SetInduction
<1>4. n \in Nat /\ n <= Len(stream)
  BY StreamFacts
<1>5. n \in S
  <2> HIDE DEF S
  <2> QED
    BY <1>3, <1>4
<1> QED
  BY <1>4, <1>5
-------------------------------------------------------------------------------
(* Sequences of whatever elements: snapshot frames may be altered, so nothing *)
(* is known of the events in them.                                           *)

IsSeq(s) == \E S : s \in Seq(S)

\* The empty sequence, and functions on an initial segment.
LEMMA SeqEmpty == IsSeq(<<>>) /\ Len(<<>>) = 0
<1>1. <<>> \in Seq({})
  OBVIOUS
<1> QED
  BY <1>1 DEF IsSeq

LEMMA SeqFunction ==
    ASSUME NEW n \in Nat, NEW f, f = [i \in 1 .. n |-> f[i]]
    PROVE  IsSeq(f) /\ Len(f) = n
<1>1. PICK S : S = {f[i] : i \in 1 .. n}
  OBVIOUS
<1>2. f \in [1 .. n -> S]
  BY <1>1
<1>3. f \in Seq(S) /\ Len(f) = n
  BY <1>2
<1> QED
  BY <1>3 DEF IsSeq

\* What Append, concatenation, Tail and RemoveAt do.
LEMMA SeqAppend ==
    ASSUME NEW s, IsSeq(s), NEW e
    PROVE  /\ IsSeq(Append(s, e)) /\ Len(s) \in Nat /\ Len(Append(s, e)) = Len(s) + 1
           /\ \A i \in 1 .. Len(s) : Append(s, e)[i] = s[i]
           /\ Append(s, e)[Len(s) + 1] = e
<1>1. PICK S : s \in Seq(S)
  BY DEF IsSeq
<1>2. PICK T : T = S \cup {e}
  OBVIOUS
<1>3. s \in Seq(T) /\ e \in T
  BY <1>1, <1>2
<1>4. Append(s, e) \in Seq(T)
  BY <1>3
<1> QED
  BY <1>3, <1>4 DEF IsSeq

\* v is s followed by t.
Joins(v, s, t) ==
    /\ IsSeq(v) /\ Len(s) \in Nat /\ Len(t) \in Nat
    /\ Len(v) = Len(s) + Len(t)
    /\ \A i \in 1 .. Len(s) : v[i] = s[i]
    /\ \A i \in 1 .. Len(t) : v[Len(s) + i] = t[i]

LEMMA SeqConcat ==
    ASSUME NEW s, IsSeq(s), NEW t, IsSeq(t)
    PROVE  Joins(s \o t, s, t)
<1>1. PICK S : s \in Seq(S)
  BY DEF IsSeq
<1>2. PICK R : t \in Seq(R)
  BY DEF IsSeq
<1>3. PICK T : T = S \cup R
  OBVIOUS
<1>4. s \in Seq(T) /\ t \in Seq(T)
  BY <1>1, <1>2, <1>3
<1>5. Len(s) \in Nat /\ Len(t) \in Nat
  BY <1>4
<1>6. /\ s \o t \in Seq(T) /\ Len(s \o t) = Len(s) + Len(t)
      /\ \A i \in 1 .. Len(s) + Len(t) :
            (s \o t)[i] = IF i <= Len(s) THEN s[i] ELSE t[i - Len(s)]
  BY <1>4, ConcatProperties
<1>7. ASSUME NEW i \in 1 .. Len(s) PROVE (s \o t)[i] = s[i]
  BY <1>5, <1>6
<1>8. ASSUME NEW i \in 1 .. Len(t) PROVE (s \o t)[Len(s) + i] = t[i]
  <2>1. Len(s) + i \in 1 .. Len(s) + Len(t) /\ ~(Len(s) + i <= Len(s)) /\ Len(s) + i - Len(s) = i
    BY <1>5
  <2> QED
    BY <1>6, <2>1
<1> QED
  BY <1>5, <1>6, <1>7, <1>8 DEF IsSeq, Joins

LEMMA SeqTail ==
    ASSUME NEW s, IsSeq(s), s # <<>>
    PROVE  /\ IsSeq(Tail(s)) /\ Len(s) \in Nat /\ Len(s) >= 1
           /\ Len(Tail(s)) = Len(s) - 1
           /\ Head(s) = s[1]
           /\ \A i \in 1 .. Len(s) - 1 : Tail(s)[i] = s[i + 1]
<1>1. PICK S : s \in Seq(S)
  BY DEF IsSeq
<1>2. Tail(s) \in Seq(S)
  BY <1>1
<1> QED
  BY <1>1, <1>2 DEF IsSeq

\* Every element of t is one of s.
Part(t, s) == IsSeq(t) /\ \A i \in 1 .. Len(t) : \E j \in 1 .. Len(s) : t[i] = s[j]

LEMMA SeqRemove ==
    ASSUME NEW s, IsSeq(s), NEW k \in 1 .. Len(s)
    PROVE  Part(RemoveAt(s, k), s)
<1>1. PICK S : s \in Seq(S)
  BY DEF IsSeq
<1>2. Len(s) \in Nat
  BY <1>1
<1>3. /\ RemoveAt(s, k) \in Seq(S)
      /\ Len(RemoveAt(s, k)) = Len(s) - 1
      /\ \A i \in 1 .. Len(s) - 1 : RemoveAt(s, k)[i] = IF i < k THEN s[i] ELSE s[i + 1]
  BY <1>1, RemoveAtLemma
<1>4. ASSUME NEW i \in 1 .. Len(s) - 1 PROVE \E j \in 1 .. Len(s) : RemoveAt(s, k)[i] = s[j]
  <2>1. i \in 1 .. Len(s) /\ i + 1 \in 1 .. Len(s)
    BY <1>2
  <2> QED
    BY <1>3, <2>1
<1> QED
  BY <1>2, <1>3, <1>4 DEF IsSeq, Part
-------------------------------------------------------------------------------
(* What is known of the frames, of the caches of MarketRecovery, and of a     *)
(* batch that it builds.                                                     *)

FrameOK(f) ==
    /\ f.seq \in Nat /\ f.cycle \in 1 .. cycles /\ f.watermark \in 0 .. synced
    /\ f.hash = BookAt(f.watermark)

InNet == {snapNet[i] : i \in 1 .. Len(snapNet)}
InCache(r) == {r.snap[k] : k \in DOMAIN r.snap}
Frames(r) == InNet \cup InCache(r)

\* Snapshots of later cycles cover at least as much; those of one cycle, the same.
Ascending(r) ==
    \A f \in Frames(r), g \in Frames(r) : f.cycle <= g.cycle => f.watermark <= g.watermark

RecOK(r) ==
    /\ r = [recovering |-> r.recovering, invalid |-> r.invalid, cycle |-> r.cycle,
            expected |-> r.expected, snap |-> r.snap, inc |-> r.inc]
    /\ r.recovering \in BOOLEAN /\ r.invalid \in BOOLEAN
    /\ r.cycle \in 0 .. cycles /\ r.expected \in 1 .. published + 1
    /\ IsFiniteSet(DOMAIN r.snap) /\ IsFiniteSet(DOMAIN r.inc)
    /\ DOMAIN r.inc \subseteq 1 .. published
    /\ \A s \in DOMAIN r.inc : r.inc[s] = stream[s]
    /\ \A k \in DOMAIN r.snap :
          FrameOK(r.snap[k]) /\ r.snap[k].seq = k /\ r.snap[k].cycle = r.cycle
    /\ Cached(r) <= CacheLimit

\* Whatever batch r yields reaches the update b.
Reaches(r, b) ==
    \/ b = 0
    \/ \E s \in DOMAIN r.inc : s >= b
    \/ b <= synced /\ \A f \in Frames(r) : f.cycle >= r.cycle => f.watermark >= b

\* C are the books along the batch es, which ends with the marker of generation o.
BatchBooks(C, es, w) ==
    /\ \A i \in 1 .. Len(es) - 1 : Applies(C[i - 1], es[i]) /\ C[i] = Apply(C[i - 1], es[i])
    /\ C[Len(es) - 1] = BookAt(w)

BatchOK(es, w, o) ==
    /\ IsSeq(es) /\ Len(es) > 1 /\ w \in 0 .. published
    /\ es[1].type = "CLEAR"
    /\ es[Len(es)] = Event("COMMIT", w, o)
    /\ \A i \in 1 .. Len(es) - 1 :
          es[i].type # "COMMIT" /\ (es[i].type = "ADD" => es[i].id \in Orders)
    /\ \E C : BatchBooks(C, es, w)

\* The parts of build().
Keys(r) == DOMAIN r.snap
Count(r) == Cardinality(DOMAIN r.snap)
First(r) == r.snap[0]
Final(r) == r.snap[CHOOSE k \in Keys(r) : \A j \in Keys(r) : j <= k]
Mark(r) == First(r).watermark
Later(r) == {s \in DOMAIN r.inc : s > Mark(r)}
Body(r) == [i \in 1 .. Count(r) - 2 |-> r.snap[i].ev]
Incs(r) == [i \in 1 .. Cardinality(Later(r)) |-> r.inc[Mark(r) + i]]

Framed(r) ==
    /\ ~r.invalid /\ 0 \in Keys(r) /\ r.snap[0].ev.type = "START"
    /\ \E k \in Keys(r) : r.snap[k].ev.type = "END" /\ \A j \in Keys(r) : j <= k
Sealed(r) ==
    /\ Final(r).watermark = Mark(r) /\ Final(r).hash = First(r).hash
    /\ First(r).ev.id = Mark(r) /\ Final(r).ev.id = Mark(r)
Complete(r) == Final(r).seq = Count(r) - 1 /\ (Later(r) # {} => Mark(r) + 1 \in Later(r))
Uniform(r) ==
    /\ \A k \in Keys(r) : r.snap[k].watermark = Mark(r) /\ r.snap[k].hash = First(r).hash
    /\ Count(r) > 2 /\ Body(r)[1].type = "CLEAR"
    /\ \A i \in 2 .. Count(r) - 2 : Body(r)[i].type = "ADD"
    /\ AllApply(<<>>, Body(r))
Gapless(r) == Later(r) = (Mark(r) + 1) .. (Mark(r) + Cardinality(Later(r)))
NoResult(r, invalid) == [batch |-> NoBatch, rec |-> [r EXCEPT !.invalid = @ \/ invalid]]
Result(r) == [batch |-> [events |-> Body(r) \o Incs(r), watermark |-> Mark(r) + Len(Incs(r))],
              rec |-> r]
Succeeds(r) ==
    /\ Framed(r) /\ Sealed(r) /\ Complete(r) /\ Uniform(r)
    /\ Verified(ApplyAll(<<>>, Body(r)), First(r).hash)
    /\ Gapless(r) /\ AllApply(ApplyAll(<<>>, Body(r)), Incs(r))

\* build() yields the batch if every one of its checks is passed.
LEMMA BuildIs ==
    ASSUME NEW r
    PROVE  \/ Build(r) = NoResult(r, FALSE)
           \/ Build(r) = NoResult(r, TRUE)
           \/ Build(r) = Result(r) /\ Succeeds(r)
<1>1. Build(r) =
        IF ~Framed(r) THEN NoResult(r, FALSE)
        ELSE IF ~Sealed(r) THEN NoResult(r, TRUE)
        ELSE IF ~Complete(r) \/ ~Uniform(r) THEN NoResult(r, FALSE)
        ELSE IF ~Verified(ApplyAll(<<>>, Body(r)), First(r).hash) THEN NoResult(r, TRUE)
        ELSE IF ~Gapless(r) \/ ~AllApply(ApplyAll(<<>>, Body(r)), Incs(r)) THEN NoResult(r, FALSE)
        ELSE Result(r)
  BY DEF Build, Framed, Sealed, Complete, Uniform, Gapless, NoResult, Result, Incs, Body, Later,
         Mark, Final, First, Count, Keys
<1> QED
  BY <1>1 DEF Succeeds

\* The exchange has published no more than there is, and summarised no more.
Bounds ==
    /\ stream \in Streams /\ published \in 0 .. Len(stream) /\ synced \in 0 .. published
    /\ cycles \in Nat

\* A complete snapshot has its frames numbered from 0 on.
LEMMA BuildKeys ==
    ASSUME Bounds, NEW r, RecOK(r), Succeeds(r)
    PROVE  /\ Count(r) \in Nat /\ Count(r) > 2 /\ Keys(r) = 0 .. Count(r) - 1
           /\ Mark(r) \in 0 .. synced /\ First(r).hash = BookAt(Mark(r))
           /\ First(r) \in Frames(r) /\ First(r).cycle = r.cycle /\ r.cycle \in Nat
<1>1. /\ IsFiniteSet(Keys(r))
      /\ \A k \in Keys(r) : k \in Nat /\ FrameOK(r.snap[k]) /\ r.snap[k].seq = k /\ r.snap[k].cycle = r.cycle
      /\ r.cycle \in Nat
  <2>1. r.cycle \in Nat
    BY DEF RecOK, Bounds
  <2> QED
    BY <2>1 DEF RecOK, Keys, FrameOK
<1>2. Count(r) \in Nat /\ Count(r) > 2 /\ 0 \in Keys(r)
  BY <1>1, FS_CardinalityType DEF Succeeds, Uniform, Framed, Count, Keys
<1>3. PICK k \in Keys(r) : (\A j \in Keys(r) : j <= k) /\ Final(r) = r.snap[k]
  <2>1. \E k \in Keys(r) : \A j \in Keys(r) : j <= k
    BY DEF Succeeds, Framed
  <2>2. PICK k : k = CHOOSE c \in Keys(r) : \A j \in Keys(r) : j <= c
    OBVIOUS
  <2>3. k \in Keys(r) /\ \A j \in Keys(r) : j <= k
    BY <2>1, <2>2
  <2>4. Final(r) = r.snap[k]
    BY <2>2 DEF Final
  <2> QED
    BY <2>3, <2>4
<1>4. k = Count(r) - 1
  BY <1>1, <1>3 DEF Succeeds, Complete
<1>5. Keys(r) \in SUBSET (0 .. Count(r) - 1)
  <2> SUFFICES ASSUME NEW j \in Keys(r) PROVE j \in 0 .. Count(r) - 1
    OBVIOUS
  <2>1. j \in Nat /\ j <= k
    BY <1>1, <1>3
  <2> QED
    BY <1>2, <1>4, <2>1
<1>6. IsFiniteSet(0 .. Count(r) - 1) /\ Cardinality(0 .. Count(r) - 1) = Count(r)
  BY <1>2, FS_Interval
<1>7. Cardinality(Keys(r)) = Count(r)
  BY DEF Count, Keys
<1>8. 0 .. Count(r) - 1 = Keys(r)
  BY <1>5, <1>6, <1>7, FS_Subset
<1>9. First(r) \in Frames(r)
  BY <1>2 DEF First, Frames, InCache, Keys
<1>10. FrameOK(First(r)) /\ First(r).cycle = r.cycle
  BY <1>1, <1>2 DEF First
<1> QED
  BY <1>1, <1>2, <1>8, <1>9, <1>10 DEF FrameOK, Mark

\* Its body makes the book that it was taken from, whatever happened to the frames.
LEMMA BuildBody ==
    ASSUME Bounds, NEW r, RecOK(r), Succeeds(r), NEW m, m = Count(r) - 2
    PROVE  /\ m \in Nat /\ m >= 1 /\ IsSeq(Body(r)) /\ Len(Body(r)) = m
           /\ Body(r)[1].type = "CLEAR"
           /\ \A i \in 1 .. m : Body(r)[i].type \in {"CLEAR", "ADD"}
           /\ \A i \in 1 .. m : Body(r)[i].type = "ADD" => Body(r)[i].id \in Orders
           /\ \E D : /\ D[m] = BookAt(Mark(r))
                     /\ \A i \in 1 .. m : /\ Applies(D[i - 1], Body(r)[i])
                                          /\ D[i] = Apply(D[i - 1], Body(r)[i])
<1>1. m \in Nat /\ m >= 1
  BY BuildKeys
<1>2. PICK t : t = Body(r)
  OBVIOUS
<1>3. t = [i \in 1 .. m |-> t[i]]
  BY <1>2 DEF Body
<1>4. IsSeq(t) /\ Len(t) = m
  BY <1>1, <1>3, SeqFunction
<1>5. /\ t[1].type = "CLEAR" /\ \A i \in 2 .. m : t[i].type = "ADD"
      /\ AllApply(<<>>, t) /\ ApplyAll(<<>>, t) = First(r).hash
  BY <1>2 DEF Succeeds, Uniform, Verified
<1>6. PICK T : t \in Seq(T)
  BY <1>4 DEF IsSeq
<1>7. PICK D : D = [i \in 0 .. m |-> ApplyAll(<<>>, SubSeq(t, 1, i))]
  OBVIOUS
<1>8. /\ \A k \in 0 .. m - 1 :
            ApplyAll(<<>>, SubSeq(t, 1, k + 1)) = Apply(ApplyAll(<<>>, SubSeq(t, 1, k)), t[k + 1])
      /\ SubSeq(t, 1, m) = t
  BY <1>4, <1>6, ApplyAllSteps
<1>9. ASSUME NEW i \in 1 .. m PROVE Applies(D[i - 1], t[i]) /\ D[i] = Apply(D[i - 1], t[i])
  <2>1. i \in 0 .. m /\ i - 1 \in 0 .. m - 1 /\ i - 1 \in 0 .. m /\ (i - 1) + 1 = i
    BY <1>1
  <2>2. Applies(ApplyAll(<<>>, SubSeq(t, 1, i - 1)), t[i])
    BY <1>4, <1>5 DEF AllApply
  <2>3. ApplyAll(<<>>, SubSeq(t, 1, i)) = Apply(ApplyAll(<<>>, SubSeq(t, 1, i - 1)), t[i])
    <3>1. PICK k \in 0 .. m - 1 : k = i - 1 /\ k + 1 = i
      BY <2>1
    <3>2. ApplyAll(<<>>, SubSeq(t, 1, k + 1)) = Apply(ApplyAll(<<>>, SubSeq(t, 1, k)), t[k + 1])
      BY <1>8
    <3> QED
      BY <3>1, <3>2
  <2> QED
    BY <1>7, <2>1, <2>2, <2>3
<1>10. D[m] = BookAt(Mark(r))
  <2>1. m \in 0 .. m
    BY <1>1
  <2>2. D[m] = ApplyAll(<<>>, t)
    BY <1>7, <1>8, <2>1
  <2> QED
    BY <1>5, <2>2, BuildKeys
<1>11. ASSUME NEW i \in 1 .. m, t[i].type = "ADD" PROVE t[i].id \in Orders
  <2> DEFINE S == {j \in Nat : j \in i .. m => t[i].id \in DOMAIN D[j]}
  <2>1. 0 \in S
    OBVIOUS
  <2>2. ASSUME NEW j \in Nat, j \in S PROVE j + 1 \in S
    <3>1. CASE j + 1 = i
      <4>1. DOMAIN Apply(D[i - 1], t[i]) = DOMAIN D[i - 1] \cup {t[i].id}
        BY <1>11, ApplyDomain
      <4>2. t[i].id \in DOMAIN D[i]
        BY <1>9, <4>1
      <4> QED
        BY <3>1, <4>2
    <3>2. CASE j + 1 \in i .. m /\ j + 1 # i
      <4>1. j \in i .. m /\ t[i].id \in DOMAIN D[j]
        BY <1>1, <2>2, <3>2
      <4>2. PICK k \in 2 .. m : k = j + 1 /\ k - 1 = j
        BY <1>1, <3>2, <4>1
      <4>3. t[k].type = "ADD" /\ D[k] = Apply(D[k - 1], t[k])
        <5>1. k \in 1 .. m
          BY <1>1, <4>2
        <5> QED
          BY <1>5, <1>9, <5>1
      <4>4. DOMAIN D[k] = DOMAIN D[k - 1] \cup {t[k].id}
        <5>1. DOMAIN Apply(D[k - 1], t[k]) = DOMAIN D[k - 1] \cup {t[k].id}
          BY <4>3, ApplyDomain
        <5> QED
          BY <4>3, <5>1
      <4>5. t[i].id \in DOMAIN D[k]
        BY <4>1, <4>2, <4>4
      <4> QED
        BY <4>2, <4>5
    <3>3. CASE j + 1 \notin i .. m
      BY <3>3
    <3> QED
      BY <3>1, <3>2, <3>3
  <2>3. Nat \subseteq S
    <3> HIDE DEF S
    <3> QED
      BY <2>1, <2>2, SetInduction
  <2>4. m \in S
    <3> HIDE DEF S
    <3> QED
      BY <1>1, <2>3
  <2>5. t[i].id \in DOMAIN BookAt(Mark(r))
    <3>1. m \in i .. m
      BY <1>1
    <3> QED
      BY <1>10, <2>4, <3>1
  <2>6. Mark(r) \in 0 .. Len(stream) /\ stream \in Streams
    BY BuildKeys, StreamFacts DEF Bounds
  <2> QED
    BY <2>5, <2>6, StreamBooks
<1>12. \A i \in 1 .. m : t[i].type \in {"CLEAR", "ADD"}
  BY <1>1, <1>5
<1> QED
  BY <1>1, <1>2, <1>4, <1>5, <1>9, <1>10, <1>11, <1>12

\* The cached incrementals that follow it are the next updates of the stream.
LEMMA BuildIncs ==
    ASSUME Bounds, NEW r, RecOK(r), Succeeds(r)
    PROVE  /\ IsSeq(Incs(r)) /\ Len(Incs(r)) \in Nat
           /\ Mark(r) + Len(Incs(r)) \in 0 .. published
           /\ \A i \in 1 .. Len(Incs(r)) : Incs(r)[i] = stream[Mark(r) + i]
           /\ \A b \in Nat : Reaches(r, b) => Mark(r) + Len(Incs(r)) >= b
<1>1. PICK w : w = Mark(r)
  OBVIOUS
<1>2. PICK c : c = Cardinality(Later(r))
  OBVIOUS
<1>3. /\ w \in 0 .. synced /\ w \in Nat /\ published \in Nat /\ synced \in 0 .. published
      /\ w \in 0 .. published
  BY <1>1, BuildKeys, StreamFacts DEF Bounds
<1>4. IsFiniteSet(Later(r)) /\ Later(r) \subseteq DOMAIN r.inc /\ DOMAIN r.inc \subseteq 1 .. published
  <2>1. Later(r) \in SUBSET DOMAIN r.inc /\ IsFiniteSet(DOMAIN r.inc)
    BY DEF Later, RecOK
  <2> QED
    BY <2>1, FS_Subset DEF RecOK
<1>5. c \in Nat /\ Later(r) = (w + 1) .. (w + c)
  BY <1>1, <1>2, <1>4, FS_CardinalityType DEF Succeeds, Gapless
<1>6. PICK t : t = Incs(r)
  OBVIOUS
<1>7. t = [i \in 1 .. c |-> r.inc[w + i]]
  BY <1>1, <1>2, <1>6 DEF Incs
<1>8. IsSeq(t) /\ Len(t) = c
  BY <1>5, <1>7, SeqFunction
<1>9. ASSUME NEW i \in 1 .. c PROVE t[i] = stream[w + i]
  <2>1. w + i \in Later(r)
    BY <1>3, <1>5
  <2>2. w + i \in DOMAIN r.inc
    BY <1>4, <2>1
  <2> QED
    BY <1>7, <2>2 DEF RecOK
<1>10. w + c \in 0 .. published
  <2>1. CASE c = 0
    BY <1>3, <2>1
  <2>2. CASE c # 0
    <3>1. w + c \in Later(r)
      BY <1>3, <1>5, <2>2
    <3> QED
      BY <1>3, <1>4, <3>1
  <2> QED
    BY <2>1, <2>2
<1>11. ASSUME NEW b \in Nat, Reaches(r, b) PROVE w + c >= b
  <2>1. CASE b = 0
    BY <1>3, <1>5, <2>1
  <2>2. CASE \E s \in DOMAIN r.inc : s >= b
    <3>1. PICK s \in DOMAIN r.inc : s >= b
      BY <2>2
    <3>2. s \in Nat
      BY <1>4
    <3>3. s > w => s \in Later(r)
      BY <1>1 DEF Later
    <3> QED
      BY <1>3, <1>5, <3>1, <3>2, <3>3
  <2>3. CASE b <= synced /\ \A f \in Frames(r) : f.cycle >= r.cycle => f.watermark >= b
    <3>1. First(r) \in Frames(r) /\ First(r).cycle >= r.cycle
      BY BuildKeys
    <3>2. w >= b
      BY <1>1, <2>3, <3>1 DEF Mark
    <3> QED
      BY <1>3, <1>5, <3>2
  <2> QED
    BY <1>11, <2>1, <2>2, <2>3 DEF Reaches
<1> QED
  BY <1>1, <1>3, <1>5, <1>6, <1>8, <1>9, <1>10, <1>11

\* A batch is a true book with the updates that follow it, and its marker.
LEMMA BuildBatch ==
    ASSUME Bounds, NEW r, RecOK(r), Succeeds(r), NEW o, NEW x,
           x = Mark(r) + Len(Incs(r))
    PROVE  BatchOK(Append(Body(r) \o Incs(r), Event("COMMIT", x, o)), x, o)
<1>1. PICK m : m = Count(r) - 2
  OBVIOUS
<1>2. PICK t : t = Body(r)
  OBVIOUS
<1>3. /\ m \in Nat /\ m >= 1 /\ IsSeq(t) /\ Len(t) = m
      /\ t[1].type = "CLEAR"
      /\ \A i \in 1 .. m : t[i].type \in {"CLEAR", "ADD"}
      /\ \A i \in 1 .. m : t[i].type = "ADD" => t[i].id \in Orders
  BY <1>1, <1>2, BuildBody
<1>4. PICK D : /\ D[m] = BookAt(Mark(r))
               /\ \A i \in 1 .. m : Applies(D[i - 1], t[i]) /\ D[i] = Apply(D[i - 1], t[i])
  BY <1>1, <1>2, BuildBody
<1>5. PICK u : u = Incs(r)
  OBVIOUS
<1>6. PICK w : w = Mark(r)
  OBVIOUS
<1>7. PICK c : c = Len(u)
  OBVIOUS
<1>8. /\ IsSeq(u) /\ c \in Nat /\ x = w + c /\ x \in 0 .. published
      /\ \A i \in 1 .. c : u[i] = stream[w + i]
      /\ w \in Nat
  <2>1. w \in Nat
    BY <1>6, BuildKeys DEF Bounds
  <2> QED
    BY <1>5, <1>6, <1>7, <2>1, BuildIncs
<1>9. PICK v : v = t \o u
  OBVIOUS
<1>10. /\ IsSeq(v) /\ Len(v) = m + c
       /\ \A i \in 1 .. m : v[i] = t[i]
       /\ \A i \in 1 .. c : v[m + i] = u[i]
  <2>1. IsSeq(t) /\ IsSeq(u)
    BY <1>3, <1>8
  <2>2. /\ IsSeq(v) /\ Len(v) = Len(t) + Len(u)
        /\ \A i \in 1 .. Len(t) : v[i] = t[i]
        /\ \A i \in 1 .. Len(u) : v[Len(t) + i] = u[i]
    <3>1. Joins(t \o u, t, u)
      BY <2>1, SeqConcat
    <3> QED
      BY <1>9, <3>1 DEF Joins
  <2> QED
    BY <1>3, <1>7, <2>2
<1>11. PICK es : es = Append(v, Event("COMMIT", x, o))
  OBVIOUS
<1>12. /\ IsSeq(es) /\ Len(es) = m + c + 1
       /\ \A i \in 1 .. m + c : es[i] = v[i]
       /\ es[m + c + 1] = Event("COMMIT", x, o)
  BY <1>10, <1>11, SeqAppend
<1>13. ASSUME NEW i \in 1 .. c
       PROVE  /\ es[m + i] = stream[w + i] /\ stream[w + i].type \in UpdateTypes
              /\ stream[w + i].id \in Orders
              /\ Applies(BookAt(w + (i - 1)), es[m + i])
              /\ BookAt(w + i) = Apply(BookAt(w + (i - 1)), es[m + i])
  <2>1. es[m + i] = stream[w + i]
    <3>1. m + i \in 1 .. m + c
      BY <1>3, <1>8
    <3> QED
      BY <1>8, <1>10, <1>12, <3>1
  <2>2. PICK k \in 0 .. Len(stream) - 1 : k = w + (i - 1) /\ k + 1 = w + i
    <3>1. w + (i - 1) \in 0 .. Len(stream) - 1
      BY <1>8, StreamFacts DEF Bounds
    <3> QED
      BY <1>8, <3>1
  <2>3. k + 1 \in 1 .. Len(stream) /\ stream \in Streams
    BY <2>2, StreamFacts DEF Bounds
  <2>4. Applies(BookAt(k), stream[k + 1]) /\ BookAt(k + 1) = Apply(BookAt(k), stream[k + 1])
    BY <2>3, StreamFacts
  <2>5. stream[k + 1].type \in UpdateTypes /\ stream[k + 1].id \in Orders
    BY <2>3, StreamFacts
  <2> QED
    BY <2>1, <2>2, <2>4, <2>5
<1>14. PICK C : C = [i \in 0 .. m + c |-> IF i <= m THEN D[i] ELSE BookAt(w + (i - m))]
  OBVIOUS
<1>15. \A i \in 0 .. c : C[m + i] = BookAt(w + i)
  <2> SUFFICES ASSUME NEW i \in 0 .. c PROVE C[m + i] = BookAt(w + i)
    OBVIOUS
  <2>1. m + i \in 0 .. m + c /\ (m + i) - m = i
    BY <1>3, <1>8
  <2>2. CASE i = 0
    <3>1. m + i = m /\ w + i = w
      BY <1>3, <1>8, <2>2
    <3> QED
      BY <1>3, <1>4, <1>6, <1>14, <2>1, <3>1
  <2>3. CASE i # 0
    <3>1. ~(m + i <= m)
      BY <1>3, <2>3
    <3> QED
      BY <1>14, <2>1, <3>1
  <2> QED
    BY <2>2, <2>3
<1>16. ASSUME NEW i \in 0 .. m PROVE C[i] = D[i]
  <2>1. i \in 0 .. m + c /\ i <= m
    BY <1>3, <1>8
  <2> QED
    BY <1>14, <2>1
<1>17. ASSUME NEW i \in 1 .. m + c
       PROVE  /\ Applies(C[i - 1], es[i]) /\ C[i] = Apply(C[i - 1], es[i])
              /\ es[i].type # "COMMIT" /\ (es[i].type = "ADD" => es[i].id \in Orders)
  <2>1. CASE i <= m
    <3>1. i \in 1 .. m /\ i \in 0 .. m /\ i - 1 \in 0 .. m
      BY <1>3, <2>1
    <3>2. es[i] = t[i] /\ C[i - 1] = D[i - 1] /\ C[i] = D[i]
      BY <1>10, <1>12, <1>16, <3>1
    <3> QED
      BY <1>3, <1>4, <3>1, <3>2
  <2>2. CASE ~(i <= m)
    <3>1. PICK k \in 1 .. c : i = m + k
      <4>1. i - m \in 1 .. c /\ i = m + (i - m)
        BY <1>3, <1>8, <2>2
      <4> QED
        BY <4>1
    <3>2. k \in 0 .. c /\ k - 1 \in 0 .. c /\ m + (k - 1) = i - 1
      BY <1>3, <1>8, <3>1
    <3>3. C[i] = BookAt(w + k) /\ C[i - 1] = BookAt(w + (k - 1))
      BY <1>15, <3>1, <3>2
    <3> QED
      BY <1>13, <3>1, <3>3 DEF UpdateTypes
  <2> QED
    BY <2>1, <2>2
<1>18. m + c \in Nat /\ Len(es) - 1 = m + c /\ Len(es) > 1
  BY <1>3, <1>8, <1>12
<1>19. C[m + c] = BookAt(x)
  BY <1>8, <1>15
<1>20. BatchBooks(C, es, x)
  BY <1>17, <1>18, <1>19 DEF BatchBooks
<1>21. es[1].type = "CLEAR"
  <2>1. 1 \in 1 .. m /\ 1 \in 1 .. m + c
    BY <1>3, <1>8
  <2> QED
    BY <1>3, <1>10, <1>12, <2>1
<1>22. BatchOK(es, x, o)
  BY <1>8, <1>12, <1>17, <1>18, <1>20, <1>21 DEF BatchOK
<1> QED
  BY <1>2, <1>5, <1>9, <1>11, <1>22
-------------------------------------------------------------------------------
(* What ingest(), restart() and commit() do to the caches.                   *)

\* h is the cache f with v at x.
Extends(h, f, x, v) ==
    /\ DOMAIN h = DOMAIN f \cup {x} /\ h[x] = v
    /\ \A y \in DOMAIN f : y # x => h[y] = f[y]
    /\ IsFiniteSet(DOMAIN h)
    /\ Cardinality(DOMAIN f) \in Nat /\ Cardinality(DOMAIN h) \in Nat
    /\ Cardinality(DOMAIN h) <= Cardinality(DOMAIN f) + 1

LEMMA WithFacts ==
    ASSUME NEW f, IsFiniteSet(DOMAIN f), NEW x, NEW v
    PROVE  Extends(With(f, x, v), f, x, v)
<1>0. PICK h : h = With(f, x, v)
  OBVIOUS
<1>1. h = [y \in DOMAIN f \cup {x} |-> IF y = x THEN v ELSE f[y]]
  BY <1>0 DEF With
<1>2. DOMAIN h = DOMAIN f \cup {x}
  BY <1>1
<1>3. /\ IsFiniteSet(DOMAIN f \cup {x}) /\ Cardinality(DOMAIN f) \in Nat
      /\ Cardinality(DOMAIN f \cup {x}) \in Nat
      /\ Cardinality(DOMAIN f \cup {x}) = IF x \in DOMAIN f THEN Cardinality(DOMAIN f)
                                          ELSE Cardinality(DOMAIN f) + 1
  BY FS_AddElement, FS_CardinalityType
<1>4. Cardinality(DOMAIN f \cup {x}) <= Cardinality(DOMAIN f) + 1
  BY <1>3
<1> QED
  BY <1>0, <1>1, <1>2, <1>3, <1>4 DEF Extends

\* An empty cache.
LEMMA EmptyCache ==
    DOMAIN <<>> = {} /\ IsFiniteSet(DOMAIN <<>>) /\ Cardinality(DOMAIN <<>>) = 0
<1>1. DOMAIN <<>> = {}
  OBVIOUS
<1> QED
  BY <1>1, FS_EmptySet

\* The fields that restart() leaves alone.
IsRec(r) ==
    /\ r = [recovering |-> r.recovering, invalid |-> r.invalid, cycle |-> r.cycle,
            expected |-> r.expected, snap |-> r.snap, inc |-> r.inc]
    /\ r.cycle \in 0 .. cycles /\ r.expected \in 1 .. published + 1

LEMMA RestartOK ==
    ASSUME NEW r, IsRec(r), NEW q, q = Restart(r)
    PROVE  /\ RecOK(q) /\ q.recovering = TRUE /\ q.invalid = TRUE /\ q.expected = r.expected
           /\ q.cycle = r.cycle /\ DOMAIN q.snap = {} /\ DOMAIN q.inc = {} /\ Cached(q) = 0
<1>1. /\ q = [recovering |-> TRUE, invalid |-> TRUE, cycle |-> r.cycle, expected |-> r.expected,
              snap |-> <<>>, inc |-> <<>>]
  BY DEF Restart, IsRec
<1>2. /\ q.recovering = TRUE /\ q.invalid = TRUE /\ q.expected = r.expected
      /\ q.cycle = r.cycle /\ q.snap = <<>> /\ q.inc = <<>>
      /\ DOMAIN q.snap = {} /\ DOMAIN q.inc = {}
      /\ IsFiniteSet(DOMAIN q.snap) /\ IsFiniteSet(DOMAIN q.inc)
  BY <1>1, EmptyCache
<1>3. Cached(q) = 0
  BY <1>2, EmptyCache DEF Cached
<1>4. CacheLimit \in Nat
  BY MarketDataAssumption
<1>5. /\ q = [recovering |-> q.recovering, invalid |-> q.invalid, cycle |-> q.cycle,
              expected |-> q.expected, snap |-> q.snap, inc |-> q.inc]
  BY <1>1, <1>2
<1>6. q.cycle \in 0 .. cycles /\ q.expected \in 1 .. published + 1
  BY <1>2 DEF IsRec
<1>7. RecOK(q)
  <2>1. DOMAIN q.inc \subseteq 1 .. published /\ Cached(q) <= CacheLimit
    BY <1>2, <1>3, <1>4
  <2>2. \A t \in DOMAIN q.inc : q.inc[t] = stream[t]
    BY <1>2
  <2>3. \A k \in DOMAIN q.snap :
           FrameOK(q.snap[k]) /\ q.snap[k].seq = k /\ q.snap[k].cycle = q.cycle
    BY <1>2
  <2>4. q.recovering \in BOOLEAN /\ q.invalid \in BOOLEAN
    BY <1>2
  <2> QED
    BY <1>2, <1>5, <1>6, <2>1, <2>2, <2>3, <2>4 DEF RecOK
<1> QED
  BY <1>2, <1>3, <1>7

\* commit() leaves a live consumer that expects the update after the watermark.
LEMMA CommitOK ==
    ASSUME Bounds, NEW r, RecOK(r), NEW w \in 0 .. published, NEW q, q = Commit(r, w)
    PROVE  /\ RecOK(q) /\ q.recovering = FALSE /\ q.expected = w + 1
           /\ DOMAIN q.snap = {} /\ DOMAIN q.inc = {}
<1>1. /\ q = [recovering |-> FALSE, invalid |-> r.invalid, cycle |-> r.cycle, expected |-> w + 1,
              snap |-> <<>>, inc |-> <<>>]
  BY DEF Commit, RecOK
<1>2. /\ q.recovering = FALSE /\ q.invalid = r.invalid /\ q.expected = w + 1
      /\ q.cycle = r.cycle /\ q.snap = <<>> /\ q.inc = <<>>
      /\ DOMAIN q.snap = {} /\ DOMAIN q.inc = {}
      /\ IsFiniteSet(DOMAIN q.snap) /\ IsFiniteSet(DOMAIN q.inc)
  BY <1>1, EmptyCache
<1>3. Cached(q) = 0
  BY <1>2, EmptyCache DEF Cached
<1>4. CacheLimit \in Nat
  BY MarketDataAssumption
<1>5. /\ q = [recovering |-> q.recovering, invalid |-> q.invalid, cycle |-> q.cycle,
              expected |-> q.expected, snap |-> q.snap, inc |-> q.inc]
  BY <1>1, <1>2
<1>6. q.cycle \in 0 .. cycles /\ q.expected \in 1 .. published + 1
  <2>1. q.cycle \in 0 .. cycles
    BY <1>2 DEF RecOK
  <2>2. published \in Nat
    BY StreamFacts DEF Bounds
  <2> QED
    BY <1>2, <2>1, <2>2
<1>7. q.invalid \in BOOLEAN
  BY <1>2 DEF RecOK
<1>8. RecOK(q)
  <2>1. DOMAIN q.inc \subseteq 1 .. published /\ Cached(q) <= CacheLimit
    BY <1>2, <1>3, <1>4
  <2>2. \A t \in DOMAIN q.inc : q.inc[t] = stream[t]
    BY <1>2
  <2>3. \A k \in DOMAIN q.snap :
           FrameOK(q.snap[k]) /\ q.snap[k].seq = k /\ q.snap[k].cycle = q.cycle
    BY <1>2
  <2> QED
    BY <1>2, <1>5, <1>6, <1>7, <2>1, <2>2, <2>3 DEF RecOK
<1> QED
  BY <1>2, <1>8

\* A change of the flag invalid_ alone.
LEMMA FlagOK ==
    ASSUME NEW r, RecOK(r), NEW p \in BOOLEAN, NEW q, q = [r EXCEPT !.invalid = p]
    PROVE  /\ RecOK(q) /\ q.recovering = r.recovering /\ q.expected = r.expected
           /\ q.cycle = r.cycle /\ q.snap = r.snap /\ q.inc = r.inc /\ q.invalid = p
           /\ Cached(q) = Cached(r)
<1>1. /\ q = [recovering |-> r.recovering, invalid |-> p, cycle |-> r.cycle,
              expected |-> r.expected, snap |-> r.snap, inc |-> r.inc]
  BY DEF RecOK
<1>2. /\ q.recovering = r.recovering /\ q.expected = r.expected
      /\ q.cycle = r.cycle /\ q.snap = r.snap /\ q.inc = r.inc /\ q.invalid = p
  BY <1>1
<1>3. Cached(q) = Cached(r)
  BY <1>2 DEF Cached
<1>4. /\ q = [recovering |-> q.recovering, invalid |-> q.invalid, cycle |-> q.cycle,
              expected |-> q.expected, snap |-> q.snap, inc |-> q.inc]
  BY <1>1, <1>2
<1>5. RecOK(q)
  BY <1>2, <1>3, <1>4 DEF RecOK
<1> QED
  BY <1>2, <1>3, <1>5

\* What a step of ingest() keeps: nothing is invented, and what a batch must reach
\* stays, unless the cache overflows.
Ingested(r, q) ==
    /\ RecOK(q) /\ q.recovering = TRUE /\ q.expected = r.expected
    /\ Frames(q) \subseteq Frames(r)
    /\ \/ \A b \in Nat : Reaches(r, b) => Reaches(q, b)
       \/ Cached(r) = CacheLimit /\ Cached(q) = 0 /\ q.invalid = TRUE

\* An overflow of the cache by one entry.
LEMMA Overflow ==
    ASSUME NEW r, RecOK(r), NEW p, IsRec(p), p.expected = r.expected,
           Cached(p) \in Nat, Cached(p) > CacheLimit, Cached(p) <= Cached(r) + 1
    PROVE  Ingested(r, Restart(p))
<1>1. PICK q : q = Restart(p)
  OBVIOUS
<1>2. /\ RecOK(q) /\ q.recovering = TRUE /\ q.invalid = TRUE /\ q.expected = p.expected
      /\ DOMAIN q.snap = {} /\ Cached(q) = 0
  BY <1>1, RestartOK
<1>3. Frames(q) \subseteq Frames(r)
  BY <1>2 DEF Frames, InCache
<1>4. Cached(r) = CacheLimit
  <2>1. CacheLimit \in Nat
    BY MarketDataAssumption
  <2>2. Cached(r) \in Nat /\ Cached(r) <= CacheLimit
    BY FS_CardinalityType DEF RecOK, Cached
  <2> QED
    BY <2>1, <2>2
<1> QED
  BY <1>1, <1>2, <1>3, <1>4 DEF Ingested

LEMMA IngestIncrementalOK ==
    ASSUME Bounds, NEW r, RecOK(r), r.recovering, NEW s \in 1 .. published, NEW q,
           q = IngestIncremental(r, s, stream[s])
    PROVE  /\ Ingested(r, q)
           /\ \/ Cached(r) >= CacheLimit
              \/ s \in DOMAIN q.inc /\ q.invalid = r.invalid
<1>1. ~(s \in DOMAIN r.inc /\ r.inc[s] # stream[s])
  BY DEF RecOK
<1>2. PICK p : p = [r EXCEPT !.inc = With(@, s, stream[s])]
  OBVIOUS
<1>3. q = IF Cached(p) > CacheLimit THEN Restart(p) ELSE p
  BY <1>1, <1>2 DEF IngestIncremental, Limit
<1>4. /\ p = [recovering |-> r.recovering, invalid |-> r.invalid, cycle |-> r.cycle,
              expected |-> r.expected, snap |-> r.snap, inc |-> With(r.inc, s, stream[s])]
  BY <1>2 DEF RecOK
<1>5. /\ p.recovering = r.recovering /\ p.invalid = r.invalid /\ p.cycle = r.cycle
      /\ p.expected = r.expected /\ p.snap = r.snap /\ p.inc = With(r.inc, s, stream[s])
  BY <1>4
<1>6. IsFiniteSet(DOMAIN r.inc) /\ IsFiniteSet(DOMAIN r.snap)
  BY DEF RecOK
<1>7. /\ DOMAIN p.inc = DOMAIN r.inc \cup {s} /\ p.inc[s] = stream[s]
      /\ \A y \in DOMAIN r.inc : y # s => p.inc[y] = r.inc[y]
      /\ IsFiniteSet(DOMAIN p.inc)
      /\ Cardinality(DOMAIN r.inc) \in Nat /\ Cardinality(DOMAIN p.inc) \in Nat
      /\ Cardinality(DOMAIN p.inc) <= Cardinality(DOMAIN r.inc) + 1
  <2>1. Extends(With(r.inc, s, stream[s]), r.inc, s, stream[s])
    BY <1>6, WithFacts
  <2> QED
    BY <1>5, <2>1 DEF Extends
<1>8. /\ p = [recovering |-> p.recovering, invalid |-> p.invalid, cycle |-> p.cycle,
              expected |-> p.expected, snap |-> p.snap, inc |-> p.inc]
  BY <1>4, <1>5
<1>9. IsRec(p)
  BY <1>5, <1>8 DEF IsRec, RecOK
<1>10. /\ Cached(p) \in Nat /\ Cached(r) \in Nat /\ CacheLimit \in Nat
       /\ Cached(p) <= Cached(r) + 1 /\ Cached(r) <= CacheLimit
  <2>1. Cardinality(DOMAIN r.snap) \in Nat
    BY <1>6, FS_CardinalityType
  <2> QED
    BY <1>5, <1>7, <2>1, MarketDataAssumption DEF Cached, RecOK
<1>11. CASE Cached(p) > CacheLimit
  <2>1. Ingested(r, Restart(p))
    BY <1>5, <1>9, <1>10, <1>11, Overflow
  <2>2. q = Restart(p) /\ Cached(r) >= CacheLimit
    BY <1>3, <1>10, <1>11
  <2> QED
    BY <2>1, <2>2
<1>12. CASE ~(Cached(p) > CacheLimit)
  <2>1. q = p
    BY <1>3, <1>12
  <2>2. RecOK(p)
    <3>1. DOMAIN p.inc \subseteq 1 .. published /\ Cached(p) <= CacheLimit
      BY <1>7, <1>10, <1>12 DEF RecOK
    <3>2. \A t \in DOMAIN p.inc : p.inc[t] = stream[t]
      BY <1>7 DEF RecOK
    <3> QED
      BY <1>5, <1>6, <1>7, <1>8, <3>1, <3>2 DEF RecOK
  <2>3. Frames(p) = Frames(r)
    BY <1>5 DEF Frames, InCache
  <2>4. ASSUME NEW b \in Nat, Reaches(r, b) PROVE Reaches(p, b)
    BY <1>5, <1>7, <2>3, <2>4 DEF Reaches
  <2>5. p.recovering = TRUE
    BY <1>5 DEF RecOK
  <2> QED
    BY <1>5, <1>7, <2>1, <2>2, <2>3, <2>4, <2>5 DEF Ingested
<1> QED
  BY <1>11, <1>12

\* Frames of the snapshot in hand, or of a newer one.
LEMMA IngestSnapshotOK ==
    ASSUME Bounds, NEW r, RecOK(r), r.recovering, Ascending(r), \A g \in InNet : FrameOK(g),
           NEW f \in InNet, NEW q,
           q = IngestSnapshot(r, f)
    PROVE  Ingested(r, q)
<1>1. PICK d : d = IF f.cycle > r.cycle THEN 0 .. f.watermark ELSE {}
  OBVIOUS
<1>2. PICK p : p = IF f.cycle > r.cycle
                   THEN [r EXCEPT !.cycle = f.cycle, !.snap = <<>>, !.invalid = FALSE,
                                  !.inc = Without(@, 0 .. f.watermark)]
                   ELSE r
  OBVIOUS
<1>3. q = IF f.cycle < r.cycle THEN r
          ELSE IF p.invalid THEN p
          ELSE IF f.seq \notin DOMAIN p.snap
          THEN Limit([p EXCEPT !.snap = With(@, f.seq, f)])
          ELSE IF p.snap[f.seq] = f THEN p
          ELSE [p EXCEPT !.invalid = TRUE, !.snap = <<>>]
  BY <1>2 DEF IngestSnapshot
<1>4. /\ f.cycle \in 1 .. cycles /\ r.cycle \in 0 .. cycles /\ cycles \in Nat /\ f.seq \in Nat
      /\ f.watermark \in 0 .. synced /\ synced \in Nat /\ f.cycle \in Nat /\ r.cycle \in Nat
  BY StreamFacts DEF FrameOK, RecOK, Bounds
<1>5. /\ IsFiniteSet(DOMAIN r.snap) /\ IsFiniteSet(DOMAIN r.inc)
      /\ Cardinality(DOMAIN r.snap) \in Nat /\ Cardinality(DOMAIN r.inc) \in Nat
      /\ Cached(r) = Cardinality(DOMAIN r.snap) + Cardinality(DOMAIN r.inc)
      /\ Cached(r) <= CacheLimit /\ CacheLimit \in Nat
  BY FS_CardinalityType, MarketDataAssumption DEF RecOK, Cached
<1>6. Ingested(r, r)
  BY DEF Ingested, RecOK
<1>7. CASE f.cycle < r.cycle
  BY <1>3, <1>6, <1>7
<1>8. CASE ~(f.cycle < r.cycle)
  \* p : the frames of the cycle of f, and the incrementals after its watermark.
  <2>1. /\ RecOK(p) /\ p.recovering = TRUE /\ p.expected = r.expected /\ p.cycle = f.cycle
        /\ Frames(p) \subseteq Frames(r) /\ Cached(p) <= Cached(r)
        /\ \A b \in Nat : Reaches(r, b) => Reaches(p, b)
    <3>1. CASE f.cycle > r.cycle
      <4>1. p = [recovering |-> r.recovering, invalid |-> FALSE, cycle |-> f.cycle,
                 expected |-> r.expected, snap |-> <<>>, inc |-> Without(r.inc, 0 .. f.watermark)]
        BY <1>2, <3>1 DEF RecOK
      <4>2. /\ p.recovering = r.recovering /\ p.invalid = FALSE /\ p.cycle = f.cycle
            /\ p.expected = r.expected /\ p.snap = <<>> /\ p.inc = Without(r.inc, 0 .. f.watermark)
        BY <4>1
      <4>3. /\ DOMAIN p.inc = DOMAIN r.inc \ (0 .. f.watermark)
            /\ \A y \in DOMAIN p.inc : p.inc[y] = r.inc[y]
        BY <4>2 DEF Without
      <4>4. /\ IsFiniteSet(DOMAIN p.inc) /\ Cardinality(DOMAIN p.inc) \in Nat
            /\ Cardinality(DOMAIN p.inc) <= Cardinality(DOMAIN r.inc)
        <5>1. DOMAIN p.inc \in SUBSET DOMAIN r.inc
          BY <4>3
        <5>2. IsFiniteSet(DOMAIN p.inc) /\ Cardinality(DOMAIN p.inc) <= Cardinality(DOMAIN r.inc)
          BY <1>5, <5>1, FS_Subset
        <5> QED
          BY <5>2, FS_CardinalityType
      <4>5. Cached(p) <= Cached(r)
        <5>1. Cardinality(DOMAIN p.snap) = 0
          BY <4>2, EmptyCache
        <5>2. Cached(p) = Cardinality(DOMAIN p.inc)
          BY <4>4, <5>1 DEF Cached
        <5> QED
          BY <1>5, <4>4, <5>2
      <4>6. RecOK(p)
        <5>1. DOMAIN p.snap = {} /\ IsFiniteSet(DOMAIN p.snap)
          BY <4>2, EmptyCache
        <5>2. p = [recovering |-> p.recovering, invalid |-> p.invalid, cycle |-> p.cycle,
                   expected |-> p.expected, snap |-> p.snap, inc |-> p.inc]
          BY <4>1, <4>2
        <5>3. DOMAIN p.inc \subseteq 1 .. published /\ \A s \in DOMAIN p.inc : p.inc[s] = stream[s]
          BY <4>3 DEF RecOK
        <5>4. \A k \in DOMAIN p.snap :
                 FrameOK(p.snap[k]) /\ p.snap[k].seq = k /\ p.snap[k].cycle = p.cycle
          BY <5>1
        <5>5. Cached(p) <= CacheLimit /\ p.cycle \in 0 .. cycles
          <6>1. Cached(p) \in Nat
            BY <4>4, <5>1, FS_CardinalityType DEF Cached
          <6> QED
            BY <1>4, <1>5, <4>2, <4>5, <6>1
        <5>6. /\ p.recovering \in BOOLEAN /\ p.invalid \in BOOLEAN
              /\ p.expected \in 1 .. published + 1
          BY <4>2 DEF RecOK
        <5> QED
          BY <4>4, <5>1, <5>2, <5>3, <5>4, <5>5, <5>6 DEF RecOK
      <4>7. Frames(p) \subseteq Frames(r) /\ Frames(p) = InNet
        <5>1. InCache(p) = {}
          BY <4>2, EmptyCache DEF InCache
        <5> QED
          BY <5>1 DEF Frames
      <4>8. ASSUME NEW b \in Nat, Reaches(r, b) PROVE Reaches(p, b)
        <5>1. CASE b = 0
          BY <5>1 DEF Reaches
        <5>2. CASE \E s \in DOMAIN r.inc : s >= b
          <6>1. PICK s \in DOMAIN r.inc : s >= b
            BY <5>2
          <6>2. CASE s \in DOMAIN p.inc
            BY <6>1, <6>2 DEF Reaches
          <6>3. CASE s \notin DOMAIN p.inc
            <7>1. s <= f.watermark
              BY <1>4, <4>3, <6>3
            <7>2. s \in Nat
              BY DEF RecOK
            <7>3. b <= f.watermark /\ b <= synced
              BY <1>4, <6>1, <7>1, <7>2
            <7>4. ASSUME NEW g \in Frames(p), g.cycle >= p.cycle PROVE g.watermark >= b
              <8>1. f \in Frames(r) /\ g \in Frames(r) /\ g \in InNet
                BY <4>7 DEF Frames
              <8>2. f.watermark <= g.watermark
                <9>1. g.cycle \in Nat
                  BY <1>4, <8>1 DEF FrameOK
                <9>2. f.cycle <= g.cycle
                  BY <1>4, <4>2, <7>4, <9>1
                <9> QED
                  BY <8>1, <9>2 DEF Ascending
              <8>3. g.watermark \in Nat
                BY <1>4, <8>1 DEF FrameOK
              <8> QED
                BY <1>4, <7>3, <8>2, <8>3
            <7> QED
              BY <7>3, <7>4 DEF Reaches
          <6> QED
            BY <6>2, <6>3
        <5>3. CASE b <= synced /\ \A g \in Frames(r) : g.cycle >= r.cycle => g.watermark >= b
          <6>1. ASSUME NEW g \in Frames(p), g.cycle >= p.cycle PROVE g.watermark >= b
            <7>1. g \in Frames(r) /\ g.cycle \in Nat
              BY <1>4, <4>7 DEF FrameOK
            <7>2. g.cycle >= r.cycle
              BY <1>4, <3>1, <4>2, <6>1, <7>1
            <7> QED
              BY <5>3, <7>1, <7>2
          <6> QED
            BY <5>3, <6>1 DEF Reaches
        <5> QED
          BY <4>8, <5>1, <5>2, <5>3 DEF Reaches
      <4>9. p.recovering = TRUE
        BY <4>2 DEF RecOK
      <4> QED
        BY <4>2, <4>5, <4>6, <4>7, <4>8, <4>9
    <3>2. CASE ~(f.cycle > r.cycle)
      <4>1. p = r /\ r.cycle = f.cycle
        BY <1>2, <1>4, <1>8, <3>2
      <4>2. Cached(r) <= Cached(r) /\ r.recovering = TRUE
        BY <1>5 DEF RecOK
      <4> QED
        BY <4>1, <4>2
    <3> QED
      BY <3>1, <3>2
  <2>2. Ingested(r, p)
    BY <2>1 DEF Ingested
  <2>3. CASE ~p.invalid /\ f.seq \notin DOMAIN p.snap
    <3>1. PICK g : g = [p EXCEPT !.snap = With(@, f.seq, f)]
      OBVIOUS
    <3>2. q = IF Cached(g) > CacheLimit THEN Restart(g) ELSE g
      BY <1>3, <1>8, <2>3, <3>1 DEF Limit
    <3>3. g = [recovering |-> p.recovering, invalid |-> p.invalid, cycle |-> p.cycle,
               expected |-> p.expected, snap |-> With(p.snap, f.seq, f), inc |-> p.inc]
      BY <2>1, <3>1 DEF RecOK
    <3>4. /\ g.recovering = p.recovering /\ g.invalid = p.invalid /\ g.cycle = p.cycle
          /\ g.expected = p.expected /\ g.snap = With(p.snap, f.seq, f) /\ g.inc = p.inc
      BY <3>3
    <3>5. /\ IsFiniteSet(DOMAIN p.snap) /\ IsFiniteSet(DOMAIN p.inc)
          /\ Cardinality(DOMAIN p.inc) \in Nat
      BY <2>1, FS_CardinalityType DEF RecOK
    <3>6. /\ DOMAIN g.snap = DOMAIN p.snap \cup {f.seq} /\ g.snap[f.seq] = f
          /\ \A y \in DOMAIN p.snap : y # f.seq => g.snap[y] = p.snap[y]
          /\ IsFiniteSet(DOMAIN g.snap)
          /\ Cardinality(DOMAIN p.snap) \in Nat /\ Cardinality(DOMAIN g.snap) \in Nat
          /\ Cardinality(DOMAIN g.snap) <= Cardinality(DOMAIN p.snap) + 1
      <4>1. Extends(With(p.snap, f.seq, f), p.snap, f.seq, f)
        BY <3>5, WithFacts
      <4> QED
        BY <3>4, <4>1 DEF Extends
    <3>7. g = [recovering |-> g.recovering, invalid |-> g.invalid, cycle |-> g.cycle,
               expected |-> g.expected, snap |-> g.snap, inc |-> g.inc]
      BY <3>3, <3>4
    <3>8. IsRec(g)
      BY <2>1, <3>4, <3>7 DEF IsRec, RecOK
    <3>9. Cached(g) \in Nat /\ Cached(p) \in Nat /\ Cached(g) <= Cached(p) + 1 /\ Cached(g) <= Cached(r) + 1
      <4>1. /\ Cached(g) = Cardinality(DOMAIN g.snap) + Cardinality(DOMAIN p.inc)
            /\ Cached(p) = Cardinality(DOMAIN p.snap) + Cardinality(DOMAIN p.inc)
        BY <3>4 DEF Cached
      <4> QED
        BY <1>5, <2>1, <3>5, <3>6, <4>1
    <3>10. CASE Cached(g) > CacheLimit
      <4>1. Ingested(r, Restart(g))
        BY <2>1, <3>4, <3>8, <3>9, <3>10, Overflow
      <4> QED
        BY <3>2, <3>10, <4>1
    <3>11. CASE ~(Cached(g) > CacheLimit)
      <4>1. q = g
        BY <3>2, <3>11
      <4>2. RecOK(g)
        <5>1. Cached(g) <= CacheLimit
          BY <1>5, <3>9, <3>11
        <5>2. ASSUME NEW k \in DOMAIN g.snap
              PROVE  FrameOK(g.snap[k]) /\ g.snap[k].seq = k /\ g.snap[k].cycle = g.cycle
          <6>1. CASE k = f.seq
            BY <2>1, <3>4, <3>6, <6>1
          <6>2. CASE k # f.seq
            <7>1. k \in DOMAIN p.snap /\ g.snap[k] = p.snap[k]
              BY <3>6, <6>2
            <7> QED
              BY <2>1, <3>4, <7>1 DEF RecOK
          <6> QED
            BY <6>1, <6>2
        <5>3. /\ g.recovering \in BOOLEAN /\ g.invalid \in BOOLEAN
              /\ g.cycle \in 0 .. cycles /\ g.expected \in 1 .. published + 1
              /\ DOMAIN g.inc \subseteq 1 .. published
              /\ \A s \in DOMAIN g.inc : g.inc[s] = stream[s]
          BY <2>1, <3>4 DEF RecOK
        <5>4. IsFiniteSet(DOMAIN g.inc)
          BY <3>4, <3>5
        <5> QED
          BY <3>6, <3>7, <5>1, <5>2, <5>3, <5>4 DEF RecOK
      <4>3. Frames(g) \subseteq Frames(p)
        <5>1. ASSUME NEW h \in InCache(g) PROVE h \in Frames(p)
          <6>1. PICK k \in DOMAIN g.snap : h = g.snap[k]
            BY DEF InCache
          <6>2. h = f \/ h \in InCache(p)
            BY <3>6, <6>1 DEF InCache
          <6> QED
            BY <6>2 DEF Frames
        <5> QED
          BY <5>1 DEF Frames
      <4>4. ASSUME NEW b \in Nat, Reaches(r, b) PROVE Reaches(g, b)
        <5>1. Reaches(p, b)
          BY <2>1, <4>4
        <5> QED
          BY <3>4, <4>3, <5>1 DEF Reaches
      <4> QED
        BY <2>1, <3>4, <4>1, <4>2, <4>3, <4>4 DEF Ingested
    <3> QED
      BY <3>10, <3>11
  <2>4. CASE ~p.invalid /\ f.seq \in DOMAIN p.snap /\ p.snap[f.seq] # f
    <3>1. q = [p EXCEPT !.invalid = TRUE, !.snap = <<>>]
      BY <1>3, <1>8, <2>4
    <3>2. q = [recovering |-> p.recovering, invalid |-> TRUE, cycle |-> p.cycle,
               expected |-> p.expected, snap |-> <<>>, inc |-> p.inc]
      BY <2>1, <3>1 DEF RecOK
    <3>3. /\ q.recovering = p.recovering /\ q.invalid = TRUE /\ q.cycle = p.cycle
          /\ q.expected = p.expected /\ q.snap = <<>> /\ q.inc = p.inc
      BY <3>2
    <3>4. DOMAIN q.snap = {} /\ IsFiniteSet(DOMAIN q.snap) /\ Cardinality(DOMAIN q.snap) = 0
      BY <3>3, EmptyCache
    <3>5. RecOK(q)
      <4>1. q = [recovering |-> q.recovering, invalid |-> q.invalid, cycle |-> q.cycle,
                 expected |-> q.expected, snap |-> q.snap, inc |-> q.inc]
        BY <3>2, <3>3
      <4>2. /\ q.recovering \in BOOLEAN /\ q.invalid \in BOOLEAN
            /\ q.cycle \in 0 .. cycles /\ q.expected \in 1 .. published + 1
            /\ IsFiniteSet(DOMAIN q.inc) /\ DOMAIN q.inc \subseteq 1 .. published
            /\ \A s \in DOMAIN q.inc : q.inc[s] = stream[s]
        <5>1. /\ p.recovering \in BOOLEAN
              /\ p.cycle \in 0 .. cycles /\ p.expected \in 1 .. published + 1
              /\ IsFiniteSet(DOMAIN p.inc) /\ DOMAIN p.inc \subseteq 1 .. published
              /\ \A s \in DOMAIN p.inc : p.inc[s] = stream[s]
          BY <2>1, Zenon DEF RecOK
        <5> QED
          BY <3>3, <5>1
      <4>3. \A k \in DOMAIN q.snap :
               FrameOK(q.snap[k]) /\ q.snap[k].seq = k /\ q.snap[k].cycle = q.cycle
        BY <3>4
      <4>4. Cached(q) <= CacheLimit
        <5>1. /\ Cardinality(DOMAIN p.snap) \in Nat /\ Cardinality(DOMAIN p.inc) \in Nat
              /\ Cached(p) <= CacheLimit
          BY <2>1, FS_CardinalityType DEF RecOK
        <5>2. Cached(q) = 0 + Cardinality(DOMAIN p.inc)
          BY <3>3, <3>4 DEF Cached
        <5>3. Cached(p) = Cardinality(DOMAIN p.snap) + Cardinality(DOMAIN p.inc)
          BY DEF Cached
        <5> QED
          BY <1>5, <5>1, <5>2, <5>3
      <4> QED
        BY <3>4, <4>1, <4>2, <4>3, <4>4 DEF RecOK
    <3>6. Frames(q) \subseteq Frames(p)
      BY <3>4 DEF Frames, InCache
    <3>7. ASSUME NEW b \in Nat, Reaches(r, b) PROVE Reaches(q, b)
      <4>1. Reaches(p, b)
        BY <2>1, <3>7
      <4> QED
        BY <3>3, <3>6, <4>1 DEF Reaches
    <3> QED
      BY <2>1, <3>3, <3>5, <3>6, <3>7 DEF Ingested
  <2>5. CASE p.invalid \/ (f.seq \in DOMAIN p.snap /\ p.snap[f.seq] = f)
    <3>1. q = p
      BY <1>3, <1>8, <2>5
    <3> QED
      BY <2>2, <3>1
  <2> QED
    BY <2>3, <2>4, <2>5
<1> QED
  BY <1>7, <1>8
-------------------------------------------------------------------------------
(* What the tail of process() leaves: no batch, or a true one that reaches as *)
(* far as the caches demand, in the queue or waiting.                        *)

NoBatchYet(r) ==
    /\ candidate' = NoBatch /\ out' = out
    /\ \E p \in BOOLEAN : rec' = [r EXCEPT !.invalid = p]

Reaching(r, es, w, o) ==
    ~r.invalid /\ BatchOK(es, w, o) /\ \A b \in Nat : Reaches(r, b) => w >= b

Committed(r, es, w, o) ==
    /\ Reaching(r, es, w, o)
    /\ Len(out) + Len(es) <= QueueCapacity
    /\ rec' = Commit(r, w) /\ candidate' = NoBatch /\ out' = out \o es

Waiting(r, es, w, o) ==
    /\ Reaching(r, es, w, o)
    /\ rec' = r /\ candidate' = [events |-> es, watermark |-> w] /\ out' = out

LEMMA RecoverOK ==
    ASSUME Bounds, NEW r, RecOK(r), NEW o, Recover(r, o)
    PROVE  \/ NoBatchYet(r)
           \/ \E es, w : Committed(r, es, w, o)
           \/ \E es, w : Waiting(r, es, w, o)
<1>1. PICK b : b = Build(r)
  OBVIOUS
<1>2. PICK es : es = Append(b.batch.events, Event("COMMIT", b.batch.watermark, o))
  OBVIOUS
<1>3. IF b.batch = NoBatch
      THEN rec' = b.rec /\ candidate' = NoBatch /\ out' = out
      ELSE IF Len(out) + Len(es) <= QueueCapacity
      THEN rec' = Commit(b.rec, b.batch.watermark) /\ candidate' = NoBatch /\ out' = out \o es
      ELSE /\ rec' = b.rec /\ out' = out
           /\ candidate' = [events |-> es, watermark |-> b.batch.watermark]
  BY <1>1, <1>2 DEF Recover
<1>4. ASSUME NEW p \in BOOLEAN, b = NoResult(r, p) PROVE NoBatchYet(r)
  <2>1. b.batch = NoBatch /\ b.rec = [r EXCEPT !.invalid = @ \/ p]
    BY <1>4 DEF NoResult
  <2>2. PICK c \in BOOLEAN : c = (r.invalid \/ p)
    OBVIOUS
  <2>3. [r EXCEPT !.invalid = @ \/ p] = [r EXCEPT !.invalid = c]
    BY <2>2
  <2> QED
    BY <1>3, <2>1, <2>3 DEF NoBatchYet
<1>5. CASE b = Result(r) /\ Succeeds(r)
  <2>1. PICK w : w = Mark(r) + Len(Incs(r))
    OBVIOUS
  <2>2. /\ b.rec = r /\ b.batch = [events |-> Body(r) \o Incs(r), watermark |-> w]
        /\ b.batch.watermark = w /\ b.batch.events = Body(r) \o Incs(r)
    BY <1>5, <2>1 DEF Result
  <2>3. es = Append(Body(r) \o Incs(r), Event("COMMIT", w, o))
    BY <1>2, <2>2
  <2>4. BatchOK(Append(Body(r) \o Incs(r), Event("COMMIT", w, o)), w, o)
    BY <1>5, <2>1, BuildBatch
  <2>5. Reaching(r, es, w, o)
    <3>1. ~r.invalid
      BY <1>5 DEF Succeeds, Framed
    <3>2. \A x \in Nat : Reaches(r, x) => w >= x
      BY <1>5, <2>1, BuildIncs
    <3> QED
      BY <2>3, <2>4, <3>1, <3>2 DEF Reaching
  <2>6. CASE b.batch = NoBatch
    <3>1. r = [r EXCEPT !.invalid = r.invalid] /\ r.invalid \in BOOLEAN
      BY DEF RecOK
    <3> QED
      BY <1>3, <2>2, <2>6, <3>1 DEF NoBatchYet
  <2>7. CASE b.batch # NoBatch /\ Len(out) + Len(es) <= QueueCapacity
    BY <1>3, <2>2, <2>5, <2>7 DEF Committed
  <2>8. CASE b.batch # NoBatch /\ ~(Len(out) + Len(es) <= QueueCapacity)
    BY <1>3, <2>2, <2>5, <2>8 DEF Waiting
  <2> QED
    BY <2>6, <2>7, <2>8
<1> QED
  BY <1>1, <1>4, <1>5, BuildIs
-------------------------------------------------------------------------------
(* The frames of a snapshot all carry its cycle, its watermark and the hash.  *)

LEMMA SnapshotFacts ==
    ASSUME stream \in Streams, NEW w \in 0 .. Len(stream), NEW c, NEW s,
           s = SnapshotFrames(c, w, BookAt(w))
    PROVE  /\ IsSeq(s) /\ Len(s) \in Nat
           /\ \A i \in 1 .. Len(s) : /\ s[i].seq \in Nat /\ s[i].cycle = c /\ s[i].watermark = w
                                     /\ s[i].hash = BookAt(w)
<1>1. PICK b : b = BookAt(w)
  OBVIOUS
<1>2. PICK n : n = Cardinality(DOMAIN b)
  OBVIOUS
<1>3. n \in Nat
  BY <1>1, <1>2, StreamBooks, FS_CardinalityType
<1>4. PICK a : a = Adds(b)
  OBVIOUS
<1>5. a = [i \in 1 .. n |-> a[i]]
  BY <1>2, <1>4 DEF Adds
<1>6. IsSeq(a) /\ Len(a) = n
  BY <1>3, <1>5, SeqFunction
<1>7. PICK h : h = <<Event("START", w, 0), Event("CLEAR", 0, 0)>>
  OBVIOUS
<1>8. IsSeq(h) /\ Len(h) = 2
  <2>1. h \in Seq({Event("START", w, 0), Event("CLEAR", 0, 0)}) /\ Len(h) = 2
    BY <1>7
  <2> QED
    BY <2>1 DEF IsSeq
<1>9. PICK t : t = <<Event("END", w, 0)>>
  OBVIOUS
<1>10. IsSeq(t) /\ Len(t) = 1
  <2>1. t \in Seq({Event("END", w, 0)}) /\ Len(t) = 1
    BY <1>9
  <2> QED
    BY <2>1 DEF IsSeq
<1>11. PICK g : g = h \o a
  OBVIOUS
<1>12. IsSeq(g) /\ Len(g) = 2 + n
  <2>1. Joins(h \o a, h, a)
    BY <1>6, <1>8, SeqConcat
  <2> QED
    BY <1>6, <1>8, <1>11, <2>1 DEF Joins
<1>13. PICK es : es = g \o t
  OBVIOUS
<1>14. Len(es) = 3 + n
  <2>1. Joins(g \o t, g, t)
    BY <1>10, <1>12, SeqConcat
  <2> QED
    BY <1>3, <1>10, <1>12, <1>13, <2>1 DEF Joins
<1>15. s = [i \in 1 .. Len(es) |-> Frame(i - 1, c, w, b, es[i])]
  BY <1>1, <1>4, <1>7, <1>9, <1>11, <1>13 DEF SnapshotFrames
<1>16. PICK m \in Nat : m = Len(es)
  BY <1>3, <1>14
<1>17. s = [i \in 1 .. m |-> s[i]]
  BY <1>15, <1>16
<1>18. IsSeq(s) /\ Len(s) = m
  BY <1>16, <1>17, SeqFunction
<1>19. ASSUME NEW i \in 1 .. m
       PROVE  /\ s[i].seq \in Nat /\ s[i].cycle = c /\ s[i].watermark = w /\ s[i].hash = b
  <2>1. s[i] = Frame(i - 1, c, w, b, es[i])
    BY <1>15, <1>16
  <2>2. i - 1 \in Nat
    BY <1>16
  <2> QED
    BY <2>1, <2>2 DEF Frame
<1> QED
  BY <1>1, <1>16, <1>18, <1>19
-------------------------------------------------------------------------------
(* The queue to the trading engine and what it has applied.                   *)

Generations ==
    /\ generation \in 2 .. MaxGeneration /\ observed \in 2 .. generation
    /\ applied \in {0} \cup 2 .. observed
    /\ rec.recovering => applied < observed

EngineTypes ==
    /\ epc \in {"check", "store"} /\ localSeq \in Nat /\ bestSeq \in Nat /\ refused \in BOOLEAN
    /\ DOMAIN local \subseteq Orders

Queued ==
    /\ IsSeq(out) /\ Len(out) <= QueueCapacity
    /\ \A i \in 1 .. Len(out) : out[i].type = "ADD" => out[i].id \in Orders

Stored == epc = "store" => out # <<>> /\ out[1].type = "COMMIT" /\ localSeq = out[1].id

\* A marker of the generation the consumer is in: the updates that follow it in
\* the queue are those that follow it in the stream, up to the expected one.
Current(i) ==
    /\ bestSeq <= out[i].id
    /\ rec.expected = out[i].id + (Len(out) - i) + 1
    /\ \A j \in i + 1 .. Len(out) : out[j] = stream[out[i].id + (j - i)]

\* A marker behind an event that was refused, with no CLEAR between them, is outdated.
Marker(i) ==
    /\ out[i].id \in 0 .. published /\ out[i].qty \in 2 .. observed
    /\ rec.recovering => out[i].qty < observed
    /\ out[i].qty = observed => Current(i)
    /\ refused /\ (\A j \in 1 .. i - 1 : out[j].type # "CLEAR") => out[i].qty < generation

Markers == \A i \in 1 .. Len(out) : out[i].type = "COMMIT" => Marker(i)

\* B are the books the engine goes through while it empties the queue, from the
\* first CLEAR on if it has refused an event: every event applies, every marker
\* stands at a true book, and a live consumer is at the end.
Clean(i) == ~refused \/ \E j \in 1 .. i : out[j].type = "CLEAR"
Follows(B, i) ==
    /\ B[i] = Apply(B[i - 1], out[i])
    /\ IF out[i].type = "COMMIT" THEN B[i - 1] = BookAt(out[i].id) ELSE Applies(B[i - 1], out[i])
Script(B) ==
    /\ ~refused => B[0] = local
    /\ \A i \in 1 .. Len(out) : Clean(i) => Follows(B, i)
    /\ ~rec.recovering /\ Clean(Len(out)) => B[Len(out)] = BookAt(rec.expected - 1)
ScriptInv == \E B : Script(B)

Trusted ==
    Ready => /\ ~rec.recovering /\ localSeq \in 0 .. published /\ local = BookAt(localSeq)
             /\ rec.expected = localSeq + Len(out) + 1
             /\ \A j \in 1 .. Len(out) : out[j] = stream[localSeq + j]
             /\ bestSeq <= localSeq

QueueInv ==
    /\ Generations /\ EngineTypes /\ Queued /\ Stored /\ Markers /\ ScriptInv /\ Trusted

\* A book of the stream does not change while the stream does not.
LEMMA SameBooks ==
    ASSUME stream' = stream
    PROVE  \A n : BookAt(n)' = BookAt(n)
BY DEF BookAt

\* A new generation: the markers in the queue are all outdated.
LEMMA QueueStale ==
    ASSUME Bounds, RecOK(rec), QueueInv,
           UNCHANGED <<stream, published, engineVars, out>>, rec'.recovering = TRUE,
           generation' \in 2 .. MaxGeneration, observed' \in 2 .. generation',
           observed' > observed, generation' >= generation, bestSeq' \in Nat
    PROVE  QueueInv'
<1>1. /\ stream' = stream /\ published' = published /\ applied' = applied /\ epc' = epc
      /\ local' = local /\ localSeq' = localSeq /\ refused' = refused /\ out' = out
  BY DEF engineVars
<1>2. Generations'
  BY <1>1, MarketDataAssumption DEF QueueInv, Generations
<1>3. EngineTypes' /\ Queued' /\ Stored'
  BY <1>1 DEF QueueInv, EngineTypes, Queued, Stored, Orders
<1>4. Markers'
  <2> SUFFICES ASSUME NEW i \in 1 .. Len(out), out[i].type = "COMMIT" PROVE Marker(i)'
    BY <1>1 DEF Markers
  <2>1. out[i].id \in 0 .. published /\ out[i].qty \in 2 .. observed
    BY DEF QueueInv, Markers, Marker
  <2>2. out[i].qty \in 2 .. observed' /\ out[i].qty < observed' /\ out[i].qty < generation'
    BY <2>1, MarketDataAssumption DEF QueueInv, Generations
  <2>3. out[i].qty # observed'
    BY <2>2
  <2> QED
    BY <1>1, <2>1, <2>2, <2>3 DEF Marker
<1>5. ScriptInv'
  <2>1. PICK B : Script(B)
    BY DEF QueueInv, ScriptInv
  <2>2. \A n : BookAt(n)' = BookAt(n)
    BY <1>1, SameBooks
  <2>3. Script(B)'
    BY <1>1, <2>1, <2>2 DEF Script, Clean, Follows
  <2> QED
    BY <2>3 DEF ScriptInv
<1>6. Trusted'
  <2>1. applied' # generation'
    BY <1>1, MarketDataAssumption DEF QueueInv, Generations
  <2> QED
    BY <2>1 DEF Trusted, Ready
<1> QED
  BY <1>2, <1>3, <1>4, <1>5, <1>6 DEF QueueInv

\* The consumer goes on recovering.
LEMMA QueueIdle ==
    ASSUME Bounds, RecOK(rec), QueueInv, rec.recovering,
           UNCHANGED <<stream, published, engineVars, out, generation, observed>>,
           rec'.recovering = TRUE, bestSeq' \in Nat
    PROVE  QueueInv'
<1>1. /\ stream' = stream /\ published' = published /\ applied' = applied /\ epc' = epc
      /\ local' = local /\ localSeq' = localSeq /\ refused' = refused /\ out' = out
      /\ generation' = generation /\ observed' = observed
  BY DEF engineVars
<1>2. Generations'
  BY <1>1 DEF QueueInv, Generations
<1>3. EngineTypes' /\ Queued' /\ Stored'
  BY <1>1 DEF QueueInv, EngineTypes, Queued, Stored, Orders
<1>4. Markers'
  <2> SUFFICES ASSUME NEW i \in 1 .. Len(out), out[i].type = "COMMIT" PROVE Marker(i)'
    BY <1>1 DEF Markers
  <2>1. Marker(i)
    BY DEF QueueInv, Markers
  <2>2. out[i].qty # observed /\ out[i].qty < observed
    BY <2>1, MarketDataAssumption DEF Marker, QueueInv, Generations
  <2> QED
    BY <1>1, <2>1, <2>2 DEF Marker
<1>5. ScriptInv'
  <2>1. PICK B : Script(B)
    BY DEF QueueInv, ScriptInv
  <2>2. \A n : BookAt(n)' = BookAt(n)
    BY <1>1, SameBooks
  <2>3. Script(B)'
    BY <1>1, <2>1, <2>2 DEF Script, Clean, Follows
  <2> QED
    BY <2>3 DEF ScriptInv
<1>6. Trusted'
  <2>1. applied' # generation'
    BY <1>1, MarketDataAssumption DEF QueueInv, Generations
  <2> QED
    BY <2>1 DEF Trusted, Ready
<1> QED
  BY <1>2, <1>3, <1>4, <1>5, <1>6 DEF QueueInv

\* The exchange publishes, or nothing happens that the queue shows.
LEMMA QueueSame ==
    ASSUME Bounds, RecOK(rec), QueueInv, stream' = stream, published' \in Nat, published' >= published,
           UNCHANGED <<rec, observed, engineVars, out, generation, bestSeq>>
    PROVE  QueueInv'
<1>1. /\ applied' = applied /\ epc' = epc /\ rec' = rec
      /\ local' = local /\ localSeq' = localSeq /\ refused' = refused /\ out' = out
      /\ generation' = generation /\ observed' = observed /\ bestSeq' = bestSeq
  BY DEF engineVars
<1>2. Generations' /\ EngineTypes' /\ Queued' /\ Stored'
  BY <1>1 DEF QueueInv, Generations, EngineTypes, Queued, Stored, Orders
<1>3. 0 .. published \subseteq 0 .. published'
  BY StreamFacts DEF Bounds
<1>4. Markers'
  <2> SUFFICES ASSUME NEW i \in 1 .. Len(out), out[i].type = "COMMIT" PROVE Marker(i)'
    BY <1>1 DEF Markers
  <2>1. Marker(i)
    BY DEF QueueInv, Markers
  <2> QED
    BY <1>1, <1>3, <2>1 DEF Marker, Current
<1>5. \A n : BookAt(n)' = BookAt(n)
  BY SameBooks
<1>6. ScriptInv'
  <2>1. PICK B : Script(B)
    BY DEF QueueInv, ScriptInv
  <2>2. Script(B)'
    BY <1>1, <1>5, <2>1 DEF Script, Clean, Follows
  <2> QED
    BY <2>2 DEF ScriptInv
<1>7. Trusted'
  BY <1>1, <1>3, <1>5 DEF QueueInv, Trusted, Ready
<1> QED
  BY <1>2, <1>4, <1>6, <1>7 DEF QueueInv

\* A live consumer passes the expected update on.
LEMMA QueueLive ==
    ASSUME Bounds, RecOK(rec), QueueInv, ~rec.recovering, rec.expected <= published,
           Len(out) < QueueCapacity, out' = Append(out, stream[rec.expected]),
           rec'.recovering = FALSE, rec'.expected = rec.expected + 1,
           UNCHANGED <<stream, published, engineVars, generation, observed, bestSeq>>
    PROVE  QueueInv'
<1>1. /\ stream' = stream /\ published' = published /\ applied' = applied /\ epc' = epc
      /\ local' = local /\ localSeq' = localSeq /\ refused' = refused
      /\ generation' = generation /\ observed' = observed /\ bestSeq' = bestSeq
  BY DEF engineVars
<1>2. PICK n : n = Len(out)
  OBVIOUS
<1>3. PICK x : x = rec.expected
  OBVIOUS
<1>4. /\ n \in Nat /\ IsSeq(out') /\ Len(out') = n + 1
      /\ \A i \in 1 .. n : out'[i] = out[i]
      /\ out'[n + 1] = stream[x]
  BY <1>2, <1>3, SeqAppend DEF QueueInv, Queued
<1>5. /\ x \in Nat /\ x >= 1 /\ x <= published /\ published \in Nat /\ published <= Len(stream)
      /\ x - 1 \in 0 .. Len(stream) - 1 /\ (x - 1) + 1 = x /\ x \in 1 .. Len(stream)
  <2>1. Len(stream) \in Nat /\ published \in 0 .. Len(stream)
    BY StreamFacts DEF Bounds
  <2>2. x \in 1 .. published + 1 /\ x <= published
    BY <1>3 DEF RecOK
  <2> QED
    BY <2>1, <2>2
<1>6. /\ stream[x].type \in UpdateTypes /\ stream[x].id \in Orders
      /\ Applies(BookAt(x - 1), stream[x]) /\ BookAt(x) = Apply(BookAt(x - 1), stream[x])
  <2>1. PICK k \in 0 .. Len(stream) - 1 : k = x - 1 /\ k + 1 = x
    BY <1>5
  <2>2. Applies(BookAt(k), stream[k + 1]) /\ BookAt(k + 1) = Apply(BookAt(k), stream[k + 1])
    BY StreamFacts DEF Bounds
  <2> QED
    BY <1>5, <2>1, <2>2, StreamFacts DEF Bounds
<1>7. stream[x].type # "COMMIT" /\ stream[x].type # "CLEAR"
  BY <1>6 DEF UpdateTypes
<1>8. \A i \in 1 .. n + 1 : i \in 1 .. n \/ i = n + 1
  BY <1>4
<1>9. Generations' /\ EngineTypes'
  BY <1>1 DEF QueueInv, Generations, EngineTypes, Orders
<1>10. Queued'
  <2>1. Len(out') <= QueueCapacity
    BY <1>2, <1>4, MarketDataAssumption
  <2>2. \A i \in 1 .. n : out[i].type = "ADD" => out[i].id \in Orders
    BY <1>2 DEF QueueInv, Queued
  <2>3. ASSUME NEW i \in 1 .. n + 1, out'[i].type = "ADD" PROVE out'[i].id \in Orders
    BY <1>4, <1>6, <1>8, <2>2, <2>3
  <2>4. Orders' = Orders
    BY DEF Orders
  <2> QED
    BY <1>4, <2>1, <2>3, <2>4 DEF Queued
<1>11. Stored'
  <2> SUFFICES ASSUME epc = "store" PROVE Stored'
    BY <1>1 DEF Stored
  <2>1. out # <<>> /\ out[1].type = "COMMIT" /\ localSeq = out[1].id
    BY DEF QueueInv, Stored
  <2>2. n >= 1
    BY <1>2, <2>1, SeqTail DEF QueueInv, Queued
  <2>3. out'[1] = out[1] /\ out' # <<>>
    <3>1. 1 \in 1 .. n /\ Len(out') # 0
      BY <1>4, <2>2
    <3> QED
      BY <1>4, <3>1, SeqEmpty
  <2> QED
    BY <1>1, <2>1, <2>3 DEF Stored
<1>12. Markers'
  <2> SUFFICES ASSUME NEW i \in 1 .. n + 1, out'[i].type = "COMMIT" PROVE Marker(i)'
    BY <1>4 DEF Markers
  <2>1. i \in 1 .. n /\ out'[i] = out[i]
    BY <1>4, <1>7, <1>8
  <2>2. Marker(i)
    BY <1>2, <2>1 DEF QueueInv, Markers
  <2>3. ASSUME out[i].qty = observed PROVE Current(i)'
    <3>1. Current(i)
      BY <2>2, <2>3 DEF Marker
    <3>2. out[i].id \in Nat
      BY <1>5, <2>2 DEF Marker
    <3>3. x = out[i].id + (n - i) + 1
      BY <1>2, <1>3, <3>1 DEF Current
    <3>4. rec'.expected = out'[i].id + (Len(out') - i) + 1
      BY <1>3, <1>4, <2>1, <3>2, <3>3
    <3>5. ASSUME NEW j \in i + 1 .. n + 1 PROVE out'[j] = stream[out[i].id + (j - i)]
      <4>1. CASE j = n + 1
        <5>1. out[i].id + (j - i) = x
          <6>1. PICK v \in Nat : v = out[i].id
            BY <3>2
          <6>2. i \in Nat /\ n \in Nat /\ x = v + (n - i) + 1
            BY <1>4, <2>1, <3>3, <6>1
          <6>3. v + ((n + 1) - i) = x
            BY <6>2
          <6> QED
            BY <4>1, <6>1, <6>3
        <5> QED
          BY <1>4, <4>1, <5>1
      <4>2. CASE j # n + 1
        <5>1. j \in i + 1 .. n /\ j \in 1 .. n
          BY <1>4, <2>1, <4>2
        <5> QED
          BY <1>2, <1>4, <3>1, <5>1 DEF Current
      <4> QED
        BY <4>1, <4>2
    <3> QED
      BY <1>1, <1>4, <2>1, <3>1, <3>4, <3>5 DEF Current
  <2>4. ASSUME refused, \A j \in 1 .. i - 1 : out'[j].type # "CLEAR" PROVE out[i].qty < generation
    <3>1. \A j \in 1 .. i - 1 : j \in 1 .. n
      BY <1>4, <2>1
    <3>2. \A j \in 1 .. i - 1 : out[j].type # "CLEAR"
      BY <1>4, <2>4, <3>1
    <3> QED
      BY <2>2, <2>4, <3>2 DEF Marker
  <2> QED
    BY <1>1, <2>1, <2>2, <2>3, <2>4 DEF Marker
<1>13. \A k : BookAt(k)' = BookAt(k)
  BY <1>1, SameBooks
<1>14. ScriptInv'
  <2>1. PICK B : Script(B)
    BY DEF QueueInv, ScriptInv
  <2>2. PICK A : A = [i \in 0 .. n + 1 |-> IF i = n + 1 THEN BookAt(x) ELSE B[i]]
    OBVIOUS
  <2>3. (\A i \in 0 .. n : A[i] = B[i]) /\ A[n + 1] = BookAt(x)
    <3>1. \A i \in 0 .. n : i \in 0 .. n + 1 /\ i # n + 1
      BY <1>4
    <3>2. n + 1 \in 0 .. n + 1
      BY <1>4
    <3> QED
      BY <2>2, <3>1, <3>2
  <2>4. \A i \in 1 .. n : Clean(i)' => Clean(i)
    <3>1. \A i \in 1 .. n : \A j \in 1 .. i : j \in 1 .. n
      BY <1>4
    <3> QED
      BY <1>1, <1>4, <3>1 DEF Clean
  <2>5. Clean(n + 1)' => Clean(n)
    <3> SUFFICES ASSUME Clean(n + 1)', refused PROVE Clean(n)
      BY DEF Clean
    <3>1. PICK j \in 1 .. n + 1 : out'[j].type = "CLEAR"
      BY <1>1 DEF Clean
    <3>2. j \in 1 .. n
      BY <1>4, <1>7, <1>8, <3>1
    <3> QED
      BY <1>4, <3>1, <3>2 DEF Clean
  <2>6. Clean(n) => B[n] = BookAt(x - 1)
    BY <1>2, <1>3, <2>1 DEF Script
  <2>7. ASSUME NEW i \in 1 .. n, Clean(i)' PROVE Follows(A, i)'
    <3>1. Follows(B, i)
      BY <1>2, <2>1, <2>4, <2>7 DEF Script
    <3>2. i \in 0 .. n /\ i - 1 \in 0 .. n
      BY <1>4
    <3>3. A[i] = B[i] /\ A[i - 1] = B[i - 1] /\ out'[i] = out[i]
      BY <1>4, <2>3, <3>2
    <3> QED
      BY <1>13, <3>1, <3>3 DEF Follows
  <2>8. ASSUME Clean(n + 1)' PROVE Follows(A, n + 1)'
    <3>1. (n + 1) - 1 = n /\ n \in 0 .. n
      BY <1>4
    <3>2. A[n] = BookAt(x - 1) /\ A[n + 1] = BookAt(x)
      BY <2>3, <2>5, <2>6, <2>8, <3>1
    <3> QED
      BY <1>4, <1>6, <1>7, <1>13, <3>1, <3>2 DEF Follows
  <2>9. \A i \in 1 .. Len(out') : Clean(i)' => Follows(A, i)'
    BY <1>4, <1>8, <2>7, <2>8
  <2>10. ~refused' => A[0] = local'
    <3>1. 0 \in 0 .. n
      BY <1>4
    <3> QED
      BY <1>1, <2>1, <2>3, <3>1 DEF Script
  <2>11. A[Len(out')] = BookAt(rec.expected - 1)'
    <3>1. rec'.expected - 1 = x
      BY <1>3, <1>5
    <3> QED
      BY <1>4, <1>13, <2>3, <3>1
  <2>12. Script(A)'
    BY <2>9, <2>10, <2>11 DEF Script
  <2> QED
    BY <2>12 DEF ScriptInv
<1>15. Trusted'
  <2> SUFFICES ASSUME Ready PROVE Trusted'
    BY <1>1 DEF Trusted, Ready
  <2>1. /\ localSeq \in 0 .. published /\ local = BookAt(localSeq)
        /\ x = localSeq + n + 1
        /\ \A j \in 1 .. n : out[j] = stream[localSeq + j]
        /\ bestSeq <= localSeq
    BY <1>2, <1>3 DEF QueueInv, Trusted
  <2>2. rec'.expected = localSeq + Len(out') + 1
    BY <1>3, <1>4, <1>5, <2>1
  <2>3. localSeq + (n + 1) = x
    BY <1>4, <1>5, <2>1
  <2>4. \A j \in 1 .. n + 1 : out'[j] = stream[localSeq + j]
    BY <1>4, <1>8, <2>1, <2>3
  <2> QED
    BY <1>1, <1>4, <1>13, <2>1, <2>2, <2>4 DEF Trusted
<1> QED
  BY <1>9, <1>10, <1>11, <1>12, <1>14, <1>15 DEF QueueInv

\* A batch enters the queue as a whole, and the consumer is live.
LEMMA QueueCommit ==
    ASSUME Bounds, RecOK(rec), QueueInv, rec.recovering, NEW es, NEW w, BatchOK(es, w, observed),
           w >= bestSeq, Len(out) + Len(es) <= QueueCapacity, out' = out \o es,
           rec'.recovering = FALSE, rec'.expected = w + 1,
           UNCHANGED <<stream, published, engineVars, generation, observed, bestSeq>>
    PROVE  QueueInv'
<1>1. /\ stream' = stream /\ published' = published /\ applied' = applied /\ epc' = epc
      /\ local' = local /\ localSeq' = localSeq /\ refused' = refused
      /\ generation' = generation /\ observed' = observed /\ bestSeq' = bestSeq
  BY DEF engineVars
<1>2. PICK n : n = Len(out)
  OBVIOUS
<1>3. PICK m : m = Len(es)
  OBVIOUS
<1>4. /\ n \in Nat /\ m \in Nat /\ IsSeq(out') /\ Len(out') = n + m
      /\ \A i \in 1 .. n : out'[i] = out[i]
      /\ \A i \in 1 .. m : out'[n + i] = es[i]
  <2>1. Joins(out \o es, out, es)
    BY SeqConcat DEF BatchOK, QueueInv, Queued
  <2> QED
    BY <1>2, <1>3, <2>1 DEF Joins
<1>5. /\ m > 1 /\ w \in 0 .. published /\ es[1].type = "CLEAR" /\ es[m] = Event("COMMIT", w, observed)
      /\ \A i \in 1 .. m - 1 : es[i].type # "COMMIT" /\ (es[i].type = "ADD" => es[i].id \in Orders)
  BY <1>3 DEF BatchOK
<1>6. PICK C : /\ \A i \in 1 .. m - 1 : Applies(C[i - 1], es[i]) /\ C[i] = Apply(C[i - 1], es[i])
               /\ C[m - 1] = BookAt(w)
  BY <1>3 DEF BatchOK, BatchBooks
<1>7. es[m].type = "COMMIT" /\ es[m].id = w /\ es[m].qty = observed
  BY <1>5 DEF Event
<1>8. published \in Nat /\ w \in Nat /\ generation \in Nat /\ observed \in 2 .. generation
  BY <1>5, StreamFacts, MarketDataAssumption DEF Bounds, QueueInv, Generations
<1>9. \A i \in 1 .. n + m : i \in 1 .. n \/ \E k \in 1 .. m : i = n + k
  <2> SUFFICES ASSUME NEW i \in 1 .. n + m, i \notin 1 .. n PROVE \E k \in 1 .. m : i = n + k
    OBVIOUS
  <2>1. i - n \in 1 .. m /\ i = n + (i - n)
    BY <1>4
  <2> QED
    BY <2>1
<1>10. \A k \in 1 .. m : k \in 1 .. m - 1 \/ k = m
  BY <1>4
<1>11. Generations' /\ EngineTypes'
  BY <1>1 DEF QueueInv, Generations, EngineTypes, Orders
<1>12. Queued'
  <2>1. \A i \in 1 .. n : out[i].type = "ADD" => out[i].id \in Orders
    BY <1>2 DEF QueueInv, Queued
  <2>2. \A k \in 1 .. m : es[k].type = "ADD" => es[k].id \in Orders
    BY <1>5, <1>7, <1>10
  <2>3. ASSUME NEW i \in 1 .. n + m, out'[i].type = "ADD" PROVE out'[i].id \in Orders
    <3>1. CASE i \in 1 .. n
      BY <1>4, <2>1, <2>3, <3>1
    <3>2. CASE \E k \in 1 .. m : i = n + k
      <4>1. PICK k \in 1 .. m : i = n + k
        BY <3>2
      <4>2. out'[i] = es[k]
        BY <1>4, <4>1
      <4> QED
        BY <2>2, <2>3, <4>2
    <3> QED
      BY <1>9, <3>1, <3>2
  <2>4. Orders' = Orders
    BY DEF Orders
  <2>5. Len(out') <= QueueCapacity
    BY <1>2, <1>3, <1>4
  <2> QED
    BY <1>4, <2>3, <2>4, <2>5 DEF Queued
<1>13. Stored'
  <2> SUFFICES ASSUME epc = "store" PROVE Stored'
    BY <1>1 DEF Stored
  <2>1. out # <<>> /\ out[1].type = "COMMIT" /\ localSeq = out[1].id
    BY DEF QueueInv, Stored
  <2>2. n >= 1
    BY <1>2, <2>1, SeqTail DEF QueueInv, Queued
  <2>3. out'[1] = out[1] /\ out' # <<>>
    <3>1. 1 \in 1 .. n /\ Len(out') # 0
      BY <1>4, <2>2
    <3> QED
      BY <1>4, <3>1, SeqEmpty
  <2> QED
    BY <1>1, <2>1, <2>3 DEF Stored
<1>14. Markers'
  <2> SUFFICES ASSUME NEW i \in 1 .. n + m, out'[i].type = "COMMIT" PROVE Marker(i)'
    BY <1>4 DEF Markers
  <2>1. CASE i \in 1 .. n
    <3>1. out'[i] = out[i] /\ Marker(i)
      BY <1>2, <1>4, <2>1 DEF QueueInv, Markers
    <3>2. out[i].qty \in 2 .. observed /\ out[i].qty < observed /\ out[i].id \in 0 .. published
      BY <3>1 DEF Marker
    <3>3. out[i].qty # observed /\ out[i].qty < generation
      <4>1. PICK q \in Nat : q = out[i].qty /\ q < observed
        BY <3>2
      <4>2. q # observed /\ q < generation
        BY <1>8, <4>1
      <4> QED
        BY <4>1, <4>2
    <3> QED
      BY <1>1, <3>1, <3>2, <3>3 DEF Marker
  <2>2. CASE i \notin 1 .. n
    <3>1. PICK k \in 1 .. m : i = n + k
      BY <1>9, <2>2
    <3>2. k = m
      <4>1. es[k].type = "COMMIT"
        BY <1>4, <3>1
      <4>2. k \notin 1 .. m - 1
        BY <1>5, <4>1
      <4> QED
        BY <1>10, <4>2
    <3>3. out'[i] = es[m] /\ i = n + m
      BY <1>4, <3>1, <3>2
    <3>4. Current(i)'
      <4>1. w + (Len(out') - i) + 1 = w + 1
        BY <1>4, <1>8, <3>3
      <4>2. \A j \in i + 1 .. Len(out') : FALSE
        BY <1>4, <3>3
      <4> QED
        BY <1>1, <1>7, <3>3, <4>1, <4>2 DEF Current
    <3>5. n + 1 \in 1 .. i - 1 /\ out'[n + 1].type = "CLEAR"
      <4>1. 1 \in 1 .. m /\ n + 1 \in 1 .. (n + m) - 1
        BY <1>4, <1>5
      <4> QED
        BY <1>4, <1>5, <3>3, <4>1
    <3>6. observed \in 2 .. observed
      BY <1>8
    <3> QED
      BY <1>1, <1>5, <1>7, <3>3, <3>4, <3>5, <3>6 DEF Marker
  <2> QED
    BY <2>1, <2>2
<1>15. \A k : BookAt(k)' = BookAt(k)
  BY <1>1, SameBooks
<1>16. ScriptInv'
  <2>1. PICK B : Script(B)
    BY DEF QueueInv, ScriptInv
  <2>2. PICK A : A = [i \in 0 .. n + m |-> IF i <= n THEN B[i] ELSE IF i = n + m THEN BookAt(w) ELSE C[i - n]]
    OBVIOUS
  <2>3. \A i \in 0 .. n : A[i] = B[i]
    <3>1. \A i \in 0 .. n : i \in 0 .. n + m /\ i <= n
      BY <1>4
    <3> QED
      BY <2>2, <3>1
  <2>4. \A k \in 1 .. m - 1 : A[n + k] = C[k]
    <3> SUFFICES ASSUME NEW k \in 1 .. m - 1 PROVE A[n + k] = C[k]
      OBVIOUS
    <3>1. n + k \in 0 .. n + m /\ ~(n + k <= n) /\ n + k # n + m /\ (n + k) - n = k
      BY <1>4
    <3> QED
      BY <2>2, <3>1
  <2>5. A[n + m] = BookAt(w)
    <3>1. n + m \in 0 .. n + m /\ ~(n + m <= n)
      BY <1>4, <1>5
    <3> QED
      BY <2>2, <3>1
  <2>6. ASSUME NEW i \in 1 .. n, Clean(i)' PROVE Follows(A, i)'
    <3>1. Clean(i)
      <4>1. \A j \in 1 .. i : j \in 1 .. n
        BY <1>4
      <4> QED
        BY <1>1, <1>4, <2>6, <4>1 DEF Clean
    <3>2. Follows(B, i)
      BY <1>2, <2>1, <3>1 DEF Script
    <3>3. i \in 0 .. n /\ i - 1 \in 0 .. n
      BY <1>4
    <3>4. A[i] = B[i] /\ A[i - 1] = B[i - 1] /\ out'[i] = out[i]
      BY <1>4, <2>3, <3>3
    <3> QED
      BY <1>15, <3>2, <3>4 DEF Follows
  <2>7. ASSUME NEW k \in 1 .. m PROVE Follows(A, n + k)'
    <3>1. out'[n + k] = es[k]
      BY <1>4
    <3>2. CASE k = 1
      <4>1. 1 \in 1 .. m - 1
        BY <1>4, <1>5
      <4>2. A[n + 1] = C[1] /\ C[1] = Apply(C[1 - 1], es[1])
        BY <1>6, <2>4, <4>1
      <4>3. A[n + 1] = <<>>
        BY <1>5, <4>2, ApplyDomain
      <4>4. A[n + 1] = Apply(A[(n + 1) - 1], es[1])
        BY <1>5, <4>3, ApplyDomain
      <4>5. Applies(A[(n + 1) - 1], es[1])
        BY <1>5 DEF Applies
      <4> QED
        BY <1>5, <3>1, <3>2, <4>4, <4>5 DEF Follows
    <3>3. CASE k \in 2 .. m - 1
      <4>1. k \in 1 .. m - 1 /\ k - 1 \in 1 .. m - 1 /\ (n + k) - 1 = n + (k - 1)
        BY <1>4, <3>3
      <4>2. A[n + k] = C[k] /\ A[(n + k) - 1] = C[k - 1]
        BY <2>4, <4>1
      <4> QED
        BY <1>5, <1>6, <3>1, <4>1, <4>2 DEF Follows
    <3>4. CASE k = m
      <4>1. m - 1 \in 1 .. m - 1 /\ (n + k) - 1 = n + (m - 1)
        BY <1>4, <1>5, <3>4
      <4>2. A[(n + k) - 1] = BookAt(w)
        BY <1>6, <2>4, <4>1
      <4>3. Apply(BookAt(w), es[m]) = BookAt(w)
        BY <1>7, ApplyDomain
      <4> QED
        BY <1>7, <1>15, <2>5, <3>1, <3>4, <4>2, <4>3 DEF Follows
    <3>5. k = 1 \/ k \in 2 .. m - 1 \/ k = m
      BY <1>4
    <3> QED
      BY <3>2, <3>3, <3>4, <3>5
  <2>8. \A i \in 1 .. Len(out') : Clean(i)' => Follows(A, i)'
    <3> SUFFICES ASSUME NEW i \in 1 .. n + m, Clean(i)' PROVE Follows(A, i)'
      BY <1>4
    <3>1. CASE i \in 1 .. n
      BY <2>6, <3>1
    <3>2. CASE \E k \in 1 .. m : i = n + k
      BY <2>7, <3>2
    <3> QED
      BY <1>9, <3>1, <3>2
  <2>9. ~refused' => A[0] = local'
    <3>1. 0 \in 0 .. n
      BY <1>4
    <3> QED
      BY <1>1, <2>1, <2>3, <3>1 DEF Script
  <2>10. A[Len(out')] = BookAt(rec.expected - 1)'
    <3>1. rec'.expected - 1 = w
      BY <1>8
    <3> QED
      BY <1>4, <1>15, <2>5, <3>1
  <2>11. Script(A)'
    BY <2>8, <2>9, <2>10 DEF Script
  <2> QED
    BY <2>11 DEF ScriptInv
<1>17. Trusted'
  <2>1. applied' # generation'
    BY <1>1, <1>8 DEF QueueInv, Generations
  <2> QED
    BY <2>1 DEF Trusted, Ready
<1> QED
  BY <1>11, <1>12, <1>13, <1>14, <1>16, <1>17 DEF QueueInv
-------------------------------------------------------------------------------
(* The trading engine takes an event off the queue.                           *)

LEMMA QueueShift ==
    ASSUME Bounds, RecOK(rec), QueueInv, out # <<>>, out' = Tail(out),
           UNCHANGED <<stream, published, rec, observed>>, generation' \in Nat,
           refused' => \/ refused /\ out[1].type # "CLEAR" /\ generation' = generation
                       \/ generation' = generation + 1,
           ~refused' => (~refused \/ out[1].type = "CLEAR") /\ local' = Apply(local, out[1]),
           \A i \in 2 .. Len(out) :
              out[i].type = "COMMIT" /\ out[i].qty = observed => bestSeq' <= out[i].id
    PROVE  Queued' /\ Markers' /\ ScriptInv'
<1>1. stream' = stream /\ published' = published /\ rec' = rec /\ observed' = observed
  OBVIOUS
<1>2. PICK n : n = Len(out) - 1
  OBVIOUS
<1>3. /\ n \in Nat /\ Len(out) = n + 1 /\ IsSeq(out') /\ Len(out') = n
      /\ \A i \in 1 .. n : out'[i] = out[i + 1]
  BY <1>2, SeqTail DEF QueueInv, Queued
<1>4. \A i \in 1 .. n : i + 1 \in 1 .. Len(out) /\ i + 1 \in 2 .. Len(out) /\ (i + 1) - 1 = i
  BY <1>3
<1>5. Queued'
  <2>1. Len(out') <= QueueCapacity
    BY <1>3, MarketDataAssumption DEF QueueInv, Queued
  <2>2. Orders' = Orders
    BY DEF Orders
  <2> QED
    BY <1>3, <1>4, <2>1, <2>2 DEF QueueInv, Queued
<1>6. Markers'
  <2> SUFFICES ASSUME NEW i \in 1 .. n, out'[i].type = "COMMIT" PROVE Marker(i)'
    BY <1>3 DEF Markers
  <2>1. PICK k \in 2 .. Len(out) : k = i + 1 /\ k - 1 = i /\ k \in 1 .. Len(out)
    BY <1>4
  <2>2. out'[i] = out[k]
    BY <1>3, <2>1
  <2>3. Marker(k)
    BY <2>1, <2>2 DEF QueueInv, Markers
  <2>4. ASSUME out[k].qty = observed PROVE Current(i)'
    <3>1. Current(k)
      BY <2>3, <2>4 DEF Marker
    <3>2. bestSeq' <= out[k].id
      BY <2>2, <2>4
    <3>3. Len(out') - i = Len(out) - k
      BY <1>3, <2>1
    <3>4. ASSUME NEW j \in i + 1 .. n PROVE out'[j] = stream[out[k].id + (j - i)]
      <4>1. j + 1 \in k + 1 .. Len(out) /\ (j + 1) - k = j - i /\ j \in 1 .. n
        BY <1>3, <2>1
      <4>2. out[j + 1] = stream[out[k].id + ((j + 1) - k)]
        BY <3>1, <4>1 DEF Current
      <4> QED
        BY <1>3, <4>1, <4>2
    <3> QED
      BY <1>1, <1>3, <2>2, <3>1, <3>2, <3>3, <3>4 DEF Current
  <2>5. ASSUME refused', \A j \in 1 .. i - 1 : out'[j].type # "CLEAR"
        PROVE  out[k].qty < generation'
    <3>1. CASE refused /\ out[1].type # "CLEAR" /\ generation' = generation
      <4>1. ASSUME NEW j \in 1 .. k - 1 PROVE out[j].type # "CLEAR"
        <5>1. CASE j = 1
          BY <3>1, <5>1
        <5>2. CASE j # 1
          <6>1. j - 1 \in 1 .. i - 1 /\ j - 1 \in 1 .. n /\ (j - 1) + 1 = j
            BY <1>3, <2>1, <5>2
          <6> QED
            BY <1>3, <2>5, <6>1
        <5> QED
          BY <5>1, <5>2
      <4> QED
        BY <2>3, <3>1, <4>1 DEF Marker
    <3>2. CASE generation' = generation + 1
      <4>1. /\ out[k].qty \in 2 .. observed /\ observed \in 2 .. generation
            /\ generation \in 2 .. MaxGeneration
        BY <2>3 DEF Marker, QueueInv, Generations
      <4> QED
        BY <3>2, <4>1, MarketDataAssumption
    <3> QED
      BY <2>5, <3>1, <3>2
  <2>6. /\ out[k].id \in 0 .. published /\ out[k].qty \in 2 .. observed
        /\ rec.recovering => out[k].qty < observed
    BY <2>3 DEF Marker
  <2> QED
    BY <1>1, <2>2, <2>4, <2>5, <2>6 DEF Marker
<1>7. \A k : BookAt(k)' = BookAt(k)
  BY <1>1, SameBooks
<1>8. ScriptInv'
  <2>1. PICK B : Script(B)
    BY DEF QueueInv, ScriptInv
  <2>2. PICK A : A = [i \in 0 .. n |-> B[i + 1]]
    OBVIOUS
  <2>3. \A i \in 0 .. n : A[i] = B[i + 1]
    BY <2>2
  <2>4. ASSUME NEW i \in 0 .. n, Clean(i)' PROVE Clean(i + 1)
    <3>1. CASE ~refused'
      <4>1. 1 \in 1 .. i + 1
        BY <1>3
      <4> QED
        BY <3>1, <4>1 DEF Clean
    <3>2. CASE \E j \in 1 .. i : out'[j].type = "CLEAR"
      <4>1. PICK j \in 1 .. i : out'[j].type = "CLEAR"
        BY <3>2
      <4>2. j \in 1 .. n /\ j + 1 \in 1 .. i + 1
        BY <1>3
      <4> QED
        BY <1>3, <4>1, <4>2 DEF Clean
    <3> QED
      BY <2>4, <3>1, <3>2 DEF Clean
  <2>5. ASSUME NEW i \in 1 .. n, Clean(i)' PROVE Follows(A, i)'
    <3>1. PICK k \in 1 .. Len(out) : k = i + 1 /\ k - 1 = i
      BY <1>4
    <3>2. i \in 0 .. n /\ i - 1 \in 0 .. n /\ (i - 1) + 1 = i
      BY <1>3
    <3>3. Follows(B, k)
      BY <2>1, <2>4, <2>5, <3>1, <3>2 DEF Script
    <3>4. A[i] = B[k] /\ A[i - 1] = B[k - 1] /\ out'[i] = out[k]
      BY <1>3, <2>3, <3>1, <3>2
    <3> QED
      BY <1>7, <3>3, <3>4 DEF Follows
  <2>6. ASSUME ~refused' PROVE A[0] = local'
    <3>1. 0 \in 0 .. n /\ 0 + 1 = 1 /\ 1 \in 1 .. Len(out) /\ 1 - 1 = 0
      BY <1>3
    <3>2. Clean(1)
      BY <2>6, <3>1 DEF Clean
    <3>3. A[0] = B[1] /\ B[1] = Apply(B[0], out[1])
      BY <2>1, <2>3, <3>1, <3>2 DEF Script, Follows
    <3>4. CASE ~refused
      BY <2>1, <2>6, <3>3, <3>4 DEF Script
    <3>5. CASE out[1].type = "CLEAR"
      <4>1. Apply(B[0], out[1]) = <<>> /\ Apply(local, out[1]) = <<>>
        BY <3>5, ApplyDomain
      <4> QED
        BY <2>6, <3>3, <4>1
    <3> QED
      BY <2>6, <3>4, <3>5
  <2>7. ASSUME ~rec.recovering, Clean(n)' PROVE A[n] = BookAt(rec.expected - 1)
    <3>1. n \in 0 .. n
      BY <1>3
    <3>2. B[n + 1] = BookAt(rec.expected - 1)
      BY <1>3, <2>1, <2>4, <2>7, <3>1 DEF Script
    <3> QED
      BY <2>3, <3>1, <3>2
  <2>8. Script(A)'
    BY <1>1, <1>3, <1>7, <2>5, <2>6, <2>7 DEF Script
  <2> QED
    BY <2>8 DEF ScriptInv
<1> QED
  BY <1>5, <1>6, <1>8

\* The greater of two numbers.
LEMMA MaxPair ==
    ASSUME NEW a \in Nat, NEW b \in Nat
    PROVE  /\ Max({a, b}) \in Nat /\ Max({a, b}) \in {a, b} /\ Max({a, b}) >= a /\ Max({a, b}) >= b
<1>1. \E x \in {a, b} : \A y \in {a, b} : x >= y
  BY SMT
<1>2. Max({a, b}) \in {a, b} /\ \A y \in {a, b} : Max({a, b}) >= y
  BY <1>1 DEF Max
<1> QED
  BY <1>2
-------------------------------------------------------------------------------
(* The invariant.                                                            *)

Limits == cycles <= MaxCycle /\ faults \in 0 .. MaxFaults

NetInv ==
    /\ IsSeq(incNet) /\ \A i \in 1 .. Len(incNet) : incNet[i] \in 1 .. published
    /\ IsSeq(snapNet) /\ \A f \in InNet : FrameOK(f)

RecInv == RecOK(rec) /\ Ascending(rec)

CandidateInv ==
    candidate # NoBatch =>
       /\ rec.recovering
       /\ BatchOK(candidate.events, candidate.watermark, observed)
       /\ candidate.watermark >= bestSeq

\* Nothing the consumer may do next leads back behind bestSeq.
RegressInv ==
    IF rec.recovering THEN Reaches(rec, bestSeq) ELSE bestSeq < rec.expected

MarketDataInv ==
    Bounds /\ Limits /\ NetInv /\ RecInv /\ CandidateInv /\ RegressInv /\ QueueInv

\* Steps of the trading engine leave the rest alone.
LEMMA ExchangeSame ==
    ASSUME MarketDataInv, UNCHANGED <<exchangeVars, netVars, rec>>
    PROVE  Bounds' /\ Limits' /\ NetInv' /\ RecInv'
<1>1. /\ stream' = stream /\ published' = published /\ synced' = synced /\ cycles' = cycles
      /\ incNet' = incNet /\ snapNet' = snapNet /\ faults' = faults /\ rec' = rec
  BY DEF exchangeVars, netVars
<1>2. Bounds' /\ Limits'
  BY <1>1 DEF MarketDataInv, Bounds, Limits
<1>3. \A n : BookAt(n)' = BookAt(n)
  BY <1>1, SameBooks
<1>4. \A f : FrameOK(f)' <=> FrameOK(f)
  BY <1>1, <1>3 DEF FrameOK
<1>5. InNet' = InNet /\ Frames(rec)' = Frames(rec)
  BY <1>1 DEF InNet, Frames, InCache
<1>6. NetInv'
  BY <1>1, <1>4, <1>5 DEF MarketDataInv, NetInv
<1>7. RecInv'
  <2>1. RecOK(rec)'
    BY <1>1, <1>4 DEF MarketDataInv, RecInv, RecOK, Cached
  <2>2. Ascending(rec)'
    BY <1>5 DEF MarketDataInv, RecInv, Ascending
  <2> QED
    BY <2>1, <2>2 DEF RecInv
<1> QED
  BY <1>2, <1>6, <1>7

\* They push bestSeq only as far as a live consumer has come.
LEMMA RegressSame ==
    ASSUME MarketDataInv, UNCHANGED <<exchangeVars, netVars, rec, candidate, observed>>,
           bestSeq' = bestSeq \/ (~rec.recovering /\ bestSeq' < rec.expected)
    PROVE  CandidateInv' /\ RegressInv'
<1>1. /\ stream' = stream /\ published' = published /\ synced' = synced /\ cycles' = cycles
      /\ snapNet' = snapNet /\ rec' = rec /\ candidate' = candidate /\ observed' = observed
  BY DEF exchangeVars, netVars
<1>2. \A n : BookAt(n)' = BookAt(n)
  BY <1>1, SameBooks
<1>3. CandidateInv'
  <2> SUFFICES ASSUME candidate # NoBatch PROVE CandidateInv'
    BY <1>1 DEF CandidateInv
  <2>1. /\ rec.recovering /\ BatchOK(candidate.events, candidate.watermark, observed)
        /\ candidate.watermark >= bestSeq /\ bestSeq' = bestSeq
    BY DEF MarketDataInv, CandidateInv
  <2>2. BatchOK(candidate.events, candidate.watermark, observed)'
    BY <1>1, <1>2, <2>1 DEF BatchOK, BatchBooks, Orders
  <2> QED
    BY <1>1, <2>1, <2>2 DEF CandidateInv
<1>4. RegressInv'
  <2>1. CASE bestSeq' = bestSeq
    <3>1. Reaches(rec, bestSeq)' <=> Reaches(rec, bestSeq)
      BY <1>1, <2>1 DEF Reaches, Frames, InNet, InCache
    <3> QED
      BY <1>1, <2>1, <3>1 DEF MarketDataInv, RegressInv
  <2>2. CASE ~rec.recovering /\ bestSeq' < rec.expected
    BY <1>1, <2>2 DEF RegressInv
  <2> QED
    BY <2>1, <2>2
<1> QED
  BY <1>3, <1>4

\* What a trusted book is about to see.
LEMMA TrustedNext ==
    ASSUME MarketDataInv, Ready
    PROVE  /\ ~rec.recovering
           /\ \A j \in 1 .. Len(out) :
                 /\ localSeq + j \in 1 .. published /\ localSeq + j < rec.expected
                 /\ out[j] = stream[localSeq + j]
                 /\ out[j].type \in UpdateTypes
           /\ out # <<>> => BookAt(localSeq + 1) = Apply(local, out[1])
<1>1. /\ ~rec.recovering /\ localSeq \in 0 .. published /\ local = BookAt(localSeq)
      /\ rec.expected = localSeq + Len(out) + 1
      /\ \A j \in 1 .. Len(out) : out[j] = stream[localSeq + j]
  BY DEF MarketDataInv, QueueInv, Trusted
<1>2. /\ rec.expected \in 1 .. published + 1 /\ published \in 0 .. Len(stream) /\ Len(stream) \in Nat
      /\ stream \in Streams /\ Len(out) \in Nat
  BY StreamFacts, SeqAppend DEF MarketDataInv, RecInv, RecOK, Bounds, QueueInv, Queued
<1>3. ASSUME NEW j \in 1 .. Len(out)
      PROVE  localSeq + j \in 1 .. published /\ localSeq + j < rec.expected /\ localSeq + j \in 1 .. Len(stream)
  BY <1>1, <1>2
<1>4. ASSUME NEW j \in 1 .. Len(out) PROVE out[j].type \in UpdateTypes
  BY <1>1, <1>2, <1>3, StreamFacts
<1>5. ASSUME out # <<>> PROVE BookAt(localSeq + 1) = Apply(local, out[1])
  <2>1. 1 \in 1 .. Len(out)
    BY <1>2, <1>5, SeqTail DEF MarketDataInv, QueueInv, Queued
  <2>2. localSeq \in 0 .. Len(stream) - 1
    BY <1>1, <1>2, <1>3, <2>1
  <2> QED
    BY <1>1, <1>2, <2>1, <2>2, StreamFacts
<1> QED
  BY <1>1, <1>3, <1>4, <1>5

LEMMA EngineUpdateOK ==
    ASSUME MarketDataInv, EngineUpdate
    PROVE  MarketDataInv'
<1>1. PICK e : e = out[1]
  OBVIOUS
<1>2. PICK n : n = Len(out)
  OBVIOUS
<1>3. /\ out # <<>> /\ out' = Tail(out) /\ n \in Nat /\ n >= 1 /\ Head(out) = e /\ e.type # "COMMIT"
      /\ Len(out') = n - 1 /\ \A i \in 1 .. n - 1 : out'[i] = out[i + 1]
  BY <1>1, <1>2, SeqTail DEF EngineUpdate, MarketDataInv, QueueInv, Queued
<1>4. /\ UNCHANGED <<exchangeVars, netVars, rec, candidate, observed>>
      /\ stream' = stream /\ published' = published /\ rec' = rec /\ observed' = observed
      /\ applied' = applied /\ epc' = epc
  BY DEF EngineUpdate, consumerVars, exchangeVars
<1>5. PICK seq : seq = IF e.type = "CLEAR" THEN 0 ELSE localSeq + 1
  OBVIOUS
<1>6. \/ /\ Applies(local, e)
         /\ local' = Apply(local, e) /\ localSeq' = seq
         /\ refused' = (refused /\ e.type # "CLEAR")
         /\ bestSeq' = (IF Ready THEN Max({bestSeq, seq}) ELSE bestSeq)
         /\ generation' = generation
      \/ /\ generation < MaxGeneration /\ generation' = generation + 1
         /\ refused' = TRUE /\ local' = local /\ localSeq' = localSeq /\ bestSeq' = bestSeq
  <2>1. PICK fits : fits = (e.type # "ADD" \/ Cardinality(DOMAIN local) < LocalOrders)
    OBVIOUS
  <2>2. \/ /\ Applies(local, e) /\ fits
           /\ local' = Apply(local, e) /\ localSeq' = seq
           /\ refused' = (refused /\ e.type # "CLEAR")
           /\ bestSeq' = (IF Ready THEN Max({bestSeq, seq}) ELSE bestSeq)
           /\ UNCHANGED generation
        \/ /\ ~(Applies(local, e) /\ fits)
           /\ generation < MaxGeneration /\ generation' = generation + 1
           /\ refused' = TRUE
           /\ UNCHANGED <<local, localSeq, bestSeq>>
    BY <1>3, <1>5, <2>1 DEF EngineUpdate
  <2> QED
    BY <2>2
<1>7. /\ generation \in 2 .. MaxGeneration /\ observed \in 2 .. generation /\ MaxGeneration \in Nat
      /\ applied \in {0} \cup 2 .. observed /\ (rec.recovering => applied < observed)
      /\ localSeq \in Nat /\ bestSeq \in Nat /\ refused \in BOOLEAN /\ seq \in Nat
      /\ DOMAIN local \subseteq Orders /\ epc \in {"check", "store"}
  BY <1>5, MarketDataAssumption DEF MarketDataInv, QueueInv, Generations, EngineTypes
<1>8. epc = "check"
  BY <1>1, <1>3, <1>7 DEF MarketDataInv, QueueInv, Stored
<1>9. Generations'
  BY <1>4, <1>6, <1>7 DEF Generations
<1>10. bestSeq' \in Nat /\ localSeq' \in Nat /\ refused' \in BOOLEAN
  BY <1>6, <1>7, MaxPair
<1>11. DOMAIN local' \subseteq Orders
  <2>1. CASE Applies(local, e) /\ local' = Apply(local, e)
    <3>1. e.type \in {"CLEAR", "TRADE", "ADD", "MODIFY", "CANCEL"}
      BY <2>1 DEF Applies
    <3>2. e.type = "ADD" => e.id \in Orders
      <4>1. 1 \in 1 .. Len(out)
        BY <1>2, <1>3
      <4> QED
        BY <1>1, <4>1 DEF MarketDataInv, QueueInv, Queued
    <3>3. e.type = "MODIFY" => e.id \in DOMAIN local
      BY <2>1 DEF Applies
    <3> QED
      <4>1. CASE e.type \in {"ADD", "MODIFY"}
        <5>1. DOMAIN Apply(local, e) = DOMAIN local \cup {e.id}
          BY <4>1, ApplyDomain
        <5>2. e.id \in Orders
          BY <1>7, <3>2, <3>3, <4>1
        <5> QED
          BY <1>7, <2>1, <5>1, <5>2
      <4>2. CASE e.type \in {"CLEAR", "TRADE", "CANCEL"}
        <5>1. DOMAIN Apply(local, e) \subseteq DOMAIN local
          BY <4>2, ApplyDomain
        <5> QED
          BY <1>7, <2>1, <5>1
      <4> QED
        BY <3>1, <4>1, <4>2
  <2> QED
    BY <1>6, <1>7, <2>1
<1>12. EngineTypes' /\ Stored'
  <2>1. Orders' = Orders
    BY DEF Orders
  <2> QED
    BY <1>4, <1>8, <1>10, <1>11, <2>1 DEF EngineTypes, Stored
<1>13. ASSUME NEW i \in 2 .. Len(out), out[i].type = "COMMIT", out[i].qty = observed
       PROVE  bestSeq' <= out[i].id
  <2>1. i \in 1 .. Len(out)
    BY <1>2, <1>3
  <2>2. ~Ready
    BY <1>13, <2>1, TrustedNext DEF UpdateTypes
  <2>3. bestSeq' = bestSeq
    BY <1>6, <2>2
  <2> QED
    BY <1>13, <2>1, <2>3 DEF MarketDataInv, QueueInv, Markers, Marker, Current
<1>14. Queued' /\ Markers' /\ ScriptInv'
  <2>1. refused' => \/ refused /\ out[1].type # "CLEAR" /\ generation' = generation
                    \/ generation' = generation + 1
    BY <1>1, <1>6
  <2>2. ~refused' => (~refused \/ out[1].type = "CLEAR") /\ local' = Apply(local, out[1])
    BY <1>1, <1>6
  <2>3. generation' \in Nat /\ UNCHANGED <<stream, published, rec, observed>>
    BY <1>4, <1>6, <1>7
  <2>4. Bounds /\ RecOK(rec) /\ QueueInv
    BY DEF MarketDataInv, RecInv
  <2> QED
    BY <1>3, <1>13, <2>1, <2>2, <2>3, <2>4, QueueShift
<1>15. CASE Ready /\ generation' = generation
  <2>1. /\ Applies(local, e) /\ local' = Apply(local, e) /\ localSeq' = seq
        /\ bestSeq' = Max({bestSeq, seq})
    BY <1>6, <1>7, <1>15
  <2>2. /\ ~rec.recovering
        /\ \A j \in 1 .. n : /\ localSeq + j \in 1 .. published /\ localSeq + j < rec.expected
                             /\ out[j] = stream[localSeq + j] /\ out[j].type \in UpdateTypes
        /\ BookAt(localSeq + 1) = Apply(local, e)
        /\ rec.expected = localSeq + n + 1 /\ bestSeq <= localSeq
    BY <1>1, <1>2, <1>3, <1>15, TrustedNext DEF MarketDataInv, QueueInv, Trusted
  <2>3. /\ 1 \in 1 .. n /\ e.type # "CLEAR" /\ seq = localSeq + 1 /\ seq \in 0 .. published
        /\ seq < rec.expected
    <3>1. 1 \in 1 .. n
      BY <1>3
    <3>2. e.type # "CLEAR"
      BY <1>1, <2>2, <3>1 DEF UpdateTypes
    <3>3. seq = localSeq + 1
      BY <1>5, <3>2
    <3> QED
      BY <1>7, <2>2, <3>1, <3>2, <3>3
  <2>4. bestSeq' <= seq /\ bestSeq' < rec.expected
    <3>1. bestSeq' \in {bestSeq, seq}
      BY <1>7, <2>1, MaxPair
    <3>2. bestSeq' <= seq
      BY <1>7, <2>2, <2>3, <3>1
    <3>3. rec.expected \in Nat
      BY <1>3, <1>7, <2>2
    <3> QED
      BY <1>7, <1>10, <2>3, <3>2, <3>3
  <2>5. Trusted'
    <3>1. rec'.expected = localSeq' + Len(out') + 1
      <4>1. localSeq + n + 1 = (localSeq + 1) + (n - 1) + 1
        BY <1>3, <1>7
      <4>2. localSeq' = localSeq + 1 /\ Len(out') = n - 1 /\ rec'.expected = localSeq + n + 1
        BY <1>3, <1>4, <2>1, <2>2, <2>3
      <4> QED
        BY <4>1, <4>2
    <3>2. ASSUME NEW j \in 1 .. n - 1 PROVE out'[j] = stream[seq + j]
      <4>1. j + 1 \in 1 .. n /\ localSeq + (j + 1) = seq + j
        BY <1>3, <1>7, <2>3
      <4>2. out[j + 1] = stream[localSeq + (j + 1)]
        BY <2>2, <4>1
      <4> QED
        BY <1>3, <4>1, <4>2
    <3>3. local' = BookAt(localSeq)'
      BY <1>4, <2>1, <2>2, <2>3, SameBooks DEF BookAt
    <3> QED
      BY <1>3, <1>4, <2>1, <2>2, <2>3, <2>4, <3>1, <3>2, <3>3 DEF Trusted
  <2>6. CandidateInv' /\ RegressInv'
    BY <1>4, <2>2, <2>4, RegressSame
  <2> QED
    BY <1>4, <1>9, <1>12, <1>14, <2>5, <2>6, ExchangeSame DEF MarketDataInv, QueueInv
<1>16. CASE ~Ready \/ generation' # generation
  <2>1. bestSeq' = bestSeq
    BY <1>6, <1>16
  <2>2. applied' # generation'
    BY <1>4, <1>6, <1>7, <1>16 DEF Ready
  <2>3. Trusted'
    BY <2>2 DEF Trusted, Ready
  <2>4. CandidateInv' /\ RegressInv'
    BY <1>4, <2>1, RegressSame
  <2> QED
    BY <1>4, <1>9, <1>12, <1>14, <2>3, <2>4, ExchangeSame DEF MarketDataInv, QueueInv
<1> QED
  BY <1>15, <1>16

\* A marker at the head of the queue.
LEMMA MarkerAhead ==
    ASSUME MarketDataInv, out # <<>>, out[1].type = "COMMIT"
    PROVE  /\ ~Ready /\ Len(out) \in Nat /\ 1 \in 1 .. Len(out) /\ Marker(1)
           /\ Apply(local, out[1]) = local
           /\ \A i \in 2 .. Len(out) :
                 out[i].type = "COMMIT" /\ out[i].qty = observed => bestSeq <= out[i].id
<1>1. Len(out) \in Nat /\ 1 \in 1 .. Len(out) /\ \A i \in 2 .. Len(out) : i \in 1 .. Len(out)
  BY SeqTail DEF MarketDataInv, QueueInv, Queued
<1>2. ~Ready
  BY <1>1, TrustedNext DEF UpdateTypes
<1>3. Markers
  BY DEF MarketDataInv, QueueInv
<1>4. Apply(local, out[1]) = local
  BY ApplyDomain
<1>5. \A i \in 2 .. Len(out) :
         out[i].type = "COMMIT" /\ out[i].qty = observed => bestSeq <= out[i].id
  BY <1>1, <1>3 DEF Markers, Marker, Current
<1> QED
  BY <1>1, <1>2, <1>3, <1>4, <1>5 DEF Markers

LEMMA EngineCheckMarkerOK ==
    ASSUME MarketDataInv, EngineCheckMarker
    PROVE  MarketDataInv'
<1>1. /\ out # <<>> /\ Head(out) = out[1] /\ out[1].type = "COMMIT" /\ localSeq' = out[1].id
  BY SeqTail DEF EngineCheckMarker, MarketDataInv, QueueInv, Queued
<1>2. /\ UNCHANGED <<exchangeVars, netVars, rec, candidate, observed>>
      /\ stream' = stream /\ published' = published /\ rec' = rec /\ observed' = observed
      /\ generation' = generation /\ applied' = applied /\ local' = local /\ refused' = refused
      /\ bestSeq' = bestSeq
  BY DEF EngineCheckMarker, consumerVars, exchangeVars
<1>3. /\ ~Ready /\ Len(out) \in Nat /\ 1 \in 1 .. Len(out) /\ Marker(1) /\ Apply(local, out[1]) = local
      /\ \A i \in 2 .. Len(out) :
            out[i].type = "COMMIT" /\ out[i].qty = observed => bestSeq <= out[i].id
  BY <1>1, MarkerAhead
<1>4. Bounds' /\ Limits' /\ NetInv' /\ RecInv' /\ CandidateInv' /\ RegressInv'
  BY <1>2, ExchangeSame, RegressSame
<1>5. Generations' /\ Trusted'
  BY <1>2, <1>3 DEF MarketDataInv, QueueInv, Generations, Trusted, Ready
<1>6. localSeq' \in Nat
  BY <1>1, <1>3, StreamFacts DEF MarketDataInv, Bounds, Marker
<1>7. CASE epc' = "store" /\ out' = out
  <2>1. EngineTypes' /\ Queued' /\ Stored'
    BY <1>1, <1>2, <1>6, <1>7 DEF MarketDataInv, QueueInv, EngineTypes, Queued, Stored, Orders
  <2>2. Markers'
    BY <1>2, <1>7 DEF MarketDataInv, QueueInv, Markers, Marker, Current
  <2>3. ScriptInv'
    <3>1. PICK B : Script(B)
      BY DEF MarketDataInv, QueueInv, ScriptInv
    <3>2. \A k : BookAt(k)' = BookAt(k)
      BY <1>2, SameBooks
    <3>3. Script(B)'
      BY <1>2, <1>7, <3>1, <3>2 DEF Script, Clean, Follows
    <3> QED
      BY <3>3 DEF ScriptInv
  <2> QED
    BY <1>4, <1>5, <2>1, <2>2, <2>3 DEF MarketDataInv, QueueInv
<1>8. CASE epc' = epc /\ out' = Tail(out)
  <2>1. epc' = "check"
    BY <1>8 DEF EngineCheckMarker
  <2>2. EngineTypes' /\ Stored'
    BY <1>2, <1>6, <2>1 DEF MarketDataInv, QueueInv, EngineTypes, Stored, Orders
  <2>3. Queued' /\ Markers' /\ ScriptInv'
    <3>1. generation' \in Nat /\ UNCHANGED <<stream, published, rec, observed>>
      BY <1>2, MarketDataAssumption DEF MarketDataInv, QueueInv, Generations
    <3>2. Bounds /\ RecOK(rec) /\ QueueInv
      BY DEF MarketDataInv, RecInv
    <3>3. refused' => refused /\ out[1].type # "CLEAR" /\ generation' = generation
      BY <1>1, <1>2
    <3>4. ~refused' => ~refused /\ local' = Apply(local, out[1])
      BY <1>2, <1>3
    <3> QED
      BY <1>1, <1>2, <1>3, <1>8, <3>1, <3>2, <3>3, <3>4, QueueShift
  <2> QED
    BY <1>4, <1>5, <2>2, <2>3 DEF MarketDataInv, QueueInv
<1> QED
  BY <1>7, <1>8 DEF EngineCheckMarker

LEMMA EngineStoreMarkerOK ==
    ASSUME MarketDataInv, EngineStoreMarker
    PROVE  MarketDataInv'
<1>1. /\ out # <<>> /\ out[1].type = "COMMIT" /\ localSeq = out[1].id
  BY DEF EngineStoreMarker, MarketDataInv, QueueInv, Stored
<1>2. PICK n : n = Len(out)
  OBVIOUS
<1>3. /\ Head(out) = out[1] /\ n \in Nat /\ n >= 1 /\ out' = Tail(out)
      /\ Len(out') = n - 1 /\ \A i \in 1 .. n - 1 : out'[i] = out[i + 1]
  BY <1>1, <1>2, SeqTail DEF EngineStoreMarker, MarketDataInv, QueueInv, Queued
<1>4. /\ UNCHANGED <<exchangeVars, netVars, rec, candidate, observed>>
      /\ stream' = stream /\ published' = published /\ rec' = rec /\ observed' = observed
      /\ generation' = generation /\ local' = local /\ localSeq' = localSeq /\ refused' = refused
      /\ epc' = "check"
  BY DEF EngineStoreMarker, consumerVars, exchangeVars
<1>5. PICK q : q = out[1].qty
  OBVIOUS
<1>6. /\ applied' = q
      /\ bestSeq' = IF q = generation THEN Max({bestSeq, localSeq}) ELSE bestSeq
  BY <1>3, <1>5 DEF EngineStoreMarker
<1>7. /\ ~Ready /\ 1 \in 1 .. n /\ Marker(1) /\ Apply(local, out[1]) = local
      /\ \A i \in 2 .. n :
            out[i].type = "COMMIT" /\ out[i].qty = observed => bestSeq <= out[i].id
  BY <1>1, <1>2, MarkerAhead
<1>8. /\ generation \in 2 .. MaxGeneration /\ observed \in 2 .. generation /\ MaxGeneration \in Nat
      /\ localSeq \in Nat /\ bestSeq \in Nat /\ refused \in BOOLEAN /\ DOMAIN local \subseteq Orders
  BY MarketDataAssumption DEF MarketDataInv, QueueInv, Generations, EngineTypes
<1>9. /\ localSeq \in 0 .. published /\ q \in 2 .. observed /\ (rec.recovering => q < observed)
  BY <1>1, <1>5, <1>7 DEF Marker
<1>10. Generations'
  BY <1>4, <1>6, <1>8, <1>9 DEF Generations
<1>11. EngineTypes' /\ Stored'
  <2>1. bestSeq' \in Nat
    BY <1>6, <1>8, MaxPair
  <2>2. Orders' = Orders
    BY DEF Orders
  <2> QED
    BY <1>4, <1>8, <2>1, <2>2 DEF EngineTypes, Stored
<1>12. ASSUME \A i \in 2 .. n : out[i].type = "COMMIT" /\ out[i].qty = observed => bestSeq' <= out[i].id
       PROVE  Queued' /\ Markers' /\ ScriptInv'
  <2>1. generation' \in Nat /\ UNCHANGED <<stream, published, rec, observed>>
    BY <1>4, <1>8
  <2>2. Bounds /\ RecOK(rec) /\ QueueInv
    BY DEF MarketDataInv, RecInv
  <2>3. refused' => refused /\ out[1].type # "CLEAR" /\ generation' = generation
    BY <1>1, <1>4
  <2>4. ~refused' => ~refused /\ local' = Apply(local, out[1])
    BY <1>4, <1>7
  <2> QED
    BY <1>1, <1>2, <1>3, <1>12, <2>1, <2>2, <2>3, <2>4, QueueShift
<1>13. CASE q = generation
  <2>1. observed = generation /\ q = observed /\ ~rec.recovering
    BY <1>8, <1>9, <1>13
  <2>2. Current(1)
    BY <1>5, <1>7, <2>1 DEF Marker
  <2>3. /\ bestSeq <= localSeq /\ rec.expected = localSeq + (n - 1) + 1
        /\ \A j \in 2 .. n : out[j] = stream[localSeq + (j - 1)]
    <3>1. 1 + 1 = 2
      OBVIOUS
    <3> QED
      BY <1>1, <1>2, <2>2, <3>1 DEF Current
  <2>4. ~refused
    <3>1. \A j \in 1 .. 1 - 1 : out[j].type # "CLEAR"
      OBVIOUS
    <3> QED
      BY <1>5, <1>7, <1>8, <1>9, <1>13, <3>1 DEF Marker
  <2>5. local = BookAt(localSeq)
    <3>1. PICK B : Script(B)
      BY DEF MarketDataInv, QueueInv, ScriptInv
    <3>2. B[0] = local /\ Follows(B, 1) /\ 1 - 1 = 0
      BY <1>2, <1>7, <2>4, <3>1 DEF Script, Clean
    <3> QED
      BY <1>1, <3>2 DEF Follows
  <2>6. bestSeq' <= localSeq /\ bestSeq' < rec.expected
    <3>1. bestSeq' \in {bestSeq, localSeq}
      BY <1>6, <1>8, <1>13, MaxPair
    <3>2. bestSeq' <= localSeq /\ bestSeq' \in Nat
      BY <1>8, <2>3, <3>1
    <3>3. localSeq < rec.expected /\ rec.expected \in Nat
      BY <1>3, <1>8, <2>3
    <3> QED
      BY <1>8, <3>2, <3>3
  <2>7. \A i \in 2 .. n : out[i].type # "COMMIT"
    <3> SUFFICES ASSUME NEW i \in 2 .. n PROVE out[i].type # "COMMIT"
      OBVIOUS
    <3>1. /\ rec.expected \in 1 .. published + 1 /\ published \in 0 .. Len(stream) /\ Len(stream) \in Nat
          /\ stream \in Streams
      BY StreamFacts DEF MarketDataInv, RecInv, RecOK, Bounds
    <3>2. localSeq + (i - 1) \in 1 .. Len(stream)
      BY <1>3, <1>8, <2>3, <3>1
    <3> QED
      BY <2>3, <3>1, <3>2, StreamFacts DEF UpdateTypes
  <2>8. Trusted'
    <3>1. rec'.expected = localSeq' + Len(out') + 1
      BY <1>3, <1>4, <2>3
    <3>2. ASSUME NEW j \in 1 .. n - 1 PROVE out'[j] = stream[localSeq + j]
      <4>1. j + 1 \in 2 .. n /\ (j + 1) - 1 = j
        BY <1>3
      <4> QED
        BY <1>3, <2>3, <4>1
    <3>3. local' = BookAt(localSeq)'
      BY <1>4, <2>5 DEF BookAt
    <3> QED
      BY <1>3, <1>4, <1>9, <2>1, <2>6, <3>1, <3>2, <3>3 DEF Trusted
  <2>9. CandidateInv' /\ RegressInv'
    BY <1>4, <2>1, <2>6, RegressSame
  <2> QED
    BY <1>4, <1>10, <1>11, <1>12, <2>7, <2>8, <2>9, ExchangeSame DEF MarketDataInv, QueueInv
<1>14. CASE q # generation
  <2>1. bestSeq' = bestSeq
    BY <1>6, <1>14
  <2>2. Trusted'
    BY <1>4, <1>6, <1>14 DEF Trusted, Ready
  <2>3. CandidateInv' /\ RegressInv'
    BY <1>4, <2>1, RegressSame
  <2> QED
    BY <1>4, <1>7, <1>10, <1>11, <1>12, <2>1, <2>2, <2>3, ExchangeSame DEF MarketDataInv, QueueInv
<1> QED
  BY <1>13, <1>14
-------------------------------------------------------------------------------
(* The exchange and the network.                                              *)

\* f is g, but perhaps for the event in it.
Like(f, g) ==
    f.seq = g.seq /\ f.cycle = g.cycle /\ f.watermark = g.watermark /\ f.hash = g.hash

\* f belongs to a snapshot that has just been published.
Fresh(f) ==
    /\ f.seq \in Nat /\ f.cycle = cycles + 1 /\ f.cycle = cycles' /\ f.watermark = synced
    /\ f.hash = BookAt(synced)

LEMMA NetworkStep ==
    ASSUME MarketDataInv, stream' = stream, published' \in published .. Len(stream),
           synced' \in synced .. published', cycles' \in cycles .. MaxCycle,
           faults' \in 0 .. MaxFaults,
           UNCHANGED <<rec, candidate, observed, engineVars, out, generation, bestSeq>>,
           IsSeq(incNet'), \A i \in 1 .. Len(incNet') : incNet'[i] \in 1 .. published',
           IsSeq(snapNet'), \A f \in InNet' : Fresh(f) \/ \E g \in InNet : Like(f, g)
    PROVE  MarketDataInv'
<1>1. /\ Len(stream) \in Nat /\ published \in Nat /\ synced \in Nat /\ cycles \in Nat
      /\ published <= Len(stream) /\ synced <= published /\ stream \in Streams
      /\ published' \in Nat /\ synced' \in Nat /\ cycles' \in Nat /\ MaxCycle \in Nat
      /\ published <= published' /\ synced <= synced' /\ cycles <= cycles' /\ synced' <= published'
      /\ cycles' <= MaxCycle
  BY StreamFacts, MarketDataAssumption DEF MarketDataInv, Bounds
<1>2. rec' = rec /\ candidate' = candidate /\ observed' = observed /\ bestSeq' = bestSeq
  OBVIOUS
<1>3. Bounds' /\ Limits'
  BY <1>1 DEF Bounds, Limits
<1>4. \A n : BookAt(n)' = BookAt(n)
  BY SameBooks
<1>5. \A f : FrameOK(f) => FrameOK(f)'
  BY <1>1, <1>4 DEF FrameOK
<1>6. \A f : Fresh(f) => FrameOK(f)'
  BY <1>1, <1>4 DEF FrameOK, Fresh
<1>7. \A f, g : FrameOK(g) /\ Like(f, g) => FrameOK(f)
  BY DEF FrameOK, Like
<1>8. (\A f \in InNet : FrameOK(f)) /\ \A f \in Frames(rec) : FrameOK(f)
  BY DEF MarketDataInv, NetInv, RecInv, RecOK, Frames, InCache
<1>9. \A f \in Frames(rec)' : Fresh(f) \/ \E g \in Frames(rec) : Like(f, g)
  <2> SUFFICES ASSUME NEW f \in Frames(rec)', ~Fresh(f) PROVE \E g \in Frames(rec) : Like(f, g)
    OBVIOUS
  <2>1. f \in InNet' \/ f \in InCache(rec)
    BY <1>2 DEF Frames, InCache
  <2>2. CASE f \in InNet'
    BY <2>2 DEF Frames
  <2>3. CASE f \in InCache(rec)
    BY <2>3 DEF Frames, Like
  <2> QED
    BY <2>1, <2>2, <2>3
<1>10. NetInv'
  BY <1>5, <1>6, <1>7, <1>8 DEF NetInv
<1>11. RecInv'
  <2>1. RecOK(rec)'
    <3>1. rec.cycle \in 0 .. cycles' /\ rec.expected \in 1 .. published' + 1
      <4>1. rec.cycle \in 0 .. cycles /\ rec.expected \in 1 .. published + 1
        BY DEF MarketDataInv, RecInv, RecOK
      <4> QED
        BY <1>1, <4>1
    <3>2. 1 .. published \subseteq 1 .. published'
      BY <1>1
    <3> QED
      BY <1>2, <1>5, <3>1, <3>2 DEF MarketDataInv, RecInv, RecOK, Cached
  <2>2. ASSUME NEW f \in Frames(rec)', NEW g \in Frames(rec)', f.cycle <= g.cycle
        PROVE  f.watermark <= g.watermark
    <3>1. CASE Fresh(f) /\ Fresh(g)
      BY <1>1, <3>1 DEF Fresh
    <3>2. CASE Fresh(f) /\ \E h \in Frames(rec) : Like(g, h)
      <4>1. PICK h \in Frames(rec) : Like(g, h)
        BY <3>2
      <4>2. g.cycle \in 1 .. cycles
        BY <1>8, <4>1 DEF FrameOK, Like
      <4>3. f.cycle = cycles + 1
        BY <3>2 DEF Fresh
      <4> QED
        BY <1>1, <2>2, <4>2, <4>3
    <3>3. CASE (\E h \in Frames(rec) : Like(f, h)) /\ Fresh(g)
      BY <1>1, <1>8, <3>3 DEF Fresh, Like, FrameOK
    <3>4. CASE (\E h \in Frames(rec) : Like(f, h)) /\ \E h \in Frames(rec) : Like(g, h)
      <4>1. PICK p \in Frames(rec), q \in Frames(rec) : Like(f, p) /\ Like(g, q)
        BY <3>4
      <4>2. p.cycle <= q.cycle
        BY <2>2, <4>1 DEF Like
      <4>3. p.watermark <= q.watermark
        BY <4>2 DEF MarketDataInv, RecInv, Ascending
      <4> QED
        BY <4>1, <4>3 DEF Like
    <3> QED
      BY <1>9, <3>1, <3>2, <3>3, <3>4
  <2>3. Ascending(rec)'
    BY <2>2 DEF Ascending
  <2> QED
    BY <2>1, <2>3 DEF RecInv
<1>12. CandidateInv'
  <2> SUFFICES ASSUME candidate # NoBatch PROVE CandidateInv'
    BY <1>2 DEF CandidateInv
  <2>1. /\ rec.recovering /\ BatchOK(candidate.events, candidate.watermark, observed)
        /\ candidate.watermark >= bestSeq
    BY DEF MarketDataInv, CandidateInv
  <2>2. candidate.watermark \in 0 .. published'
    BY <1>1, <2>1 DEF BatchOK
  <2>3. BatchOK(candidate.events, candidate.watermark, observed)'
    BY <1>2, <1>4, <2>1, <2>2 DEF BatchOK, BatchBooks, Orders
  <2> QED
    BY <1>2, <2>1, <2>3 DEF CandidateInv
<1>13. RegressInv'
  <2>1. CASE rec.recovering
    <3>1. Reaches(rec, bestSeq)
      BY <2>1 DEF MarketDataInv, RegressInv
    <3>2. CASE bestSeq = 0 \/ \E s \in DOMAIN rec.inc : s >= bestSeq
      BY <1>2, <2>1, <3>2 DEF RegressInv, Reaches
    <3>3. CASE bestSeq <= synced /\ \A f \in Frames(rec) : f.cycle >= rec.cycle => f.watermark >= bestSeq
      <4>1. bestSeq \in Nat /\ bestSeq <= synced'
        BY <1>1, <3>3 DEF MarketDataInv, QueueInv, EngineTypes
      <4>2. ASSUME NEW f \in Frames(rec)', f.cycle >= rec.cycle PROVE f.watermark >= bestSeq
        <5>1. CASE Fresh(f)
          BY <1>1, <3>3, <4>1, <5>1 DEF Fresh
        <5>2. CASE \E g \in Frames(rec) : Like(f, g)
          BY <3>3, <4>2, <5>2 DEF Like
        <5> QED
          BY <1>9, <5>1, <5>2
      <4>3. Reaches(rec, bestSeq)'
        BY <1>2, <4>1, <4>2 DEF Reaches
      <4> QED
        BY <1>2, <2>1, <4>3 DEF RegressInv
    <3> QED
      BY <3>1, <3>2, <3>3 DEF Reaches
  <2>2. CASE ~rec.recovering
    BY <1>2, <2>2 DEF MarketDataInv, RegressInv
  <2> QED
    BY <2>1, <2>2
<1>14. QueueInv'
  BY <1>1, QueueSame DEF MarketDataInv, RecInv
<1> QED
  BY <1>3, <1>10, <1>11, <1>12, <1>13, <1>14 DEF MarketDataInv

LEMMA PublishIncrementalOK ==
    ASSUME MarketDataInv, PublishIncremental
    PROVE  MarketDataInv'
<1>1. /\ published < Len(stream) /\ published' = published + 1 /\ incNet' = Append(incNet, published + 1)
      /\ UNCHANGED <<stream, synced, cycles, snapNet, faults, consumerVars, engineVars,
                     out, generation, bestSeq>>
  BY DEF PublishIncremental
<1>2. /\ Len(stream) \in Nat /\ published \in 0 .. Len(stream) /\ synced \in 0 .. published
      /\ cycles \in Nat /\ cycles <= MaxCycle /\ faults \in 0 .. MaxFaults /\ MaxCycle \in Nat
  BY StreamFacts, MarketDataAssumption DEF MarketDataInv, Bounds, Limits
<1>3. /\ published' \in published .. Len(stream) /\ synced' \in synced .. published'
      /\ cycles' \in cycles .. MaxCycle /\ faults' \in 0 .. MaxFaults
  BY <1>1, <1>2
<1>4. IsSeq(incNet') /\ \A i \in 1 .. Len(incNet') : incNet'[i] \in 1 .. published'
  <2>1. PICK s : s = incNet
    OBVIOUS
  <2>2. IsSeq(s) /\ \A i \in 1 .. Len(s) : s[i] \in 1 .. published
    BY <2>1 DEF MarketDataInv, NetInv
  <2>3. /\ IsSeq(incNet') /\ Len(s) \in Nat /\ Len(incNet') = Len(s) + 1
        /\ \A i \in 1 .. Len(s) : incNet'[i] = s[i]
        /\ incNet'[Len(s) + 1] = published + 1
    BY <1>1, <2>1, <2>2, SeqAppend
  <2>4. ASSUME NEW i \in 1 .. Len(s) + 1 PROVE incNet'[i] \in 1 .. published'
    <3>1. CASE i = Len(s) + 1
      BY <1>1, <1>2, <2>3, <3>1
    <3>2. CASE i # Len(s) + 1
      <4>1. i \in 1 .. Len(s)
        BY <2>3, <3>2
      <4>2. incNet'[i] \in 1 .. published
        BY <2>2, <2>3, <4>1
      <4>3. 1 .. published \subseteq 1 .. published'
        BY <1>1, <1>2
      <4> QED
        BY <4>2, <4>3
    <3> QED
      BY <3>1, <3>2
  <2> QED
    BY <2>3, <2>4
<1>5. IsSeq(snapNet') /\ \A f \in InNet' : \E g \in InNet : Like(f, g)
  BY <1>1 DEF MarketDataInv, NetInv, InNet, Like
<1>6. UNCHANGED <<rec, candidate, observed, engineVars, out, generation, bestSeq>> /\ stream' = stream
  BY <1>1 DEF consumerVars
<1> QED
  BY <1>3, <1>4, <1>5, <1>6, NetworkStep

LEMMA SynchronizeOK ==
    ASSUME MarketDataInv, Synchronize
    PROVE  MarketDataInv'
<1>1. /\ synced < published /\ synced' = synced + 1 /\ incNet' = incNet /\ snapNet' = snapNet
      /\ UNCHANGED <<stream, published, cycles, faults, rec, candidate, observed, engineVars, out,
                     generation, bestSeq>>
  BY DEF Synchronize, netVars, consumerVars
<1>2. /\ Len(stream) \in Nat /\ published \in 0 .. Len(stream) /\ synced \in 0 .. published
      /\ cycles \in Nat /\ cycles <= MaxCycle /\ faults \in 0 .. MaxFaults /\ MaxCycle \in Nat
  BY StreamFacts, MarketDataAssumption DEF MarketDataInv, Bounds, Limits
<1>3. /\ published' \in published .. Len(stream) /\ synced' \in synced .. published'
      /\ cycles' \in cycles .. MaxCycle /\ faults' \in 0 .. MaxFaults
  BY <1>1, <1>2
<1>4. IsSeq(incNet') /\ \A i \in 1 .. Len(incNet') : incNet'[i] \in 1 .. published'
  BY <1>1 DEF MarketDataInv, NetInv
<1>5. IsSeq(snapNet') /\ \A f \in InNet' : \E g \in InNet : Like(f, g)
  BY <1>1 DEF MarketDataInv, NetInv, InNet, Like
<1> QED
  BY <1>1, <1>3, <1>4, <1>5, NetworkStep

LEMMA PublishSnapshotOK ==
    ASSUME MarketDataInv, PublishSnapshot
    PROVE  MarketDataInv'
<1>1. /\ cycles < MaxCycle /\ cycles' = cycles + 1 /\ incNet' = incNet
      /\ UNCHANGED <<stream, published, synced, faults, rec, candidate, observed, engineVars, out,
                     generation, bestSeq>>
  BY DEF PublishSnapshot, consumerVars
<1>2. /\ Len(stream) \in Nat /\ published \in 0 .. Len(stream) /\ synced \in 0 .. published
      /\ cycles \in Nat /\ cycles <= MaxCycle /\ faults \in 0 .. MaxFaults /\ MaxCycle \in Nat
      /\ stream \in Streams
  BY StreamFacts, MarketDataAssumption DEF MarketDataInv, Bounds, Limits
<1>3. /\ published' \in published .. Len(stream) /\ synced' \in synced .. published'
      /\ cycles' \in cycles .. MaxCycle /\ faults' \in 0 .. MaxFaults
  BY <1>1, <1>2
<1>4. IsSeq(incNet') /\ \A i \in 1 .. Len(incNet') : incNet'[i] \in 1 .. published'
  BY <1>1 DEF MarketDataInv, NetInv
<1>5. PICK s : s = SnapshotFrames(cycles + 1, synced, BookAt(synced))
  OBVIOUS
<1>6. /\ IsSeq(s)
      /\ \A i \in 1 .. Len(s) : /\ s[i].seq \in Nat /\ s[i].cycle = cycles + 1 /\ s[i].watermark = synced
                                /\ s[i].hash = BookAt(synced)
  <2>1. synced \in 0 .. Len(stream)
    BY <1>2
  <2> QED
    BY <1>2, <1>5, <2>1, SnapshotFacts
<1>7. PICK t : t = snapNet
  OBVIOUS
<1>8. Joins(snapNet', t, s)
  <2>1. snapNet' = t \o s /\ IsSeq(t)
    BY <1>5, <1>7 DEF PublishSnapshot, MarketDataInv, NetInv
  <2>2. Joins(t \o s, t, s)
    BY <1>6, <2>1, SeqConcat
  <2> QED
    BY <2>1, <2>2
<1>9. ASSUME NEW f \in InNet' PROVE Fresh(f) \/ \E g \in InNet : Like(f, g)
  <2>1. PICK i \in 1 .. Len(t) + Len(s) : f = snapNet'[i]
    BY <1>8 DEF InNet, Joins
  <2>2. Len(t) \in Nat /\ Len(s) \in Nat
    BY <1>8 DEF Joins
  <2>3. CASE i \in 1 .. Len(t)
    <3>1. f = t[i]
      BY <1>8, <2>1, <2>3 DEF Joins
    <3> QED
      BY <1>7, <2>3, <3>1 DEF InNet, Like
  <2>4. CASE i \notin 1 .. Len(t)
    <3>1. PICK k \in 1 .. Len(s) : i = Len(t) + k
      <4>1. i - Len(t) \in 1 .. Len(s) /\ i = Len(t) + (i - Len(t))
        BY <2>2, <2>4
      <4> QED
        BY <4>1
    <3>2. f = s[k]
      BY <1>8, <2>1, <3>1 DEF Joins
    <3> QED
      BY <1>1, <1>6, <3>2 DEF Fresh
  <2> QED
    BY <2>3, <2>4
<1>10. IsSeq(snapNet')
  BY <1>8 DEF Joins
<1> QED
  BY <1>1, <1>3, <1>4, <1>9, <1>10, NetworkStep

\* Tails of what is in flight.
LEMMA TailOK ==
    ASSUME NEW s, IsSeq(s), s # <<>>
    PROVE  Part(Tail(s), s)
<1>1. /\ IsSeq(Tail(s)) /\ Len(s) \in Nat /\ Len(Tail(s)) = Len(s) - 1
      /\ \A i \in 1 .. Len(s) - 1 : Tail(s)[i] = s[i + 1]
  BY SeqTail
<1>2. \A i \in 1 .. Len(s) - 1 : i + 1 \in 1 .. Len(s)
  BY <1>1
<1> QED
  BY <1>1, <1>2 DEF Part

\* Some of what was in flight, on both channels.
Remains ==
    /\ IsSeq(incNet') /\ \A i \in 1 .. Len(incNet') : incNet'[i] \in 1 .. published
    /\ IsSeq(snapNet') /\ InNet' \subseteq InNet

LEMMA RemainsTail ==
    ASSUME NetInv
    PROVE  /\ UNCHANGED <<incNet, snapNet>> => Remains
           /\ incNet # <<>> /\ incNet' = Tail(incNet) /\ snapNet' = snapNet => Remains
           /\ snapNet # <<>> /\ snapNet' = Tail(snapNet) /\ incNet' = incNet => Remains
<1>1. IsSeq(incNet) /\ (\A i \in 1 .. Len(incNet) : incNet[i] \in 1 .. published) /\ IsSeq(snapNet)
  BY DEF NetInv
<1>2. ASSUME UNCHANGED <<incNet, snapNet>> PROVE Remains
  BY <1>1, <1>2 DEF Remains, InNet
<1>3. ASSUME incNet # <<>>, incNet' = Tail(incNet), snapNet' = snapNet PROVE Remains
  <2>1. Part(incNet', incNet)
    BY <1>1, <1>3, TailOK
  <2> QED
    BY <1>1, <1>3, <2>1 DEF Remains, InNet, Part
<1>4. ASSUME snapNet # <<>>, snapNet' = Tail(snapNet), incNet' = incNet PROVE Remains
  <2>1. Part(snapNet', snapNet)
    BY <1>1, <1>4, TailOK
  <2> QED
    BY <1>1, <1>4, <2>1 DEF Remains, InNet, Part
<1> QED
  BY <1>2, <1>3, <1>4

LEMMA LoseOK ==
    ASSUME MarketDataInv, Lose
    PROVE  MarketDataInv'
<1>1. /\ faults < MaxFaults /\ faults' = faults + 1
      /\ UNCHANGED <<stream, published, synced, cycles, rec, candidate, observed, engineVars, out,
                     generation, bestSeq>>
  BY DEF Lose, Fault, exchangeVars, consumerVars
<1>2. /\ Len(stream) \in Nat /\ published \in 0 .. Len(stream) /\ synced \in 0 .. published
      /\ cycles \in Nat /\ cycles <= MaxCycle /\ faults \in 0 .. MaxFaults /\ MaxCycle \in Nat
      /\ MaxFaults \in Nat
  BY StreamFacts, MarketDataAssumption DEF MarketDataInv, Bounds, Limits
<1>3. /\ published' \in published .. Len(stream) /\ synced' \in synced .. published'
      /\ cycles' \in cycles .. MaxCycle /\ faults' \in 0 .. MaxFaults
  BY <1>1, <1>2
<1>4. Remains
  BY RemainsTail DEF Lose, MarketDataInv
<1>5. \A f \in InNet' : \E g \in InNet : Like(f, g)
  BY <1>4 DEF Remains, Like
<1> QED
  BY <1>1, <1>3, <1>4, <1>5, NetworkStep DEF Remains

LEMMA GarbleOK ==
    ASSUME MarketDataInv, Garble
    PROVE  MarketDataInv'
<1>1. /\ faults < MaxFaults /\ faults' = faults + 1 /\ incNet' = incNet
      /\ UNCHANGED <<stream, published, synced, cycles, rec, candidate, observed, engineVars, out,
                     generation, bestSeq>>
  BY DEF Garble, Fault, exchangeVars, consumerVars
<1>2. /\ Len(stream) \in Nat /\ published \in 0 .. Len(stream) /\ synced \in 0 .. published
      /\ cycles \in Nat /\ cycles <= MaxCycle /\ faults \in 0 .. MaxFaults /\ MaxCycle \in Nat
      /\ MaxFaults \in Nat
  BY StreamFacts, MarketDataAssumption DEF MarketDataInv, Bounds, Limits
<1>3. /\ published' \in published .. Len(stream) /\ synced' \in synced .. published'
      /\ cycles' \in cycles .. MaxCycle /\ faults' \in 0 .. MaxFaults
  BY <1>1, <1>2
<1>4. IsSeq(incNet') /\ \A i \in 1 .. Len(incNet') : incNet'[i] \in 1 .. published'
  BY <1>1 DEF MarketDataInv, NetInv
<1>5. PICK i, g : i \in 1 .. Len(snapNet) /\ snapNet' = [snapNet EXCEPT ![i].ev = g]
  BY DEF Garble
<1>6. PICK n, s : n \in Nat /\ s = snapNet /\ n = Len(s) /\ IsSeq(s) /\ s = [k \in 1 .. n |-> s[k]]
  <2>1. PICK S : snapNet \in Seq(S)
    BY DEF MarketDataInv, NetInv, IsSeq
  <2> QED
    BY <2>1 DEF IsSeq
<1>7. snapNet' = [k \in 1 .. n |-> IF k = i THEN [s[i] EXCEPT !.ev = g] ELSE s[k]]
  BY <1>5, <1>6
<1>8. IsSeq(snapNet') /\ Len(snapNet') = n
  <2>1. snapNet' = [k \in 1 .. n |-> snapNet'[k]]
    BY <1>7
  <2> QED
    BY <1>6, <2>1, SeqFunction
<1>9. \A f \in InNet' : \E h \in InNet : Like(f, h)
  <2> SUFFICES ASSUME NEW f \in InNet' PROVE \E h \in InNet : Like(f, h)
    OBVIOUS
  <2>1. PICK k \in 1 .. n : f = snapNet'[k]
    BY <1>8 DEF InNet
  <2>2. s[k] \in InNet
    BY <1>6 DEF InNet
  <2>3. Like(f, s[k])
    <3>1. CASE k = i
      <4>1. f = [s[i] EXCEPT !.ev = g]
        BY <1>7, <2>1, <3>1
      <4> QED
        BY <3>1, <4>1 DEF Like
    <3>2. CASE k # i
      BY <1>7, <2>1, <3>2 DEF Like
    <3> QED
      BY <3>1, <3>2
  <2> QED
    BY <2>2, <2>3
<1> QED
  BY <1>1, <1>3, <1>4, <1>8, <1>9, NetworkStep
-------------------------------------------------------------------------------
(* The consumer.                                                              *)

LEMMA ConsumerStep ==
    ASSUME MarketDataInv, UNCHANGED exchangeVars, Remains, faults' \in 0 .. MaxFaults,
           NEW q, RecOK(q), Frames(q) \subseteq Frames(rec), rec' = q
    PROVE  /\ Bounds' /\ Limits' /\ NetInv' /\ RecInv'
           /\ \A b : Reaches(q, b) /\ bestSeq' = b => Reaches(rec, bestSeq)'
           /\ \A es, w, o : BatchOK(es, w, o) => BatchOK(es, w, o)'
<1>1. stream' = stream /\ published' = published /\ synced' = synced /\ cycles' = cycles
  BY DEF exchangeVars
<1>2. Bounds' /\ Limits'
  BY <1>1 DEF MarketDataInv, Bounds, Limits
<1>3. \A n : BookAt(n)' = BookAt(n)
  BY <1>1, SameBooks
<1>4. \A f : FrameOK(f)' <=> FrameOK(f)
  BY <1>1, <1>3 DEF FrameOK
<1>5. NetInv'
  <2>1. \A f \in InNet' : FrameOK(f)'
    BY <1>4 DEF MarketDataInv, NetInv, Remains
  <2> QED
    BY <1>1, <2>1 DEF NetInv, Remains
<1>6. Frames(rec)' \subseteq Frames(q) /\ Frames(rec)' \subseteq Frames(rec)
  <2>1. InCache(rec)' = InCache(q) /\ InNet' \subseteq InNet
    BY DEF InCache, Remains
  <2> QED
    BY <2>1 DEF Frames
<1>7. RecInv'
  <2>1. RecOK(rec)'
    BY <1>1, <1>4 DEF RecOK, Cached
  <2>2. Ascending(rec)'
    BY <1>6 DEF MarketDataInv, RecInv, Ascending
  <2> QED
    BY <2>1, <2>2 DEF RecInv
<1>8. ASSUME NEW b, Reaches(q, b), bestSeq' = b PROVE Reaches(rec, bestSeq)'
  BY <1>1, <1>6, <1>8 DEF Reaches
<1>9. ASSUME NEW es, NEW w, NEW o, BatchOK(es, w, o) PROVE BatchOK(es, w, o)'
  BY <1>1, <1>3, <1>9 DEF BatchOK, BatchBooks, Orders
<1> QED
  BY <1>2, <1>5, <1>7, <1>8, <1>9

\* process() of a frame by a recovering consumer.
LEMMA RecoveringStep ==
    ASSUME MarketDataInv, UNCHANGED <<exchangeVars, engineVars, observed, generation>>, Remains,
           faults' \in 0 .. MaxFaults, rec.recovering, NEW q, Ingested(rec, q), Recover(q, observed),
           Forget
    PROVE  MarketDataInv'
<1>1. /\ Bounds /\ RecOK(rec) /\ QueueInv /\ Reaches(rec, bestSeq) /\ bestSeq \in Nat
  BY DEF MarketDataInv, RecInv, RegressInv, QueueInv, EngineTypes
<1>2. /\ RecOK(q) /\ q.recovering = TRUE /\ Frames(q) \subseteq Frames(rec)
      /\ \/ \A b \in Nat : Reaches(rec, b) => Reaches(q, b)
         \/ Cached(rec) = CacheLimit /\ Cached(q) = 0 /\ q.invalid = TRUE
  BY DEF Ingested
<1>3. Reaches(q, bestSeq) \/ (Cached(rec) = CacheLimit /\ Cached(q) = 0 /\ q.invalid = TRUE)
  BY <1>1, <1>2
<1>4. Reaches(q, 0)
  BY DEF Reaches
<1>5. stream' = stream /\ published' = published
  BY DEF exchangeVars
<1>6. CASE NoBatchYet(q)
  <2>1. PICK p \in BOOLEAN : rec' = [q EXCEPT !.invalid = p] /\ candidate' = NoBatch /\ out' = out
    BY <1>6 DEF NoBatchYet
  <2>2. PICK r : r = [q EXCEPT !.invalid = p]
    OBVIOUS
  <2>3. /\ RecOK(r) /\ r.recovering = TRUE /\ r.cycle = q.cycle /\ r.snap = q.snap /\ r.inc = q.inc
        /\ Cached(r) = Cached(q) /\ rec' = r
    BY <1>2, <2>1, <2>2, FlagOK
  <2>4. Frames(r) \subseteq Frames(rec) /\ Frames(r) = Frames(q)
    BY <1>2, <2>3 DEF Frames, InCache
  <2>5. bestSeq' = 0 \/ (bestSeq' = bestSeq /\ Reaches(q, bestSeq))
    BY <1>3, <2>3 DEF Forget
  <2>6. PICK b : b = bestSeq' /\ Reaches(q, b) /\ b \in Nat
    BY <1>1, <1>4, <2>5
  <2>7. Reaches(r, b)
    BY <2>3, <2>4, <2>6 DEF Reaches
  <2>8. Bounds' /\ Limits' /\ NetInv' /\ RecInv' /\ Reaches(rec, bestSeq)'
    BY <2>3, <2>4, <2>6, <2>7, ConsumerStep
  <2>9. QueueInv'
    BY <1>1, <1>5, <2>1, <2>3, <2>6, QueueIdle
  <2>10. CandidateInv' /\ RegressInv'
    BY <2>1, <2>3, <2>8 DEF CandidateInv, RegressInv
  <2> QED
    BY <2>8, <2>9, <2>10 DEF MarketDataInv
<1>7. ASSUME NEW es, NEW w, Committed(q, es, w, observed) PROVE MarketDataInv'
  <2>1. /\ ~q.invalid /\ BatchOK(es, w, observed) /\ (\A b \in Nat : Reaches(q, b) => w >= b)
        /\ Len(out) + Len(es) <= QueueCapacity
        /\ rec' = Commit(q, w) /\ candidate' = NoBatch /\ out' = out \o es
    BY <1>7 DEF Committed, Reaching
  <2>2. w >= bestSeq /\ w \in 0 .. published
    BY <1>1, <1>3, <2>1 DEF BatchOK
  <2>3. PICK r : r = Commit(q, w)
    OBVIOUS
  <2>4. RecOK(r) /\ r.recovering = FALSE /\ r.expected = w + 1 /\ DOMAIN r.snap = {} /\ rec' = r
    BY <1>1, <1>2, <2>1, <2>2, <2>3, CommitOK
  <2>5. Frames(r) \subseteq Frames(rec)
    BY <2>4 DEF Frames, InCache
  <2>6. Bounds' /\ Limits' /\ NetInv' /\ RecInv'
    BY <2>4, <2>5, ConsumerStep
  <2>7. bestSeq' = bestSeq
    BY <2>4 DEF Forget
  <2>8. QueueInv'
    BY <1>1, <1>5, <2>1, <2>2, <2>4, <2>7, QueueCommit
  <2>9. CandidateInv' /\ RegressInv'
    <3>1. bestSeq < w + 1
      <4>1. published \in Nat
        BY <1>1, StreamFacts DEF Bounds
      <4> QED
        BY <1>1, <2>2, <4>1
    <3> QED
      BY <2>1, <2>4, <2>7, <3>1 DEF CandidateInv, RegressInv
  <2> QED
    BY <2>6, <2>8, <2>9 DEF MarketDataInv
<1>8. ASSUME NEW es, NEW w, Waiting(q, es, w, observed) PROVE MarketDataInv'
  <2>1. /\ ~q.invalid /\ BatchOK(es, w, observed) /\ (\A b \in Nat : Reaches(q, b) => w >= b)
        /\ rec' = q /\ candidate' = [events |-> es, watermark |-> w] /\ out' = out
    BY <1>8 DEF Waiting, Reaching
  <2>2. Reaches(q, bestSeq)
    BY <1>3, <2>1
  <2>3. bestSeq' = 0 \/ bestSeq' = bestSeq
    BY DEF Forget
  <2>4. PICK b : b = bestSeq' /\ Reaches(q, b) /\ b \in Nat
    BY <1>1, <1>4, <2>2, <2>3
  <2>5. /\ Bounds' /\ Limits' /\ NetInv' /\ RecInv' /\ Reaches(rec, bestSeq)'
        /\ BatchOK(es, w, observed)'
    <3>1. PICK o : o = observed
      OBVIOUS
    <3>2. BatchOK(es, w, o)'
      BY <1>2, <2>1, <3>1, ConsumerStep
    <3>3. BatchOK(es, w, observed)'
      BY <3>1, <3>2 DEF BatchOK
    <3> QED
      BY <1>2, <2>1, <2>4, <3>3, ConsumerStep
  <2>6. QueueInv'
    BY <1>1, <1>2, <1>5, <2>1, <2>4, QueueIdle
  <2>7. RegressInv'
    BY <1>2, <2>1, <2>5 DEF RegressInv
  <2>8. CandidateInv'
    <3>1. candidate'.events = es /\ candidate'.watermark = w /\ w >= bestSeq'
      BY <2>1, <2>4
    <3>2. BatchOK(candidate.events, candidate.watermark, observed)'
      BY <2>5, <3>1 DEF BatchOK, BatchBooks
    <3> QED
      BY <1>2, <2>1, <3>1, <3>2 DEF CandidateInv
  <2> QED
    BY <2>5, <2>6, <2>7, <2>8 DEF MarketDataInv
<1> QED
  BY <1>1, <1>2, <1>6, <1>7, <1>8, RecoverOK

\* A datagram leaves the network, or stays to arrive once more.
LEMMA Delivered ==
    ASSUME MarketDataInv,
           \/ UNCHANGED faults
           \/ faults < MaxFaults /\ faults' = faults + 1,
           \/ \E i \in 1 .. Len(incNet) : incNet' = RemoveAt(incNet, i) /\ snapNet' = snapNet
           \/ \E i \in 1 .. Len(snapNet) : snapNet' = RemoveAt(snapNet, i) /\ incNet' = incNet
           \/ UNCHANGED <<incNet, snapNet>>
    PROVE  Remains /\ faults' \in 0 .. MaxFaults
<1>1. faults' \in 0 .. MaxFaults
  BY MarketDataAssumption DEF MarketDataInv, Limits
<1>2. /\ NetInv /\ IsSeq(incNet) /\ (\A i \in 1 .. Len(incNet) : incNet[i] \in 1 .. published)
      /\ IsSeq(snapNet)
  BY DEF MarketDataInv, NetInv
<1>3. ASSUME NEW i \in 1 .. Len(incNet), incNet' = RemoveAt(incNet, i), snapNet' = snapNet
      PROVE  Remains
  <2>1. Part(incNet', incNet)
    BY <1>2, <1>3, SeqRemove
  <2> QED
    BY <1>2, <1>3, <2>1 DEF Remains, InNet, Part
<1>4. ASSUME NEW i \in 1 .. Len(snapNet), snapNet' = RemoveAt(snapNet, i), incNet' = incNet
      PROVE  Remains
  <2>1. Part(snapNet', snapNet)
    BY <1>2, <1>4, SeqRemove
  <2> QED
    BY <1>2, <1>4, <2>1 DEF Remains, InNet, Part
<1> QED
  BY <1>1, <1>2, <1>3, <1>4, RemainsTail

LEMMA ReceiveIncrementalOK ==
    ASSUME MarketDataInv, ReceiveIncremental
    PROVE  MarketDataInv'
<1>1. PICK i \in 1 .. Len(incNet) :
         /\ ProcessIncremental(incNet[i])
         /\ \/ incNet' = RemoveAt(incNet, i) /\ UNCHANGED faults
            \/ Fault("dup") /\ UNCHANGED incNet
  BY DEF ReceiveIncremental, InFlight
<1>2. Forget /\ UNCHANGED <<exchangeVars, snapNet, engineVars>>
  BY DEF ReceiveIncremental
<1>3. Remains /\ faults' \in 0 .. MaxFaults
  BY <1>1, <1>2, Delivered DEF Fault
<1>4. PICK s : s = incNet[i]
  OBVIOUS
<1>5. /\ s \in 1 .. published /\ published \in Nat /\ rec.expected \in 1 .. published + 1
      /\ Bounds /\ RecOK(rec) /\ QueueInv /\ rec.recovering \in BOOLEAN /\ bestSeq \in Nat
  <2>1. Bounds /\ RecOK(rec) /\ QueueInv /\ NetInv
    BY DEF MarketDataInv, RecInv
  <2>2. rec.expected \in 1 .. published + 1 /\ rec.recovering \in BOOLEAN
    BY <2>1 DEF RecOK
  <2>3. published \in Nat
    BY <2>1, StreamFacts DEF Bounds
  <2> QED
    BY <1>4, <2>1, <2>2, <2>3 DEF NetInv, QueueInv, EngineTypes
<1>6. stream' = stream /\ published' = published
  BY <1>2 DEF exchangeVars
<1>7. \/ /\ ~rec.recovering /\ s = rec.expected /\ Len(out) # QueueCapacity
         /\ out' = Append(out, stream[s])
         /\ rec' = [rec EXCEPT !.expected = @ + 1]
         /\ UNCHANGED <<candidate, observed, generation>>
      \/ /\ ~rec.recovering
         /\ UNCHANGED <<rec, candidate, observed, generation, out>>
      \/ /\ ~rec.recovering /\ ~(s < rec.expected)
         /\ NextGeneration
         /\ Recover(IngestIncremental(Restart(rec), s, stream[s]), generation + 1)
      \/ /\ rec.recovering
         /\ Recover(IngestIncremental(rec, s, stream[s]), observed)
         /\ UNCHANGED <<observed, generation>>
  BY <1>1, <1>4 DEF ProcessIncremental
<1>8. ~rec.recovering => bestSeq' = bestSeq
  BY <1>2 DEF Forget
<1>9. CASE /\ ~rec.recovering /\ s = rec.expected /\ Len(out) # QueueCapacity
           /\ out' = Append(out, stream[s])
           /\ rec' = [rec EXCEPT !.expected = @ + 1]
           /\ UNCHANGED <<candidate, observed, generation>>
  <2>1. PICK q : q = [rec EXCEPT !.expected = @ + 1]
    OBVIOUS
  <2>2. q = [recovering |-> rec.recovering, invalid |-> rec.invalid, cycle |-> rec.cycle,
             expected |-> rec.expected + 1, snap |-> rec.snap, inc |-> rec.inc]
    BY <1>5, <2>1 DEF RecOK
  <2>3. /\ q.recovering = rec.recovering /\ q.invalid = rec.invalid /\ q.cycle = rec.cycle
        /\ q.expected = rec.expected + 1 /\ q.snap = rec.snap /\ q.inc = rec.inc /\ rec' = q
    BY <1>9, <2>1, <2>2
  <2>4. q = [recovering |-> q.recovering, invalid |-> q.invalid, cycle |-> q.cycle,
             expected |-> q.expected, snap |-> q.snap, inc |-> q.inc]
    BY <2>2, <2>3
  <2>5. q.expected \in 1 .. published + 1 /\ q.recovering = FALSE
    BY <1>5, <1>9, <2>3
  <2>6. RecOK(q)
    BY <1>5, <2>3, <2>4, <2>5 DEF RecOK, Cached
  <2>7. Frames(q) \subseteq Frames(rec)
    BY <2>3 DEF Frames, InCache
  <2>8. Bounds' /\ Limits' /\ NetInv' /\ RecInv'
    BY <1>2, <1>3, <2>3, <2>6, <2>7, ConsumerStep
  <2>9. Len(out) < QueueCapacity /\ rec.expected <= published
    <3>1. Len(out) \in Nat /\ Len(out) <= QueueCapacity /\ QueueCapacity \in Nat
      BY <1>5, SeqAppend, MarketDataAssumption DEF QueueInv, Queued
    <3> QED
      BY <1>5, <1>9, <3>1
  <2>10. QueueInv'
    BY <1>2, <1>5, <1>6, <1>8, <1>9, <2>3, <2>5, <2>9, QueueLive
  <2>11. CandidateInv' /\ RegressInv'
    <3>1. candidate' = NoBatch
      BY <1>9 DEF MarketDataInv, CandidateInv
    <3>2. bestSeq < rec.expected
      BY <1>9 DEF MarketDataInv, RegressInv
    <3>3. bestSeq < rec.expected + 1
      BY <1>5, <3>2
    <3> QED
      BY <1>8, <1>9, <2>3, <2>5, <3>1, <3>3 DEF CandidateInv, RegressInv
  <2> QED
    BY <2>8, <2>10, <2>11 DEF MarketDataInv
<1>10. CASE ~rec.recovering /\ UNCHANGED <<rec, candidate, observed, generation, out>>
  <2>1. PICK q : q = rec
    OBVIOUS
  <2>2. Bounds' /\ Limits' /\ NetInv' /\ RecInv'
    BY <1>2, <1>3, <1>5, <1>10, <2>1, ConsumerStep
  <2>3. QueueInv'
    BY <1>2, <1>5, <1>6, <1>8, <1>10, QueueSame
  <2>4. CandidateInv' /\ RegressInv'
    BY <1>8, <1>10 DEF MarketDataInv, CandidateInv, RegressInv
  <2> QED
    BY <2>2, <2>3, <2>4 DEF MarketDataInv
<1>11. CASE /\ ~rec.recovering /\ ~(s < rec.expected)
            /\ NextGeneration
            /\ Recover(IngestIncremental(Restart(rec), s, stream[s]), generation + 1)
  <2>1. PICK z : z = Restart(rec)
    OBVIOUS
  <2>2. /\ RecOK(z) /\ z.recovering = TRUE /\ z.invalid = TRUE /\ Cached(z) = 0 /\ DOMAIN z.snap = {}
    <3>1. IsRec(rec)
      BY <1>5 DEF IsRec, RecOK
    <3> QED
      BY <2>1, <3>1, RestartOK
  <2>3. PICK q : q = IngestIncremental(z, s, stream[s])
    OBVIOUS
  <2>4. /\ Ingested(z, q) /\ (Cached(z) >= CacheLimit \/ (s \in DOMAIN q.inc /\ q.invalid = z.invalid))
    BY <1>5, <2>2, <2>3, IngestIncrementalOK
  <2>5. s \in DOMAIN q.inc /\ q.invalid = TRUE
    BY <2>2, <2>4, MarketDataAssumption
  <2>6. RecOK(q) /\ q.recovering = TRUE /\ Frames(q) \subseteq Frames(rec)
    BY <2>2, <2>4 DEF Ingested, Frames, InCache
  <2>7. PICK o : o = generation + 1
    OBVIOUS
  <2>8. NoBatchYet(q)
    <3>1. Recover(q, o)
      BY <1>11, <2>1, <2>3, <2>7
    <3> QED
      BY <1>5, <2>5, <2>6, <3>1, RecoverOK DEF Committed, Waiting, Reaching
  <2>9. PICK p \in BOOLEAN : rec' = [q EXCEPT !.invalid = p] /\ candidate' = NoBatch /\ out' = out
    BY <2>8 DEF NoBatchYet
  <2>10. PICK r : r = [q EXCEPT !.invalid = p]
    OBVIOUS
  <2>11. /\ RecOK(r) /\ r.recovering = TRUE /\ r.snap = q.snap /\ r.inc = q.inc /\ rec' = r
    BY <2>6, <2>9, <2>10, FlagOK
  <2>12. Frames(r) \subseteq Frames(rec)
    BY <2>6, <2>11 DEF Frames, InCache
  <2>13. PICK b : b = bestSeq' /\ Reaches(r, b)
    <3>1. bestSeq < rec.expected /\ bestSeq' = bestSeq
      BY <1>8, <1>11 DEF MarketDataInv, RegressInv
    <3>2. s >= bestSeq
      BY <1>5, <1>11, <3>1
    <3> QED
      BY <2>5, <2>11, <3>1, <3>2 DEF Reaches
  <2>14. Bounds' /\ Limits' /\ NetInv' /\ RecInv' /\ Reaches(rec, bestSeq)'
    BY <1>2, <1>3, <2>11, <2>12, <2>13, ConsumerStep
  <2>15. QueueInv'
    <3>1. /\ generation \in 2 .. MaxGeneration /\ observed \in 2 .. generation /\ MaxGeneration \in Nat
          /\ generation < MaxGeneration /\ generation' = generation + 1 /\ observed' = generation + 1
      BY <1>5, <1>11, MarketDataAssumption DEF QueueInv, Generations, NextGeneration
    <3>2. /\ generation' \in 2 .. MaxGeneration /\ observed' \in 2 .. generation'
          /\ observed' > observed /\ generation' >= generation
      BY <3>1
    <3> QED
      BY <1>2, <1>5, <1>6, <1>8, <1>11, <2>9, <2>11, <3>2, QueueStale
  <2>16. CandidateInv' /\ RegressInv'
    BY <2>9, <2>11, <2>14 DEF CandidateInv, RegressInv
  <2> QED
    BY <2>14, <2>15, <2>16 DEF MarketDataInv
<1>12. CASE /\ rec.recovering
            /\ Recover(IngestIncremental(rec, s, stream[s]), observed)
            /\ UNCHANGED <<observed, generation>>
  <2>1. PICK q : q = IngestIncremental(rec, s, stream[s])
    OBVIOUS
  <2>2. Ingested(rec, q)
    BY <1>5, <1>12, <2>1, IngestIncrementalOK
  <2> QED
    BY <1>2, <1>3, <1>12, <2>1, <2>2, RecoveringStep
<1> QED
  BY <1>7, <1>9, <1>10, <1>11, <1>12

LEMMA ReceiveSnapshotOK ==
    ASSUME MarketDataInv, ReceiveSnapshot
    PROVE  MarketDataInv'
<1>1. PICK i \in 1 .. Len(snapNet) :
         /\ ProcessSnapshot(snapNet[i])
         /\ \/ snapNet' = RemoveAt(snapNet, i) /\ UNCHANGED faults
            \/ Fault("dup") /\ UNCHANGED snapNet
  BY DEF ReceiveSnapshot, InFlight
<1>2. Forget /\ UNCHANGED <<exchangeVars, incNet, engineVars, observed, generation>>
  BY <1>1 DEF ReceiveSnapshot, ProcessSnapshot
<1>3. Remains /\ faults' \in 0 .. MaxFaults
  BY <1>1, <1>2, Delivered DEF Fault
<1>4. PICK f : f = snapNet[i]
  OBVIOUS
<1>5. Bounds /\ RecOK(rec) /\ QueueInv /\ Ascending(rec) /\ f \in InNet /\ \A g \in InNet : FrameOK(g)
  BY <1>4 DEF MarketDataInv, NetInv, RecInv, InNet
<1>6. CASE ~rec.recovering /\ UNCHANGED <<rec, candidate, out>>
  <2>1. bestSeq' = bestSeq
    BY <1>2, <1>6 DEF Forget
  <2>2. PICK q : q = rec
    OBVIOUS
  <2>3. Bounds' /\ Limits' /\ NetInv' /\ RecInv'
    BY <1>2, <1>3, <1>5, <1>6, <2>2, ConsumerStep
  <2>4. QueueInv'
    <3>1. stream' = stream /\ published' \in Nat /\ published' >= published
      BY <1>2, <1>5, StreamFacts DEF exchangeVars, Bounds
    <3> QED
      BY <1>2, <1>5, <1>6, <2>1, <3>1, QueueSame
  <2>5. CandidateInv' /\ RegressInv'
    BY <1>6, <2>1 DEF MarketDataInv, CandidateInv, RegressInv
  <2> QED
    BY <2>3, <2>4, <2>5 DEF MarketDataInv
<1>7. CASE rec.recovering /\ Recover(IngestSnapshot(rec, f), observed)
  <2>1. PICK q : q = IngestSnapshot(rec, f)
    OBVIOUS
  <2>2. Ingested(rec, q)
    BY <1>5, <1>7, <2>1, IngestSnapshotOK
  <2> QED
    BY <1>2, <1>3, <1>7, <2>1, <2>2, RecoveringStep
<1> QED
  BY <1>1, <1>4, <1>6, <1>7 DEF ProcessSnapshot

\* restart() with a new generation.
LEMMA RestartStep ==
    ASSUME MarketDataInv, UNCHANGED <<exchangeVars, engineVars, out>>, Remains,
           faults' \in 0 .. MaxFaults, rec' = Restart(rec), candidate' = NoBatch,
           generation' \in 2 .. MaxGeneration, observed' \in 2 .. generation',
           observed' > observed, generation' >= generation,
           bestSeq' = 0 \/ (rec' = rec /\ bestSeq' = bestSeq)
    PROVE  MarketDataInv'
<1>1. Bounds /\ RecOK(rec) /\ QueueInv /\ bestSeq \in Nat
  BY DEF MarketDataInv, RecInv, QueueInv, EngineTypes
<1>2. PICK q : q = Restart(rec)
  OBVIOUS
<1>3. RecOK(q) /\ q.recovering = TRUE /\ DOMAIN q.snap = {} /\ rec' = q
  <2>1. IsRec(rec)
    BY <1>1 DEF IsRec, RecOK
  <2> QED
    BY <1>2, <2>1, RestartOK
<1>4. Frames(q) \subseteq Frames(rec)
  BY <1>3 DEF Frames, InCache
<1>5. PICK b : b = bestSeq' /\ b \in Nat /\ Reaches(q, b)
  <2>1. CASE bestSeq' = 0
    BY <2>1 DEF Reaches
  <2>2. CASE rec' = rec /\ bestSeq' = bestSeq
    BY <1>1, <1>3, <2>2 DEF MarketDataInv, RegressInv
  <2> QED
    BY <2>1, <2>2
<1>6. Bounds' /\ Limits' /\ NetInv' /\ RecInv' /\ Reaches(rec, bestSeq)'
  BY <1>3, <1>4, <1>5, ConsumerStep
<1>7. QueueInv'
  <2>1. stream' = stream /\ published' = published
    BY DEF exchangeVars
  <2> QED
    BY <1>1, <1>3, <1>5, <2>1, QueueStale
<1>8. CandidateInv' /\ RegressInv'
  BY <1>3, <1>6 DEF CandidateInv, RegressInv
<1> QED
  BY <1>6, <1>7, <1>8 DEF MarketDataInv

LEMMA ReceiveDamagedOK ==
    ASSUME MarketDataInv, ReceiveDamaged
    PROVE  MarketDataInv'
<1>1. /\ faults < MaxFaults /\ faults' = faults + 1 /\ UNCHANGED <<exchangeVars, engineVars>>
      /\ bestSeq' = IF rec' = rec THEN bestSeq ELSE 0
      /\ \/ incNet # <<>> /\ incNet' = Tail(incNet) /\ snapNet' = snapNet
         \/ snapNet # <<>> /\ snapNet' = Tail(snapNet) /\ incNet' = incNet
      /\ Stale \/ UNCHANGED <<consumerVars, out, generation>>
  BY DEF ReceiveDamaged, Fault
<1>2. Remains /\ faults' \in 0 .. MaxFaults
  BY <1>1, RemainsTail, MarketDataAssumption DEF MarketDataInv, Limits
<1>3. CASE Stale
  <2>1. /\ generation \in 2 .. MaxGeneration /\ observed \in 2 .. generation /\ MaxGeneration \in Nat
        /\ generation < MaxGeneration /\ generation' = generation + 1 /\ observed' = generation + 1
        /\ rec' = Restart(rec) /\ candidate' = NoBatch /\ out' = out
    BY <1>3, MarketDataAssumption DEF MarketDataInv, QueueInv, Generations, Stale, NextGeneration
  <2>2. /\ generation' \in 2 .. MaxGeneration /\ observed' \in 2 .. generation'
        /\ observed' > observed /\ generation' >= generation
    BY <2>1
  <2> QED
    BY <1>1, <1>2, <2>1, <2>2, RestartStep
<1>4. CASE UNCHANGED <<consumerVars, out, generation>>
  <2>1. /\ rec' = rec /\ candidate' = candidate /\ observed' = observed /\ out' = out
        /\ generation' = generation /\ bestSeq' = bestSeq
    BY <1>1, <1>4 DEF consumerVars
  <2>2. /\ Bounds /\ RecOK(rec) /\ QueueInv
    BY DEF MarketDataInv, RecInv
  <2>3. PICK q : q = rec
    OBVIOUS
  <2>4. /\ Bounds' /\ Limits' /\ NetInv' /\ RecInv'
        /\ \A b : Reaches(q, b) /\ bestSeq' = b => Reaches(rec, bestSeq)'
        /\ \A es, w, o : BatchOK(es, w, o) => BatchOK(es, w, o)'
    BY <1>1, <1>2, <2>1, <2>2, <2>3, ConsumerStep
  <2>5. QueueInv'
    <3>1. stream' = stream /\ published' \in Nat /\ published' >= published
      BY <1>1, <2>2, StreamFacts DEF exchangeVars, Bounds
    <3> QED
      BY <1>1, <2>1, <2>2, <3>1, QueueSame
  <2>6. RegressInv'
    BY <2>1, <2>3, <2>4 DEF MarketDataInv, RegressInv
  <2>7. CandidateInv'
    <3>1. PICK c, o : c = candidate /\ o = observed
      OBVIOUS
    <3>2. candidate # NoBatch => BatchOK(c.events, c.watermark, o)'
      BY <2>4, <3>1 DEF MarketDataInv, CandidateInv
    <3> QED
      BY <2>1, <3>1, <3>2 DEF MarketDataInv, CandidateInv, BatchOK, BatchBooks
  <2> QED
    BY <2>4, <2>5, <2>6, <2>7 DEF MarketDataInv
<1> QED
  BY <1>1, <1>3, <1>4

LEMMA ObserveGenerationOK ==
    ASSUME MarketDataInv, ObserveGeneration
    PROVE  MarketDataInv'
<1>1. /\ generation # observed /\ observed' = generation /\ generation' = generation
      /\ rec' = Restart(rec) /\ candidate' = NoBatch /\ bestSeq' = 0
      /\ UNCHANGED <<exchangeVars, engineVars, out>> /\ UNCHANGED <<incNet, snapNet>> /\ faults' = faults
  BY DEF ObserveGeneration, netVars
<1>2. Remains /\ faults' \in 0 .. MaxFaults
  BY <1>1, RemainsTail DEF MarketDataInv, Limits
<1>3. /\ generation \in 2 .. MaxGeneration /\ observed \in 2 .. generation /\ MaxGeneration \in Nat
  BY MarketDataAssumption DEF MarketDataInv, QueueInv, Generations
<1>4. /\ generation' \in 2 .. MaxGeneration /\ observed' \in 2 .. generation'
      /\ observed' > observed /\ generation' >= generation
  BY <1>1, <1>3
<1> QED
  BY <1>1, <1>2, <1>4, RestartStep

LEMMA PublishRecoveryOK ==
    ASSUME MarketDataInv, PublishRecovery
    PROVE  MarketDataInv'
<1>1. PICK es, w : es = candidate.events /\ w = candidate.watermark
  OBVIOUS
<1>2. /\ candidate # NoBatch /\ Len(out) + Len(es) <= QueueCapacity /\ out' = out \o es
      /\ rec' = Commit(rec, w) /\ candidate' = NoBatch
      /\ UNCHANGED <<exchangeVars, engineVars, observed, generation, bestSeq>>
      /\ UNCHANGED <<incNet, snapNet>> /\ faults' = faults
  BY <1>1 DEF PublishRecovery, netVars
<1>3. Remains /\ faults' \in 0 .. MaxFaults
  BY <1>2, RemainsTail DEF MarketDataInv, Limits
<1>4. /\ Bounds /\ RecOK(rec) /\ QueueInv /\ bestSeq \in Nat
      /\ rec.recovering /\ BatchOK(es, w, observed) /\ w >= bestSeq
  BY <1>1, <1>2 DEF MarketDataInv, RecInv, CandidateInv, QueueInv, EngineTypes
<1>5. PICK q : q = Commit(rec, w)
  OBVIOUS
<1>6. RecOK(q) /\ q.recovering = FALSE /\ q.expected = w + 1 /\ DOMAIN q.snap = {} /\ rec' = q
  BY <1>2, <1>4, <1>5, CommitOK DEF BatchOK
<1>7. Frames(q) \subseteq Frames(rec)
  BY <1>6 DEF Frames, InCache
<1>8. Bounds' /\ Limits' /\ NetInv' /\ RecInv'
  BY <1>2, <1>3, <1>6, <1>7, ConsumerStep
<1>9. QueueInv'
  <2>1. stream' = stream /\ published' = published
    BY <1>2 DEF exchangeVars
  <2> QED
    BY <1>2, <1>4, <1>6, <2>1, QueueCommit
<1>10. CandidateInv' /\ RegressInv'
  <2>1. w \in 0 .. published /\ published \in Nat
    BY <1>4, StreamFacts DEF BatchOK, Bounds
  <2>2. bestSeq < w + 1
    BY <1>4, <2>1
  <2> QED
    BY <1>2, <1>6, <2>2 DEF CandidateInv, RegressInv
<1> QED
  BY <1>8, <1>9, <1>10 DEF MarketDataInv
-------------------------------------------------------------------------------
\* A stretch of a sequence, position by position.
LEMMA SubSeqFrom ==
    ASSUME NEW S, NEW w \in Seq(S), NEW p \in Nat, NEW n \in Nat, p + n <= Len(w)
    PROVE  SubSeq(w, p + 1, p + n) = [j \in 1 .. n |-> w[p + j]]
<1>1. PICK t : t = SubSeq(w, p + 1, p + n)
  OBVIOUS
<1>2. t \in Seq(S)
  BY <1>1
<1>3. Len(t) = n
  BY <1>1
<1>4. ASSUME NEW j \in 1 .. n PROVE t[j] = w[p + j]
  BY <1>1, <1>4
<1>5. t = [j \in 1 .. n |-> t[j]]
  BY <1>2, <1>3
<1> QED
  BY <1>1, <1>4, <1>5

\* The initial states satisfy the invariant.
LEMMA InitOK ==
    ASSUME Init
    PROVE  MarketDataInv
<1>1. /\ stream \in Streams /\ published = 0 /\ synced = 0 /\ cycles = 0
      /\ incNet = <<>> /\ snapNet = <<>> /\ faults = 0
      /\ candidate = NoBatch /\ observed = 2 /\ out = <<>> /\ generation = 2
      /\ applied = 0 /\ epc = "check" /\ local = <<>> /\ localSeq = 0 /\ bestSeq = 0
      /\ refused = FALSE
      /\ rec = [recovering |-> TRUE, invalid |-> FALSE, cycle |-> 0, expected |-> 1,
                snap |-> <<>>, inc |-> <<>>]
  BY DEF Init
<1>2. /\ rec.recovering = TRUE /\ rec.invalid = FALSE /\ rec.cycle = 0 /\ rec.expected = 1
      /\ rec.snap = <<>> /\ rec.inc = <<>>
      /\ DOMAIN rec.snap = {} /\ DOMAIN rec.inc = {}
      /\ IsFiniteSet(DOMAIN rec.snap) /\ IsFiniteSet(DOMAIN rec.inc) /\ Cached(rec) = 0
  BY <1>1, EmptyCache DEF Cached
<1>3. Bounds /\ Limits
  BY <1>1, StreamFacts, MarketDataAssumption DEF Bounds, Limits
<1>4. InNet = {} /\ Frames(rec) = {}
  <2>1. InNet = {}
    BY <1>1, SeqEmpty DEF InNet
  <2>2. InCache(rec) = {}
    BY <1>2 DEF InCache
  <2> QED
    BY <2>1, <2>2 DEF Frames
<1>5. NetInv
  BY <1>1, <1>4, SeqEmpty DEF NetInv
<1>6. RecInv
  <2>1. rec = [recovering |-> rec.recovering, invalid |-> rec.invalid, cycle |-> rec.cycle,
               expected |-> rec.expected, snap |-> rec.snap, inc |-> rec.inc]
    BY <1>1, <1>2
  <2>2. rec.cycle \in 0 .. cycles /\ rec.expected \in 1 .. published + 1 /\ Cached(rec) <= CacheLimit
    BY <1>1, <1>2, MarketDataAssumption
  <2>3. DOMAIN rec.inc \subseteq 1 .. published /\ \A s \in DOMAIN rec.inc : rec.inc[s] = stream[s]
    BY <1>2
  <2>4. \A k \in DOMAIN rec.snap :
           FrameOK(rec.snap[k]) /\ rec.snap[k].seq = k /\ rec.snap[k].cycle = rec.cycle
    BY <1>2
  <2>5. RecOK(rec)
    BY <1>2, <2>1, <2>2, <2>3, <2>4 DEF RecOK
  <2>6. Ascending(rec)
    BY <1>4 DEF Ascending
  <2> QED
    BY <2>5, <2>6 DEF RecInv
<1>7. CandidateInv /\ RegressInv
  BY <1>1, <1>2 DEF CandidateInv, RegressInv, Reaches
<1>8. Generations
  BY <1>1, MarketDataAssumption DEF Generations
<1>9. EngineTypes /\ Stored
  <2>1. DOMAIN local = {}
    BY <1>1, <1>2
  <2>2. epc = "check" /\ "check" # "store"
    BY <1>1
  <2>3. localSeq \in Nat /\ bestSeq \in Nat /\ refused \in BOOLEAN
    BY <1>1
  <2> QED
    BY <2>1, <2>2, <2>3 DEF EngineTypes, Stored
<1>10. Queued /\ Markers
  BY <1>1, SeqEmpty, MarketDataAssumption DEF Queued, Markers
<1>11. ScriptInv
  <2>1. PICK B : B = [i \in 0 .. 0 |-> local]
    OBVIOUS
  <2>2. B[0] = local /\ Len(out) = 0
    BY <1>1, <2>1, SeqEmpty
  <2>3. Script(B)
    BY <1>2, <2>2 DEF Script
  <2> QED
    BY <2>3 DEF ScriptInv
<1>12. Trusted
  BY <1>1 DEF Trusted, Ready
<1> QED
  BY <1>3, <1>5, <1>6, <1>7, <1>8, <1>9, <1>10, <1>11, <1>12 DEF MarketDataInv, QueueInv

\* A stuttering step keeps it.
LEMMA StutterOK ==
    ASSUME MarketDataInv, UNCHANGED vars
    PROVE  MarketDataInv'
<1>1. /\ UNCHANGED <<exchangeVars, netVars, rec, candidate, observed>> /\ stream' = stream
      /\ UNCHANGED <<rec, observed, engineVars, out, generation, bestSeq>> /\ published' = published
  BY DEF vars, consumerVars, exchangeVars
<1>2. Bounds' /\ Limits' /\ NetInv' /\ RecInv' /\ CandidateInv' /\ RegressInv'
  BY <1>1, ExchangeSame, RegressSame
<1>3. Bounds /\ RecOK(rec) /\ QueueInv
  BY DEF MarketDataInv, RecInv
<1>4. published' \in Nat /\ published' >= published
  BY <1>1, <1>3, StreamFacts DEF Bounds
<1>5. QueueInv'
  BY <1>1, <1>3, <1>4, QueueSame
<1> QED
  BY <1>2, <1>5 DEF MarketDataInv

\* The invariant is inductive: what is in flight, cached, waiting, queued and
\* applied belongs together in every reachable state.
THEOREM MarketDataInductive == Spec => []MarketDataInv
<1>1. Init => MarketDataInv
  BY InitOK
<1>2. MarketDataInv /\ [Next]_vars => MarketDataInv'
  <2> SUFFICES ASSUME MarketDataInv, [Next]_vars PROVE MarketDataInv'
    OBVIOUS
  <2>1. CASE PublishIncremental
    BY <2>1, PublishIncrementalOK
  <2>2. CASE Synchronize
    BY <2>2, SynchronizeOK
  <2>3. CASE PublishSnapshot
    BY <2>3, PublishSnapshotOK
  <2>4. CASE Lose
    BY <2>4, LoseOK
  <2>5. CASE Garble
    BY <2>5, GarbleOK
  <2>6. CASE ReceiveIncremental
    BY <2>6, ReceiveIncrementalOK
  <2>7. CASE ReceiveSnapshot
    BY <2>7, ReceiveSnapshotOK
  <2>8. CASE ReceiveDamaged
    BY <2>8, ReceiveDamagedOK
  <2>9. CASE ObserveGeneration
    BY <2>9, ObserveGenerationOK
  <2>10. CASE PublishRecovery
    BY <2>10, PublishRecoveryOK
  <2>11. CASE EngineUpdate
    BY <2>11, EngineUpdateOK
  <2>12. CASE EngineCheckMarker
    BY <2>12, EngineCheckMarkerOK
  <2>13. CASE EngineStoreMarker
    BY <2>13, EngineStoreMarkerOK
  <2>14. CASE UNCHANGED vars
    BY <2>14, StutterOK
  <2> QED
    BY <2>1, <2>2, <2>3, <2>4, <2>5, <2>6, <2>7, <2>8, <2>9, <2>10, <2>11, <2>12, <2>13, <2>14
       DEF Next, Exchange, Network, Consumer, Engine
<1> QED
  BY <1>1, <1>2, PTL DEF Spec

\* Every variable keeps its type; the caches, the queue and the numbers of the
\* consumer keep their bounds.
THEOREM MarketDataTypeCorrect == Spec => []TypeOK
<1>1. MarketDataInv => TypeOK
  <2> SUFFICES ASSUME MarketDataInv PROVE TypeOK
    OBVIOUS
  <2>1. Bounds /\ Limits /\ NetInv /\ RecOK(rec) /\ Generations /\ EngineTypes /\ Queued
    BY DEF MarketDataInv, RecInv, QueueInv
  <2>2. /\ stream \in Streams
        /\ published \in 0 .. Len(stream) /\ synced \in 0 .. published
        /\ cycles \in 0 .. MaxCycle /\ faults \in 0 .. MaxFaults
    BY <2>1, MarketDataAssumption DEF Bounds, Limits
  <2>3. \A i \in DOMAIN incNet : incNet[i] \in 1 .. published
    <3>1. DOMAIN incNet = 1 .. Len(incNet)
      BY <2>1 DEF NetInv, IsSeq
    <3> QED
      BY <2>1, <3>1 DEF NetInv
  <2>4. \A i \in DOMAIN snapNet : snapNet[i].cycle \in 1 .. cycles
    <3>1. DOMAIN snapNet = 1 .. Len(snapNet)
      BY <2>1 DEF NetInv, IsSeq
    <3> QED
      BY <2>1, <3>1 DEF NetInv, InNet, FrameOK
  <2>5. /\ rec.recovering \in BOOLEAN /\ rec.invalid \in BOOLEAN
        /\ rec.cycle \in 0 .. cycles /\ rec.expected \in 1 .. published + 1
        /\ DOMAIN rec.inc \subseteq 1 .. published
        /\ Cached(rec) <= CacheLimit
    BY <2>1 DEF RecOK
  <2>6. /\ observed \in 2 .. generation /\ generation \in 2 .. MaxGeneration
        /\ applied \in {0} \cup 2 .. generation
    BY <2>1, MarketDataAssumption DEF Generations
  <2> QED
    BY <2>1, <2>2, <2>3, <2>4, <2>5, <2>6 DEF TypeOK, EngineTypes, Queued
<1> QED
  BY <1>1, MarketDataInductive, PTL

\* A trusted book is the exchange's book after the first localSeq updates.
THEOREM TrustedBooksAreTrue == Spec => []TrustedBookIsTrue
<1>1. MarketDataInv => TrustedBookIsTrue
  BY StreamFacts DEF MarketDataInv, Bounds, QueueInv, Trusted, TrustedBookIsTrue
<1> QED
  BY <1>1, MarketDataInductive, PTL

\* While the book is trusted the queue continues it, up to what the live consumer
\* expects next.
THEOREM TrustedFeedsAreGapless == Spec => []TrustedFeedIsGapless
<1>1. MarketDataInv => TrustedFeedIsGapless
  <2> SUFFICES ASSUME MarketDataInv, Ready
               PROVE  /\ ~rec.recovering /\ observed = generation
                      /\ rec.expected = localSeq + Len(out) + 1
                      /\ out = SubSeq(stream, localSeq + 1, localSeq + Len(out))
    BY DEF TrustedFeedIsGapless
  <2>1. /\ ~rec.recovering /\ localSeq \in 0 .. published
        /\ rec.expected = localSeq + Len(out) + 1
        /\ \A j \in 1 .. Len(out) : out[j] = stream[localSeq + j]
    BY DEF MarketDataInv, QueueInv, Trusted
  <2>2. observed = generation
    <3>1. /\ generation \in Nat /\ observed \in 2 .. generation
          /\ applied \in {0} \cup 2 .. observed /\ applied = generation /\ generation >= 2
      BY MarketDataAssumption DEF MarketDataInv, QueueInv, Generations, Ready
    <3> QED
      BY <3>1
  <2>3. PICK n, s : n \in Nat /\ s = out /\ n = Len(s) /\ s = [j \in 1 .. n |-> s[j]]
    <3>1. PICK S : out \in Seq(S)
      BY DEF MarketDataInv, QueueInv, Queued, IsSeq
    <3> QED
      BY <3>1
  <2>4. PICK p \in Nat : p = localSeq
    BY DEF MarketDataInv, QueueInv, EngineTypes
  <2>5. n \in Nat /\ p + n <= Len(stream) /\ Len(stream) \in Nat
    <3>1. /\ rec.expected \in 1 .. published + 1 /\ published \in 0 .. Len(stream) /\ Len(stream) \in Nat
      BY StreamFacts DEF MarketDataInv, RecInv, RecOK, Bounds
    <3> QED
      BY <2>1, <2>3, <2>4, <3>1
  <2>6. PICK t : t = SubSeq(stream, p + 1, p + n)
    OBVIOUS
  <2>7. t = [j \in 1 .. n |-> stream[p + j]]
    <3>1. stream \in Seq([type : UpdateTypes, id : Nat, qty : Nat])
      BY StreamFacts DEF MarketDataInv, Bounds
    <3> QED
      BY <2>5, <2>6, <3>1, SubSeqFrom
  <2>8. s = t
    BY <2>1, <2>3, <2>4, <2>7
  <2> QED
    BY <2>1, <2>2, <2>3, <2>4, <2>6, <2>8
<1> QED
  BY <1>1, MarketDataInductive, PTL

\* The checks of the engine's book never refuse an event, unless one was refused
\* for want of room since the last CLEAR.
THEOREM EngineAcceptsAll == Spec => []EngineNeverRejects
<1>1. MarketDataInv => EngineNeverRejects
  <2> SUFFICES ASSUME MarketDataInv, ~refused, out # <<>>, Head(out).type # "COMMIT"
               PROVE  Applies(local, Head(out))
    BY DEF EngineNeverRejects
  <2>1. Head(out) = out[1] /\ 1 \in 1 .. Len(out)
    BY SeqTail DEF MarketDataInv, QueueInv, Queued
  <2>2. PICK B : Script(B)
    BY DEF MarketDataInv, QueueInv, ScriptInv
  <2>3. B[0] = local /\ Follows(B, 1) /\ 1 - 1 = 0
    BY <2>1, <2>2 DEF Script, Clean
  <2> QED
    BY <2>1, <2>3 DEF Follows
<1> QED
  BY <1>1, MarketDataInductive, PTL

\* A trusted book is never behind one that was trusted before.
THEOREM NeverBackwards == Spec => []NoRegress
<1>1. MarketDataInv => NoRegress
  <2> SUFFICES ASSUME MarketDataInv, Ready PROVE localSeq >= bestSeq
    BY DEF NoRegress
  <2>1. bestSeq <= localSeq /\ localSeq \in Nat /\ bestSeq \in Nat
    BY DEF MarketDataInv, QueueInv, Trusted, EngineTypes
  <2> QED
    BY <2>1
<1> QED
  BY <1>1, MarketDataInductive, PTL
===============================================================================
