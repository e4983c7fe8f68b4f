------------------------- MODULE MatchingEngineProofs -------------------------
(* Proofs about MatchingEngine for every set of clients, ids, prices and      *)
(* quantities, and every capacity of the pools and queues.                    *)
EXTENDS MatchingEngine, CommonLemmas

-------------------------------------------------------------------------------
(* Rings as sequences.                                                        *)

\* Unlink takes one occurrence of x out and keeps the others in their order.
LEMMA UnlinkLemma ==
    ASSUME NEW T, NEW s \in Seq(T), NEW x \in ToSet(s)
    PROVE  /\ Unlink(s, x) \in Seq(T)
           /\ Len(Unlink(s, x)) = Len(s) - 1
           /\ \E k \in 1 .. Len(s) :
                 /\ s[k] = x
                 /\ \A i \in 1 .. Len(s) - 1 :
                       Unlink(s, x)[i] = IF i < k THEN s[i] ELSE s[i + 1]
<1>1. PICK k \in 1 .. Len(s) : k = CHOOSE i \in 1 .. Len(s) : s[i] = x
  BY ToSetSeq
<1>2. s[k] = x
  BY <1>1, ToSetSeq
<1>3. Unlink(s, x) = RemoveAt(s, k)
  BY <1>1 DEF Unlink
<1> QED
  BY <1>2, <1>3, RemoveAtLemma

\* Where no element occurs twice, x is gone and all others stay.
LEMMA UnlinkSet ==
    ASSUME NEW T, NEW s \in Seq(T), NEW x \in ToSet(s),
           \A i, j \in 1 .. Len(s) : i < j => s[i] # s[j]
    PROVE  ToSet(Unlink(s, x)) = ToSet(s) \ {x}
<1> DEFINE u == Unlink(s, x)
<1>1. u \in Seq(T) /\ Len(u) = Len(s) - 1
  BY UnlinkLemma
<1>2. PICK k \in 1 .. Len(s) :
         s[k] = x /\ \A i \in 1 .. Len(s) - 1 : u[i] = IF i < k THEN s[i] ELSE s[i + 1]
  BY UnlinkLemma
<1> HIDE DEF u
<1>3. ASSUME NEW i \in 1 .. Len(u) PROVE (\E j \in 1 .. Len(s) : u[i] = s[j]) /\ u[i] # x
  BY <1>1, <1>2
<1>4. ASSUME NEW j \in 1 .. Len(s), s[j] # x PROVE \E i \in 1 .. Len(u) : u[i] = s[j]
  <2>1. CASE j < k
    BY <1>1, <1>2, <2>1
  <2>2. CASE j > k
    <3>1. j - 1 \in 1 .. Len(u) /\ u[j - 1] = s[j]
      BY <1>1, <1>2, <2>2
    <3> QED
      BY <3>1
  <2> QED
    BY <1>2, <1>4, <2>1, <2>2
<1>5. \A e : /\ e \in ToSet(u) <=> \E i \in 1 .. Len(u) : u[i] = e
             /\ e \in ToSet(s) <=> \E i \in 1 .. Len(s) : s[i] = e
  BY <1>1, ToSetSeq
<1>6. ASSUME NEW e PROVE e \in ToSet(u) <=> e \in ToSet(s) /\ e # x
  <2>1. ASSUME e \in ToSet(u) PROVE e \in ToSet(s) /\ e # x
    BY <1>3, <1>5, <2>1
  <2>2. ASSUME e \in ToSet(s), e # x PROVE e \in ToSet(u)
    BY <1>4, <1>5, <2>2
  <2> QED
    BY <2>1, <2>2
<1> QED
  BY <1>6 DEF u

\* The elements of u stand in the same order in s.
KeepsOrder(u, s) ==
    \A i, j \in 1 .. Len(u) : i < j => \E a, b \in 1 .. Len(s) : a < b /\ u[i] = s[a] /\ u[j] = s[b]

LEMMA UnlinkOrder ==
    ASSUME NEW T, NEW s \in Seq(T), NEW x \in ToSet(s)
    PROVE  KeepsOrder(Unlink(s, x), s)
<1>0. PICK u : u = Unlink(s, x)
  OBVIOUS
<1>1. Len(u) = Len(s) - 1 /\ Len(s) \in Nat
  BY <1>0, UnlinkLemma
<1>2. PICK k \in 1 .. Len(s) :
         s[k] = x /\ \A n \in 1 .. Len(s) - 1 : u[n] = IF n < k THEN s[n] ELSE s[n + 1]
  BY <1>0, UnlinkLemma
<1>3. ASSUME NEW i \in 1 .. Len(u), NEW j \in 1 .. Len(u), i < j
      PROVE  \E a, b \in 1 .. Len(s) : a < b /\ u[i] = s[a] /\ u[j] = s[b]
  <2>1. PICK a \in 1 .. Len(s) : a = IF i < k THEN i ELSE i + 1
    BY <1>1
  <2>2. PICK b \in 1 .. Len(s) : b = IF j < k THEN j ELSE j + 1
    BY <1>1
  <2>3. a < b /\ u[i] = s[a] /\ u[j] = s[b]
    BY <1>1, <1>2, <1>3, <2>1, <2>2
  <2> QED
    BY <2>3
<1> QED
  BY <1>0, <1>3 DEF KeepsOrder

\* The order of the levels is strict and total.
LEMMA BetterOrder ==
    ASSUME NEW side, NEW p \in Prices, NEW q \in Prices
    PROVE  /\ ~Better(side, p, p)
           /\ Better(side, p, q) => ~Better(side, q, p) /\ p # q
           /\ p # q => Better(side, p, q) \/ Better(side, q, p)
BY BookAssumption DEF Better

LEMMA BetterTransitive ==
    ASSUME NEW side, NEW p \in Prices, NEW q \in Prices, NEW r \in Prices,
           Better(side, p, q), Better(side, q, r)
    PROVE  Better(side, p, r)
BY BookAssumption DEF Better

Sorted(side, s) == \A i, j \in 1 .. Len(s) : i < j => Better(side, s[i], s[j])

\* k is the place of p in s: better prices are before it, worse ones after it.
Place(side, s, p, k) ==
    /\ k \in 1 .. Len(s) + 1
    /\ \A j \in 1 .. k - 1 : Better(side, s[j], p)
    /\ \A j \in k .. Len(s) : Better(side, p, s[j])

\* t is s with p put in at k.
Inserted(t, s, p, k) ==
    /\ t \in Seq(Prices) /\ Len(t) = Len(s) + 1
    /\ \A i \in 1 .. Len(s) + 1 : t[i] = IF i < k THEN s[i] ELSE IF i = k THEN p ELSE s[i - 1]

\* A price put between the better and the worse ones of a ring keeps it sorted.
LEMMA InsertSorted ==
    ASSUME NEW side, NEW s \in Seq(Prices), Sorted(side, s), NEW p \in Prices,
           NEW t, NEW k, Place(side, s, p, k), Inserted(t, s, p, k)
    PROVE  Sorted(side, t) /\ ToSet(t) = ToSet(s) \cup {p}
<1> USE DEF Place, Inserted
<1>1. ASSUME NEW i \in 1 .. Len(t), NEW j \in 1 .. Len(t), i < j
      PROVE  Better(side, t[i], t[j])
  <2>1. CASE i < k /\ j < k
    BY <1>1, <2>1 DEF Sorted
  <2>2. CASE i < k /\ j = k
    BY <1>1, <2>2
  <2>3. CASE i < k /\ j > k
    <3>1. i \in 1 .. Len(s) /\ j - 1 \in 1 .. Len(s) /\ i < j - 1
      BY <1>1, <2>3
    <3>2. t[i] = s[i] /\ t[j] = s[j - 1]
      BY <1>1, <2>3
    <3> QED
      BY <3>1, <3>2 DEF Sorted
  <2>4. CASE i = k /\ j > k
    BY <1>1, <2>4
  <2>5. CASE i > k
    <3>1. i - 1 \in 1 .. Len(s) /\ j - 1 \in 1 .. Len(s) /\ i - 1 < j - 1
      BY <1>1, <2>5
    <3>2. t[i] = s[i - 1] /\ t[j] = s[j - 1]
      BY <1>1, <2>5
    <3> QED
      BY <3>1, <3>2 DEF Sorted
  <2> QED
    BY <1>1, <2>1, <2>2, <2>3, <2>4, <2>5
<1>2. ASSUME NEW i \in 1 .. Len(t) PROVE t[i] = p \/ \E j \in 1 .. Len(s) : t[i] = s[j]
  <2>1. CASE i > k
    <3>1. i - 1 \in 1 .. Len(s) /\ t[i] = s[i - 1]
      BY <2>1
    <3> QED
      BY <3>1
  <2> QED
    BY <2>1
<1>3. \E i \in 1 .. Len(t) : t[i] = p
  <2>1. k \in 1 .. Len(t) /\ t[k] = p
    OBVIOUS
  <2> QED
    BY <2>1
<1>4. ASSUME NEW j \in 1 .. Len(s) PROVE \E i \in 1 .. Len(t) : t[i] = s[j]
  <2>1. CASE j < k
    BY <2>1
  <2>2. CASE j >= k
    <3>1. j + 1 \in 1 .. Len(t) /\ t[j + 1] = s[j]
      BY <2>2
    <3> QED
      BY <3>1
  <2> QED
    BY <2>1, <2>2
<1>5. \A e : /\ e \in ToSet(t) <=> \E i \in 1 .. Len(t) : t[i] = e
             /\ e \in ToSet(s) <=> \E i \in 1 .. Len(s) : s[i] = e
  BY ToSetSeq DEF Inserted
<1>6. ASSUME NEW e PROVE e \in ToSet(t) <=> e \in ToSet(s) \/ e = p
  <2>1. ASSUME e \in ToSet(t) PROVE e \in ToSet(s) \/ e = p
    BY <1>2, <1>5, <2>1
  <2>2. ASSUME e \in ToSet(s) \/ e = p PROVE e \in ToSet(t)
    BY <1>3, <1>4, <1>5, <2>2
  <2> QED
    BY <2>1, <2>2
<1> QED
  BY <1>1, <1>6 DEF Sorted

\* addOrdersAtPrice puts a new price where it belongs.
LEMMA AddOrdersAtPriceLemma ==
    ASSUME NEW side \in Sides, NEW s \in Seq(Prices), Sorted(side, s),
           NEW p \in Prices, p \notin ToSet(s)
    PROVE  /\ AddOrdersAtPrice(side, s, p) \in Seq(Prices)
           /\ Len(AddOrdersAtPrice(side, s, p)) = Len(s) + 1
           /\ Sorted(side, AddOrdersAtPrice(side, s, p))
           /\ ToSet(AddOrdersAtPrice(side, s, p)) = ToSet(s) \cup {p}
<1> DEFINE t == AddOrdersAtPrice(side, s, p)
<1>0. \A i \in 1 .. Len(s) : s[i] \in Prices /\ s[i] # p
  BY ToSetSeq
<1>1. CASE s = <<>> \/ Better(side, p, Head(s))
  <2>1. t = <<p>> \o s
    BY <1>1 DEF AddOrdersAtPrice
  <2>2. /\ t \in Seq(Prices) /\ Len(t) = Len(s) + 1
        /\ \A i \in 1 .. Len(s) + 1 : t[i] = IF i = 1 THEN p ELSE s[i - 1]
    BY <2>1
  <2>3. \A j \in 1 .. Len(s) : Better(side, p, s[j])
    <3>1. CASE s = <<>>
      BY <3>1
    <3>2. CASE s # <<>> /\ Better(side, p, s[1])
      <4>1. ASSUME NEW j \in 1 .. Len(s) PROVE Better(side, p, s[j])
        <5>1. j = 1 \/ Better(side, s[1], s[j])
          BY <3>2 DEF Sorted
        <5>2. s[1] \in Prices /\ s[j] \in Prices
          BY <3>2
        <5> QED
          BY <3>2, <5>1, <5>2, BetterTransitive
      <4> QED
        BY <4>1
    <3> QED
      BY <1>1, <3>1, <3>2
  <2> HIDE DEF t
  <2>4. Sorted(side, t) /\ ToSet(t) = ToSet(s) \cup {p}
    <3>1. Place(side, s, p, 1) /\ Inserted(t, s, p, 1)
      BY <2>2, <2>3 DEF Place, Inserted
    <3> QED
      BY <3>1, InsertSorted
  <2> QED
    BY <2>2, <2>4 DEF t
<1>2. CASE /\ s # <<>> /\ ~Better(side, p, Head(s))
           /\ ~Better(side, p, Last(s))
  <2>1. t = Append(s, p)
    BY <1>2 DEF AddOrdersAtPrice
  <2>2. /\ t \in Seq(Prices) /\ Len(t) = Len(s) + 1
        /\ \A i \in 1 .. Len(s) + 1 : t[i] = IF i < Len(s) + 1 THEN s[i] ELSE p
    BY <2>1
  <2>3. ASSUME NEW j \in 1 .. Len(s) PROVE Better(side, s[j], p)
    <3>1. Len(s) \in 1 .. Len(s) /\ ~Better(side, p, s[Len(s)])
      BY <1>2 DEF Last
    <3>2. Better(side, s[Len(s)], p)
      BY <1>0, <3>1, BetterOrder
    <3>3. j = Len(s) \/ Better(side, s[j], s[Len(s)])
      BY <3>1 DEF Sorted
    <3>4. s[j] \in Prices /\ s[Len(s)] \in Prices
      BY <3>1
    <3> QED
      BY <3>2, <3>3, <3>4, BetterTransitive
  <2> HIDE DEF t
  <2>4. Sorted(side, t) /\ ToSet(t) = ToSet(s) \cup {p}
    <3>1. Place(side, s, p, Len(s) + 1) /\ Inserted(t, s, p, Len(s) + 1)
      BY <2>2, <2>3 DEF Place, Inserted
    <3> QED
      BY <3>1, InsertSorted
  <2> QED
    BY <2>2, <2>4 DEF t
<1>3. CASE /\ s # <<>> /\ ~Better(side, p, Head(s))
           /\ Better(side, p, Last(s))
  <2> DEFINE ok(k) == /\ ~Better(side, s[k], p)
                      /\ \A j \in 2 .. k - 1 : Better(side, s[j], p)
  <2>1. t = InsertAt(s, CHOOSE k \in 2 .. Len(s) : ok(k), p)
    BY <1>3 DEF AddOrdersAtPrice
  <2>2. 1 \in 1 .. Len(s) /\ Len(s) \in 2 .. Len(s) /\ Better(side, s[1], p)
    <3>1. Len(s) >= 1 /\ Head(s) = s[1]
      BY <1>3
    <3>2. s[1] # s[Len(s)]
      BY <1>3, <3>1 DEF Last
    <3>3. Better(side, s[1], p)
      <4>1. s[1] \in Prices /\ s[1] # p /\ ~Better(side, p, s[1])
        BY <1>0, <1>3, <3>1
      <4> QED
        BY <4>1, BetterOrder
    <3> QED
      BY <3>1, <3>2, <3>3
  <2>3. \E k \in 2 .. Len(s) : ok(k)
    <3>1. PICK K : K = {k \in 2 .. Len(s) : ~Better(side, s[k], p)}
      OBVIOUS
    <3>2. ~Better(side, s[Len(s)], p)
      <4>1. s[Len(s)] \in Prices /\ Better(side, p, s[Len(s)])
        BY <1>0, <1>3, <2>2 DEF Last
      <4> QED
        BY <4>1, BetterOrder
    <3>3. K \in SUBSET Nat /\ K # {}
      BY <2>2, <3>1, <3>2
    <3>4. PICK k \in K : \A m \in K : k <= m
      BY <3>3, LeastNat
    <3> QED
      BY <3>1, <3>4
  <2>4. PICK k \in 2 .. Len(s) : ok(k) /\ t = InsertAt(s, k, p)
    BY <2>1, <2>3
  <2>5. Inserted(t, s, p, k)
    <3>1. k \in 1 .. Len(s) + 1
      BY <2>4
    <3>2. Inserted(InsertAt(s, k, p), s, p, k)
      BY <3>1, InsertAtLemma DEF Inserted
    <3> QED
      BY <2>4, <3>2
  <2>6. \A j \in 1 .. k - 1 : Better(side, s[j], p)
    BY <2>2, <2>4
  <2>7. ASSUME NEW j \in k .. Len(s) PROVE Better(side, p, s[j])
    <3>1. s[k] \in Prices /\ s[j] \in Prices /\ s[k] # p
      BY <1>0, <2>4
    <3>2. Better(side, p, s[k])
      BY <2>4, <3>1, BetterOrder
    <3>3. j = k \/ Better(side, s[k], s[j])
      BY <2>4 DEF Sorted
    <3> QED
      BY <3>1, <3>2, <3>3, BetterTransitive
  <2>8. Place(side, s, p, k)
    BY <2>4, <2>6, <2>7 DEF Place
  <2> HIDE DEF t, ok
  <2>9. Sorted(side, t) /\ ToSet(t) = ToSet(s) \cup {p}
    BY <2>5, <2>8, InsertSorted
  <2> QED
    BY <2>5, <2>9 DEF t, Inserted
<1> QED
  BY <1>1, <1>2, <1>3

-------------------------------------------------------------------------------
(* The book.                                                                  *)

Orders == [client : Clients, oid : OrderIds, side : Sides, price : Prices,
           qty : Nat \ {0}, priority : Nat \ {0}]
Key(o) == <<o.client, o.oid>>

BookTypes ==
    /\ ring \in [Sides -> Seq(Prices)]
    /\ level \in [Sides -> [Prices -> Seq(MarketIds)]]
    /\ DOMAIN order \subseteq MarketIds
    /\ order \in [DOMAIN order -> Orders]
    /\ index = [k \in DOMAIN index |-> index[k]]

\* No bid at or above an ask, also while an order is being matched: the taker is
\* not in the book.
Uncrossed ==
    \A m, n \in DOMAIN order :
        order[m].side = "BUY" /\ order[n].side = "SELL" => order[m].price < order[n].price

BookInv == BookTypes /\ RingsSorted /\ LevelsExact /\ IndexExact /\ TimePriority /\ Uncrossed

\* The orders in a level, by index.
LEMMA LevelMember ==
    ASSUME BookInv, NEW s \in Sides, NEW p \in Prices
    PROVE  /\ level[s][p] \in Seq(MarketIds) /\ ring[s] \in Seq(Prices)
           /\ \A m : (\E i \in 1 .. Len(level[s][p]) : level[s][p][i] = m)
                        <=> m \in DOMAIN order /\ order[m].side = s /\ order[m].price = p
           /\ \A m : m \in ToSet(level[s][p])
                        <=> m \in DOMAIN order /\ order[m].side = s /\ order[m].price = p
           /\ p \in ToSet(ring[s]) <=> level[s][p] # <<>>
<1>1. level[s][p] \in Seq(MarketIds) /\ ring[s] \in Seq(Prices)
  BY DEF BookInv, BookTypes
<1>2. \A m : m \in ToSet(level[s][p]) <=> \E i \in 1 .. Len(level[s][p]) : level[s][p][i] = m
  BY <1>1, ToSetSeq
<1> QED
  BY <1>1, <1>2 DEF BookInv, LevelsExact

\* removeOrder takes order o with market id m out of its FIFO and leaves rest there.
Removing(m, o, rest) ==
    /\ m \in DOMAIN order /\ o = order[m]
    /\ rest = Unlink(level[o.side][o.price], m)
    /\ RemoveOrder(m)

\* What removeOrder does, level by level.
LEMMA RemoveOrderEffect ==
    ASSUME BookInv, NEW m, NEW o, NEW rest, Removing(m, o, rest)
    PROVE  /\ rest \in Seq(MarketIds)
           /\ ToSet(rest) = ToSet(level[o.side][o.price]) \ {m}
           /\ level' \in [Sides -> [Prices -> Seq(MarketIds)]]
           /\ \A s \in Sides, p \in Prices :
                 level'[s][p] = IF s = o.side /\ p = o.price THEN rest ELSE level[s][p]
           /\ ring' \in [Sides -> Seq(Prices)]
           /\ \A s \in Sides :
                 ring'[s] = IF s = o.side /\ rest = <<>> THEN Unlink(ring[s], o.price) ELSE ring[s]
<1> DEFINE old == level[o.side][o.price]
<1>1. o \in Orders /\ o.side \in Sides /\ o.price \in Prices
  BY DEF BookInv, BookTypes, Orders, Removing
<1>2. old \in Seq(MarketIds) /\ m \in ToSet(old) /\ o.price \in ToSet(ring[o.side])
  <2>1. old \in Seq(MarketIds) /\ m \in ToSet(old)
    BY <1>1, LevelMember DEF Removing
  <2>2. old # <<>>
    BY <2>1, ToSetSeq
  <2> QED
    BY <1>1, <2>1, <2>2, LevelMember
<1>3. \A i, j \in 1 .. Len(old) : i < j => old[i] # old[j]
  <2> SUFFICES ASSUME NEW i \in 1 .. Len(old), NEW j \in 1 .. Len(old), i < j
               PROVE  old[i] # old[j]
    OBVIOUS
  <2>1. old[i] < old[j]
    BY <1>1 DEF BookInv, TimePriority
  <2>2. old[i] \in MarketIds /\ old[j] \in MarketIds
    BY <1>2
  <2> QED
    BY <2>1, <2>2 DEF MarketIds
<1>4. rest \in Seq(MarketIds) /\ ToSet(rest) = ToSet(old) \ {m}
  <2>1. rest = Unlink(old, m)
    BY DEF Removing
  <2> HIDE DEF old
  <2>2. rest \in Seq(MarketIds)
    BY <1>2, <2>1, UnlinkLemma
  <2>3. ToSet(rest) = ToSet(old) \ {m}
    BY <1>2, <1>3, <2>1, UnlinkSet
  <2> QED
    BY <2>2, <2>3
<1>5. ring[o.side] \in Seq(Prices) /\ Unlink(ring[o.side], o.price) \in Seq(Prices)
  <2>1. ring[o.side] \in Seq(Prices)
    BY <1>1 DEF BookInv, BookTypes
  <2> QED
    BY <1>2, <2>1, UnlinkLemma
<1>6. /\ level' = [level EXCEPT ![o.side][o.price] = rest]
      /\ ring' = IF rest = <<>> THEN [ring EXCEPT ![o.side] = Unlink(@, o.price)] ELSE ring
  BY DEF Removing, RemoveOrder, RemoveOrdersAtPrice
<1> HIDE DEF old
<1>7. /\ level' \in [Sides -> [Prices -> Seq(MarketIds)]]
      /\ \A s \in Sides, p \in Prices :
            level'[s][p] = IF s = o.side /\ p = o.price THEN rest ELSE level[s][p]
  BY <1>1, <1>4, <1>6 DEF BookInv, BookTypes
<1>8. /\ ring' \in [Sides -> Seq(Prices)]
      /\ \A s \in Sides :
            ring'[s] = IF s = o.side /\ rest = <<>> THEN Unlink(ring[s], o.price) ELSE ring[s]
  BY <1>1, <1>5, <1>6 DEF BookInv, BookTypes
<1> QED
  BY <1>4, <1>7, <1>8 DEF old

\* removeOrder keeps every structure of the book exact.
LEMMA RemoveOrderInv ==
    ASSUME BookInv, NEW m \in DOMAIN order, RemoveOrder(m)
    PROVE  /\ BookInv'
           /\ DOMAIN order' = DOMAIN order \ {m}
           /\ \A n \in DOMAIN order' : order'[n] = order[n]
           /\ DOMAIN index' = DOMAIN index \ {Key(order[m])}
           /\ \A k \in DOMAIN index' : index'[k] = index[k]
           /\ \A s \in Sides : Len(ring'[s]) <= Len(ring[s]) /\ Len(ring'[s]) \in Nat
           /\ \A s \in Sides : s # order[m].side => level'[s] = level[s]
<1>1. PICK o : o = order[m]
  OBVIOUS
<1>2. PICK rest : rest = Unlink(level[o.side][o.price], m)
  OBVIOUS
<1>3. o \in Orders /\ o.side \in Sides /\ o.price \in Prices
  BY <1>1 DEF BookInv, BookTypes, Orders
<1>4. /\ rest \in Seq(MarketIds)
      /\ ToSet(rest) = ToSet(level[o.side][o.price]) \ {m}
      /\ level' \in [Sides -> [Prices -> Seq(MarketIds)]]
      /\ \A s \in Sides, p \in Prices :
            level'[s][p] = IF s = o.side /\ p = o.price THEN rest ELSE level[s][p]
      /\ ring' \in [Sides -> Seq(Prices)]
      /\ \A s \in Sides :
            ring'[s] = IF s = o.side /\ rest = <<>> THEN Unlink(ring[s], o.price) ELSE ring[s]
  <2>1. Removing(m, o, rest)
    BY <1>1, <1>2 DEF Removing
  <2> QED
    BY <2>1, RemoveOrderEffect
<1>5. /\ DOMAIN order' = DOMAIN order \ {m}
      /\ \A n \in DOMAIN order' : order'[n] = order[n]
      /\ DOMAIN index' = DOMAIN index \ {Key(o)}
      /\ \A k \in DOMAIN index' : index'[k] = index[k]
      /\ index' = [k \in DOMAIN index' |-> index'[k]]
      /\ order' = [n \in DOMAIN order' |-> order'[n]]
  BY <1>1 DEF RemoveOrder, Drop, Key
<1>6. BookTypes'
  <2>1. DOMAIN order' \subseteq MarketIds
    BY <1>5 DEF BookInv, BookTypes
  <2>2. order' \in [DOMAIN order' -> Orders]
    <3>1. \A n \in DOMAIN order' : order'[n] \in Orders
      BY <1>5 DEF BookInv, BookTypes
    <3> QED
      BY <1>5, <3>1
  <2> QED
    BY <1>4, <1>5, <2>1, <2>2 DEF BookTypes
<1>7. /\ ring[o.side] \in Seq(Prices) /\ o.price \in ToSet(ring[o.side])
      /\ m \in ToSet(level[o.side][o.price])
      /\ level[o.side][o.price] \in Seq(MarketIds)
  <2>1. level[o.side][o.price] \in Seq(MarketIds) /\ m \in ToSet(level[o.side][o.price])
    BY <1>1, <1>3, LevelMember
  <2>2. level[o.side][o.price] # <<>>
    BY <2>1, ToSetSeq
  <2> QED
    BY <1>3, <2>1, <2>2, LevelMember
<1>8. RingsSorted'
  <2> SUFFICES ASSUME NEW s \in Sides,
                      NEW i \in 1 .. Len(ring'[s]), NEW j \in 1 .. Len(ring'[s]), i < j
               PROVE  Better(s, ring'[s][i], ring'[s][j])
    BY DEF RingsSorted, Better
  <2>1. CASE s = o.side /\ rest = <<>>
    <3>1. ring'[s] = Unlink(ring[s], o.price)
      BY <1>4, <2>1
    <3>a. ring[s] \in Seq(Prices) /\ o.price \in ToSet(ring[s])
      BY <1>7, <2>1
    <3>b. KeepsOrder(ring'[s], ring[s])
      BY <3>1, <3>a, UnlinkOrder
    <3>2. PICK a, b \in 1 .. Len(ring[s]) :
             a < b /\ ring'[s][i] = ring[s][a] /\ ring'[s][j] = ring[s][b]
      BY <3>b DEF KeepsOrder
    <3> QED
      BY <3>2 DEF BookInv, RingsSorted
  <2>2. CASE ~(s = o.side /\ rest = <<>>)
    BY <1>4, <2>2 DEF BookInv, RingsSorted
  <2> QED
    BY <2>1, <2>2
<1>9. \A s \in Sides :
         Len(ring'[s]) \in Nat /\ Len(ring'[s]) <= Len(ring[s])
  <2> SUFFICES ASSUME NEW s \in Sides
               PROVE  Len(ring'[s]) \in Nat /\ Len(ring'[s]) <= Len(ring[s])
    OBVIOUS
  <2>1. CASE s = o.side /\ rest = <<>>
    <3>1. ring'[s] = Unlink(ring[s], o.price)
      BY <1>4, <2>1
    <3>2. Len(ring'[s]) = Len(ring[s]) - 1
      BY <1>7, <2>1, <3>1, UnlinkLemma
    <3> QED
      BY <1>4, <1>7, <2>1, <3>2
  <2>2. CASE ~(s = o.side /\ rest = <<>>)
    <3>1. ring'[s] = ring[s] /\ ring[s] \in Seq(Prices)
      BY <1>4, <2>2
    <3> QED
      BY <3>1
  <2> QED
    BY <2>1, <2>2
<1>10. LevelsExact'
  <2> SUFFICES ASSUME NEW s \in Sides, NEW p \in Prices
               PROVE  /\ p \in ToSet(ring'[s]) <=> level'[s][p] # <<>>
                      /\ ToSet(level'[s][p]) =
                            {n \in DOMAIN order' : order'[n].side = s /\ order'[n].price = p}
    BY DEF LevelsExact, ToSet
  <2>1. ToSet(level[s][p]) = {n \in DOMAIN order : order[n].side = s /\ order[n].price = p}
    BY DEF BookInv, LevelsExact
  <2>2. p \in ToSet(ring[s]) <=> level[s][p] # <<>>
    BY DEF BookInv, LevelsExact
  <2>3. ToSet(level'[s][p]) = {n \in DOMAIN order' : order'[n].side = s /\ order'[n].price = p}
    <3>1. CASE s = o.side /\ p = o.price
      <4>1. ToSet(level'[s][p]) = ToSet(level[s][p]) \ {m}
        BY <1>4, <3>1
      <4> QED
        BY <1>1, <1>5, <2>1, <4>1
    <3>2. CASE ~(s = o.side /\ p = o.price)
      <4>1. level'[s][p] = level[s][p]
        BY <1>4, <3>2
      <4> QED
        BY <1>1, <1>5, <2>1, <3>2, <4>1
    <3> QED
      BY <3>1, <3>2
  <2>4. p \in ToSet(ring'[s]) <=> level'[s][p] # <<>>
    <3>1. CASE s = o.side /\ rest = <<>>
      <4>1. \A i, j \in 1 .. Len(ring[s]) : i < j => ring[s][i] # ring[s][j]
        <5> SUFFICES ASSUME NEW i \in 1 .. Len(ring[s]), NEW j \in 1 .. Len(ring[s]), i < j
                     PROVE  ring[s][i] # ring[s][j]
          OBVIOUS
        <5>1. Better(s, ring[s][i], ring[s][j])
          BY DEF BookInv, RingsSorted
        <5>2. ring[s][i] \in Prices /\ ring[s][j] \in Prices
          BY <1>7, <3>1
        <5> QED
          BY <5>1, <5>2, BetterOrder
      <4>2. ToSet(ring'[s]) = ToSet(ring[s]) \ {o.price}
        <5>1. ring'[s] = Unlink(ring[s], o.price)
          BY <1>4, <3>1
        <5> QED
          BY <1>7, <3>1, <4>1, <5>1, UnlinkSet
      <4>3. level'[s][p] = IF p = o.price THEN <<>> ELSE level[s][p]
        BY <1>4, <3>1
      <4> QED
        BY <2>2, <4>2, <4>3
    <3>2. CASE s = o.side /\ rest # <<>>
      <4>1. ring'[s] = ring[s] /\ level'[s][p] = IF p = o.price THEN rest ELSE level[s][p]
        BY <1>4, <3>2
      <4> QED
        BY <1>7, <2>2, <3>2, <4>1
    <3>3. CASE s # o.side
      <4>1. ring'[s] = ring[s] /\ level'[s][p] = level[s][p]
        BY <1>4, <3>3
      <4> QED
        BY <2>2, <4>1
    <3> QED
      BY <3>1, <3>2, <3>3
  <2> QED
    BY <2>3, <2>4
<1>11. IndexExact'
  <2>1. ASSUME NEW n \in DOMAIN order'
        PROVE  /\ <<order'[n].client, order'[n].oid>> \in DOMAIN index'
               /\ index'[<<order'[n].client, order'[n].oid>>] = n
    BY <1>1, <1>5 DEF BookInv, IndexExact, Key
  <2>2. ASSUME NEW k \in DOMAIN index'
        PROVE  /\ index'[k] \in DOMAIN order'
               /\ <<order'[index'[k]].client, order'[index'[k]].oid>> = k
    BY <1>1, <1>5 DEF BookInv, IndexExact, Key
  <2> QED
    BY <2>1, <2>2 DEF IndexExact
<1>12. TimePriority'
  <2> SUFFICES ASSUME NEW s \in Sides, NEW p \in Prices,
                      NEW i \in 1 .. Len(level'[s][p]), NEW j \in 1 .. Len(level'[s][p]), i < j
               PROVE  /\ level'[s][p][i] < level'[s][p][j]
                      /\ order'[level'[s][p][i]].priority < order'[level'[s][p][j]].priority
    BY DEF TimePriority
  <2>1. PICK a, b \in 1 .. Len(level[s][p]) :
           a < b /\ level'[s][p][i] = level[s][p][a] /\ level'[s][p][j] = level[s][p][b]
    <3>1. CASE s = o.side /\ p = o.price
      <4>1. level'[s][p] = Unlink(level[s][p], m)
        BY <1>2, <1>4, <3>1
      <4>2. level[s][p] \in Seq(MarketIds) /\ m \in ToSet(level[s][p])
        BY <1>7, <3>1
      <4>3. PICK old : old = level[s][p]
        OBVIOUS
      <4>4. /\ old \in Seq(MarketIds) /\ m \in ToSet(old) /\ level'[s][p] = Unlink(old, m)
            /\ i \in 1 .. Len(Unlink(old, m)) /\ j \in 1 .. Len(Unlink(old, m))
        BY <4>1, <4>2, <4>3
      <4>5. \E a, b \in 1 .. Len(old) : a < b /\ Unlink(old, m)[i] = old[a] /\ Unlink(old, m)[j] = old[b]
        BY <4>4, UnlinkOrder DEF KeepsOrder
      <4> QED
        BY <4>3, <4>4, <4>5
    <3>2. CASE ~(s = o.side /\ p = o.price)
      BY <1>4, <3>2
    <3> QED
      BY <3>1, <3>2
  <2>2. /\ level[s][p][a] < level[s][p][b]
        /\ order[level[s][p][a]].priority < order[level[s][p][b]].priority
    BY <2>1 DEF BookInv, TimePriority
  <2>3. level'[s][p][i] \in DOMAIN order' /\ level'[s][p][j] \in DOMAIN order'
    <3>1. \A n \in ToSet(level'[s][p]) : n \in DOMAIN order'
      BY <1>10 DEF LevelsExact
    <3>2. level'[s][p] \in Seq(MarketIds)
      BY <1>4
    <3> QED
      BY <3>1, <3>2, ToSetSeq
  <2> QED
    BY <1>5, <2>1, <2>2, <2>3
<1>13. Uncrossed'
  BY <1>5 DEF BookInv, Uncrossed
<1>14. \A s \in Sides : s # o.side => level'[s] = level[s]
  BY <1>1, <1>3, <1>4 DEF BookInv, BookTypes, RemoveOrder
<1> QED
  BY <1>1, <1>5, <1>6, <1>8, <1>9, <1>10, <1>11, <1>12, <1>13, <1>14 DEF BookInv

\* getNextPriority is above every priority of the level.
LEMMA NextPriorityLemma ==
    ASSUME BookInv, NEW s \in Sides, NEW p \in Prices
    PROVE  /\ NextPriority(s, p) \in Nat \ {0}
           /\ \A i \in 1 .. Len(level[s][p]) :
                 order[level[s][p][i]].priority < NextPriority(s, p)
<1>1. PICK l : l = level[s][p]
  OBVIOUS
<1>2. l \in Seq(MarketIds) /\ \A i \in 1 .. Len(l) : l[i] \in DOMAIN order
  BY <1>1, LevelMember
<1>3. \A i \in 1 .. Len(l) : order[l[i]].priority \in Nat
  BY <1>2 DEF BookInv, BookTypes, Orders
<1>4. CASE l = <<>>
  BY <1>1, <1>4 DEF NextPriority
<1>5. CASE l # <<>>
  <2>1. NextPriority(s, p) = order[l[Len(l)]].priority + 1
    BY <1>1, <1>5 DEF NextPriority, Last
  <2>2. Len(l) \in 1 .. Len(l)
    BY <1>2, <1>5
  <2>3. \A i \in 1 .. Len(l) : i < Len(l) => order[l[i]].priority < order[l[Len(l)]].priority
    BY <1>1, <2>2 DEF BookInv, TimePriority
  <2>4. PICK q \in Nat : q = order[l[Len(l)]].priority
    BY <1>3, <2>2
  <2>5. ASSUME NEW i \in 1 .. Len(l) PROVE order[l[i]].priority < q + 1
    <3>1. CASE i = Len(l)
      BY <2>4, <3>1
    <3>2. CASE i # Len(l)
      <4>1. i < Len(l)
        BY <1>2, <3>2
      <4>2. order[l[i]].priority < q /\ order[l[i]].priority \in Nat
        BY <1>3, <2>3, <2>4, <4>1
      <4> QED
        BY <4>2
    <3> QED
      BY <3>1, <3>2
  <2>6. NextPriority(s, p) = q + 1
    BY <2>1, <2>4
  <2> QED
    BY <1>1, <2>5, <2>6
<1> QED
  BY <1>4, <1>5

\* addOrder adds o under the newest market id m; o crosses no resting order.
Adding(m, o) ==
    /\ m \in MarketIds /\ \A n \in DOMAIN order : n < m
    /\ o \in Orders /\ Key(o) \notin DOMAIN index
    /\ o.priority = NextPriority(o.side, o.price)
    /\ \A n \in DOMAIN order :
          order[n].side # o.side => Better(order[n].side, o.price, order[n].price)
    /\ AddOrder(m, o)

\* Order o has joined the others.
Added(m, o) ==
    /\ DOMAIN order' = DOMAIN order \cup {m} /\ m \notin DOMAIN order
    /\ \A n \in DOMAIN order' : order'[n] = IF n = m THEN o ELSE order[n]
    /\ DOMAIN index' = DOMAIN index \cup {Key(o)}
    /\ \A k \in DOMAIN index' : index'[k] = IF k = Key(o) THEN m ELSE index[k]

\* addOrder keeps every structure of the book exact.
LEMMA AddOrderInv ==
    ASSUME BookInv, NEW m, NEW o, Adding(m, o)
    PROVE  /\ BookInv' /\ Added(m, o)
           /\ \A s \in Sides :
                 /\ Len(ring[s]) \in Nat
                 /\ Len(ring'[s]) = IF s = o.side /\ level[s][o.price] = <<>>
                                    THEN Len(ring[s]) + 1 ELSE Len(ring[s])
<1>1. /\ m \in MarketIds /\ m \notin DOMAIN order
      /\ o \in Orders /\ o.side \in Sides /\ o.price \in Prices
  BY DEF Adding, Orders, MarketIds
<1>2. PICK old : old = level[o.side][o.price]
  OBVIOUS
<1>3. old \in Seq(MarketIds) /\ ring[o.side] \in Seq(Prices) /\ (o.price \in ToSet(ring[o.side]) <=> old # <<>>)
  BY <1>1, <1>2, LevelMember
<1>4. PICK added : added = AddOrdersAtPrice(o.side, ring[o.side], o.price)
  OBVIOUS
<1>5. old = <<>> => /\ added \in Seq(Prices) /\ Len(added) = Len(ring[o.side]) + 1
                    /\ Sorted(o.side, added)
                    /\ ToSet(added) = ToSet(ring[o.side]) \cup {o.price}
  <2>1. Sorted(o.side, ring[o.side])
    BY <1>1 DEF BookInv, RingsSorted, Sorted
  <2> QED
    BY <1>1, <1>3, <1>4, <2>1, AddOrdersAtPriceLemma
<1>6. /\ level' \in [Sides -> [Prices -> Seq(MarketIds)]]
      /\ \A s \in Sides, p \in Prices :
            level'[s][p] = IF s = o.side /\ p = o.price THEN Append(old, m) ELSE level[s][p]
  <2>1. level' = [level EXCEPT ![o.side][o.price] = Append(old, m)]
    BY <1>2 DEF Adding, AddOrder
  <2>2. Append(old, m) \in Seq(MarketIds)
    BY <1>1, <1>3
  <2> QED
    BY <1>1, <2>1, <2>2 DEF BookInv, BookTypes
<1>7. /\ ring' \in [Sides -> Seq(Prices)]
      /\ \A s \in Sides : ring'[s] = IF s = o.side /\ old = <<>> THEN added ELSE ring[s]
  <2>1. ring' = IF old = <<>> THEN [ring EXCEPT ![o.side] = added] ELSE ring
    BY <1>2, <1>4 DEF Adding, AddOrder
  <2> QED
    BY <1>1, <1>5, <2>1 DEF BookInv, BookTypes
<1>8. /\ DOMAIN order' = DOMAIN order \cup {m}
      /\ \A n \in DOMAIN order' : order'[n] = IF n = m THEN o ELSE order[n]
      /\ DOMAIN index' = DOMAIN index \cup {Key(o)}
      /\ \A k \in DOMAIN index' : index'[k] = IF k = Key(o) THEN m ELSE index[k]
      /\ index' = [k \in DOMAIN index' |-> index'[k]]
      /\ order' = [n \in DOMAIN order' |-> order'[n]]
  BY DEF Adding, AddOrder, Put, Key
<1>9. BookTypes'
  <2>1. DOMAIN order' \subseteq MarketIds
    BY <1>1, <1>8 DEF BookInv, BookTypes
  <2>2. order' \in [DOMAIN order' -> Orders]
    <3>1. \A n \in DOMAIN order' : order'[n] \in Orders
      BY <1>1, <1>8 DEF BookInv, BookTypes
    <3> QED
      BY <1>8, <3>1
  <2> QED
    BY <1>6, <1>7, <1>8, <2>1, <2>2 DEF BookTypes
<1>10. RingsSorted'
  <2> SUFFICES ASSUME NEW s \in Sides PROVE Sorted(s, ring'[s])
    BY DEF RingsSorted, Sorted, Better
  <2>1. CASE s = o.side /\ old = <<>>
    BY <1>5, <1>7, <2>1
  <2>2. CASE ~(s = o.side /\ old = <<>>)
    <3>1. Sorted(s, ring[s])
      BY DEF BookInv, RingsSorted, Sorted
    <3> QED
      BY <1>7, <2>2, <3>1
  <2> QED
    BY <2>1, <2>2
<1>11. \A s \in Sides :
          /\ Len(ring[s]) \in Nat
          /\ Len(ring'[s]) = IF s = o.side /\ level[s][o.price] = <<>>
                             THEN Len(ring[s]) + 1 ELSE Len(ring[s])
  <2> SUFFICES ASSUME NEW s \in Sides
               PROVE  /\ Len(ring[s]) \in Nat
                      /\ Len(ring'[s]) = IF s = o.side /\ level[s][o.price] = <<>>
                                         THEN Len(ring[s]) + 1 ELSE Len(ring[s])
    OBVIOUS
  <2>1. ring[s] \in Seq(Prices)
    BY DEF BookInv, BookTypes
  <2> QED
    BY <1>2, <1>5, <1>7, <2>1
<1>12. LevelsExact'
  <2> SUFFICES ASSUME NEW s \in Sides, NEW p \in Prices
               PROVE  /\ p \in ToSet(ring'[s]) <=> level'[s][p] # <<>>
                      /\ ToSet(level'[s][p]) =
                            {n \in DOMAIN order' : order'[n].side = s /\ order'[n].price = p}
    BY DEF LevelsExact, ToSet
  <2>1. ToSet(level[s][p]) = {n \in DOMAIN order : order[n].side = s /\ order[n].price = p}
    BY DEF BookInv, LevelsExact
  <2>2. p \in ToSet(ring[s]) <=> level[s][p] # <<>>
    BY DEF BookInv, LevelsExact
  <2>3. Append(old, m) # <<>> /\ ToSet(Append(old, m)) = ToSet(old) \cup {m}
    BY <1>1, <1>3, AppendToSet
  <2>4. ToSet(level'[s][p]) = {n \in DOMAIN order' : order'[n].side = s /\ order'[n].price = p}
    <3>1. CASE s = o.side /\ p = o.price
      <4>1. ToSet(level'[s][p]) = ToSet(level[s][p]) \cup {m}
        BY <1>2, <1>6, <2>3, <3>1
      <4> QED
        BY <1>1, <1>8, <2>1, <3>1, <4>1
    <3>2. CASE ~(s = o.side /\ p = o.price)
      <4>1. level'[s][p] = level[s][p]
        BY <1>6, <3>2
      <4> QED
        BY <1>1, <1>8, <2>1, <3>2, <4>1
    <3> QED
      BY <3>1, <3>2
  <2>5. p \in ToSet(ring'[s]) <=> level'[s][p] # <<>>
    <3>1. CASE s = o.side /\ old = <<>>
      <4>1. ToSet(ring'[s]) = ToSet(ring[s]) \cup {o.price}
        BY <1>5, <1>7, <3>1
      <4>2. level'[s][p] = IF p = o.price THEN Append(old, m) ELSE level[s][p]
        BY <1>6, <3>1
      <4> QED
        BY <2>2, <2>3, <4>1, <4>2
    <3>2. CASE s = o.side /\ old # <<>>
      <4>1. ring'[s] = ring[s] /\ level'[s][p] = IF p = o.price THEN Append(old, m) ELSE level[s][p]
        BY <1>6, <1>7, <3>2
      <4> QED
        BY <1>3, <2>2, <2>3, <3>2, <4>1
    <3>3. CASE s # o.side
      <4>1. ring'[s] = ring[s] /\ level'[s][p] = level[s][p]
        BY <1>6, <1>7, <3>3
      <4> QED
        BY <2>2, <4>1
    <3> QED
      BY <3>1, <3>2, <3>3
  <2> QED
    BY <2>4, <2>5
<1>13. IndexExact'
  <2>1. ASSUME NEW n \in DOMAIN order'
        PROVE  /\ <<order'[n].client, order'[n].oid>> \in DOMAIN index'
               /\ index'[<<order'[n].client, order'[n].oid>>] = n
    BY <1>8 DEF BookInv, IndexExact, Key, Adding
  <2>2. ASSUME NEW k \in DOMAIN index'
        PROVE  /\ index'[k] \in DOMAIN order'
               /\ <<order'[index'[k]].client, order'[index'[k]].oid>> = k
    BY <1>1, <1>8 DEF BookInv, IndexExact, Key
  <2> QED
    BY <2>1, <2>2 DEF IndexExact
<1>14. TimePriority'
  <2> SUFFICES ASSUME NEW s \in Sides, NEW p \in Prices,
                      NEW i \in 1 .. Len(level'[s][p]), NEW j \in 1 .. Len(level'[s][p]), i < j
               PROVE  /\ level'[s][p][i] < level'[s][p][j]
                      /\ order'[level'[s][p][i]].priority < order'[level'[s][p][j]].priority
    BY DEF TimePriority
  <2>1. PICK l : l = level[s][p]
    OBVIOUS
  <2>2. l \in Seq(MarketIds) /\ \A a \in 1 .. Len(l) : l[a] \in DOMAIN order
    BY <2>1, LevelMember
  <2>3. \A a, b \in 1 .. Len(l) : a < b => /\ l[a] < l[b]
                                           /\ order[l[a]].priority < order[l[b]].priority
    BY <2>1 DEF BookInv, TimePriority
  <2>4. CASE s = o.side /\ p = o.price
    <3>1. level'[s][p] = Append(l, m)
      BY <1>2, <1>6, <2>1, <2>4
    <3>2. i \in 1 .. Len(l) /\ level'[s][p][i] = l[i] /\ l[i] \in DOMAIN order
      BY <2>2, <3>1
    <3>3. CASE j \in 1 .. Len(l)
      <4>1. level'[s][p][j] = l[j] /\ l[j] \in DOMAIN order
        BY <2>2, <3>1, <3>3
      <4> QED
        BY <1>1, <1>8, <2>3, <3>2, <3>3, <4>1
    <3>4. CASE j = Len(l) + 1
      <4>1. level'[s][p][j] = m
        BY <2>2, <3>1, <3>4
      <4>2. l[i] < m /\ order[l[i]].priority < o.priority
        BY <2>1, <2>4, <3>2, NextPriorityLemma DEF Adding
      <4> QED
        BY <1>1, <1>8, <3>2, <4>1, <4>2
    <3> QED
      BY <2>2, <3>1, <3>3, <3>4
  <2>5. CASE ~(s = o.side /\ p = o.price)
    <3>1. level'[s][p] = l
      BY <1>6, <2>1, <2>5
    <3> QED
      BY <1>1, <1>8, <2>2, <2>3, <3>1
  <2> QED
    BY <2>4, <2>5
<1>15. Uncrossed'
  <2> SUFFICES ASSUME NEW a \in DOMAIN order', NEW b \in DOMAIN order',
                      order'[a].side = "BUY", order'[b].side = "SELL"
               PROVE  order'[a].price < order'[b].price
    BY DEF Uncrossed
  <2>1. CASE a # m /\ b # m
    BY <1>8, <2>1 DEF BookInv, Uncrossed
  <2>2. CASE a = m /\ b # m
    BY <1>8, <2>2 DEF Adding, Better
  <2>3. CASE a # m /\ b = m
    <3>1. order[a].side = "BUY" /\ o.side = "SELL" /\ order'[a] = order[a] /\ order'[b] = o
      BY <1>8, <2>3
    <3>2. o.price > order[a].price
      BY <1>8, <2>3, <3>1 DEF Adding, Better
    <3>3. o.price \in Int /\ order[a].price \in Int
      BY <1>1, <1>8, <2>3, BookAssumption DEF BookInv, BookTypes, Orders
    <3> QED
      BY <3>1, <3>2, <3>3
  <2> QED
    BY <1>8, <2>1, <2>2, <2>3
<1> QED
  BY <1>1, <1>8, <1>9, <1>10, <1>11, <1>12, <1>13, <1>14, <1>15 DEF BookInv, Added

\* A resting order is filled in part and stays where it is.
Shrinking(m, fill) ==
    /\ m \in DOMAIN order /\ fill \in Nat \ {0} /\ fill < order[m].qty
    /\ order' = [order EXCEPT ![m].qty = @ - fill]
    /\ UNCHANGED <<ring, level, index>>

LEMMA FillOrderInv ==
    ASSUME BookInv, NEW m, NEW fill, Shrinking(m, fill)
    PROVE  /\ BookInv'
           /\ DOMAIN order' = DOMAIN order
           /\ \A n \in DOMAIN order' :
                 /\ order'[n].client = order[n].client /\ order'[n].oid = order[n].oid
                 /\ order'[n].side = order[n].side /\ order'[n].price = order[n].price
                 /\ order'[n].priority = order[n].priority
                 /\ order'[n].qty = IF n = m THEN order[m].qty - fill ELSE order[n].qty
                 /\ n # m => order'[n] = order[n]
<1> USE DEF Shrinking
<1>1. order \in [DOMAIN order -> Orders] /\ order[m] \in Orders
  BY DEF BookInv, BookTypes
<1>2. [order[m] EXCEPT !.qty = @ - fill] \in Orders
  BY <1>1 DEF Orders
<1>3. /\ DOMAIN order' = DOMAIN order
      /\ order' \in [DOMAIN order' -> Orders]
      /\ \A n \in DOMAIN order' :
            /\ order'[n].client = order[n].client /\ order'[n].oid = order[n].oid
            /\ order'[n].side = order[n].side /\ order'[n].price = order[n].price
            /\ order'[n].priority = order[n].priority
            /\ order'[n].qty = IF n = m THEN order[m].qty - fill ELSE order[n].qty
            /\ n # m => order'[n] = order[n]
  BY <1>1, <1>2 DEF Orders
<1>4. BookTypes' /\ RingsSorted'
  BY <1>3 DEF BookInv, BookTypes, RingsSorted, Better
<1>5. LevelsExact'
  <2> SUFFICES ASSUME NEW s \in Sides, NEW p \in Prices
               PROVE  /\ p \in ToSet(ring[s]) <=> level[s][p] # <<>>
                      /\ ToSet(level[s][p]) =
                            {n \in DOMAIN order' : order'[n].side = s /\ order'[n].price = p}
    BY DEF LevelsExact, ToSet
  <2>1. /\ p \in ToSet(ring[s]) <=> level[s][p] # <<>>
        /\ ToSet(level[s][p]) = {n \in DOMAIN order : order[n].side = s /\ order[n].price = p}
    BY DEF BookInv, LevelsExact
  <2> QED
    BY <1>3, <2>1
<1>6. IndexExact'
  BY <1>3 DEF BookInv, IndexExact
<1>7. TimePriority'
  <2> SUFFICES ASSUME NEW s \in Sides, NEW p \in Prices,
                      NEW i \in 1 .. Len(level[s][p]), NEW j \in 1 .. Len(level[s][p]), i < j
               PROVE  /\ level[s][p][i] < level[s][p][j]
                      /\ order'[level[s][p][i]].priority < order'[level[s][p][j]].priority
    BY DEF TimePriority
  <2>1. level[s][p][i] \in DOMAIN order /\ level[s][p][j] \in DOMAIN order
    BY LevelMember
  <2>2. /\ level[s][p][i] < level[s][p][j]
        /\ order[level[s][p][i]].priority < order[level[s][p][j]].priority
    BY DEF BookInv, TimePriority
  <2> QED
    BY <1>3, <2>1, <2>2
<1>8. Uncrossed'
  BY <1>3 DEF BookInv, Uncrossed
<1> QED
  BY <1>3, <1>4, <1>5, <1>6, <1>7, <1>8 DEF BookInv

-------------------------------------------------------------------------------
(* The engine.                                                                *)

\* The order being matched is known, is not in the book, is newer than all orders
\* in it, and finds a level to rest in: add() has checked the pool for it.
TakerInv ==
    taker # NoOrder =>
        /\ taker \in Takers
        /\ <<taker.client, taker.oid>> \in used
        /\ <<taker.client, taker.oid>> \notin DOMAIN index
        /\ taker.id < next_market_order_id
        /\ \A m \in DOMAIN order : m < taker.id
        /\ level[taker.side][taker.price] = <<>> => LevelsInUse < MaxPriceLevels

EngineInv ==
    /\ BookInv /\ LevelsWithinPool
    /\ DOMAIN index \subseteq used /\ used \subseteq Keys
    /\ next_market_order_id \in 1 .. MaxOrderIds
    /\ \A m \in DOMAIN order : m < next_market_order_id
    /\ positions \in [Clients -> Int]
    /\ halted \in BOOLEAN
    /\ TakerInv

\* While the process runs, the receivers know the book, and last_order_response_
\* tells what is open of every order that was ever accepted.
Remembered ==
    ~halted =>
        /\ DOMAIN last_response = used
        /\ \A k \in used : ledger.leaves[k] = IF last_response[k].type = "CANCELED" THEN 0
                                              ELSE last_response[k].leaves

ReceiverTypes == ~halted => ledger.leaves \in [Keys -> Nat]

LEMMA MarketIdInt == MarketIds \subseteq Int
BY DEF MarketIds

\* The number of levels in use is a natural number.
LEMMA LevelCount ==
    ASSUME BookInv
    PROVE  Len(ring["BUY"]) \in Nat /\ Len(ring["SELL"]) \in Nat /\ LevelsInUse \in Nat
<1>1. ring["BUY"] \in Seq(Prices) /\ ring["SELL"] \in Seq(Prices)
  BY DEF BookInv, BookTypes, Sides
<1>2. Len(ring["BUY"]) \in Nat /\ Len(ring["SELL"]) \in Nat
  BY <1>1
<1>3. PICK a \in Nat, b \in Nat : a = Len(ring["BUY"]) /\ b = Len(ring["SELL"])
  BY <1>2
<1>4. LevelsInUse = a + b
  BY <1>3 DEF LevelsInUse
<1> QED
  BY <1>2, <1>4

\* The head of a price ring is the best price of its side.
LEMMA BestPrice ==
    ASSUME BookInv, NEW n \in DOMAIN order, NEW s, s = order[n].side
    PROVE  /\ s \in Sides /\ ring[s] # <<>> /\ Head(ring[s]) \in Prices /\ order[n].price \in Prices
           /\ order[n].price = Head(ring[s]) \/ Better(s, Head(ring[s]), order[n].price)
<1>1. s \in Sides /\ order[n].price \in Prices
  BY DEF BookInv, BookTypes, Orders
<1>2. PICK p : p = order[n].price
  OBVIOUS
<1>3. n \in ToSet(level[s][p]) /\ level[s][p] \in Seq(MarketIds)
  BY <1>1, <1>2, LevelMember
<1>4. level[s][p] # <<>>
  BY <1>3, ToSetSeq
<1>5. p \in ToSet(ring[s]) /\ ring[s] \in Seq(Prices)
  BY <1>1, <1>2, <1>4, LevelMember
<1>6. PICK i \in 1 .. Len(ring[s]) : ring[s][i] = p
  BY <1>5, ToSetSeq
<1>7. ring[s] # <<>> /\ Head(ring[s]) = ring[s][1] /\ ring[s][1] \in Prices /\ 1 \in 1 .. Len(ring[s])
  BY <1>5, <1>6
<1>8. i = 1 \/ Better(s, ring[s][1], ring[s][i])
  BY <1>1, <1>6, <1>7 DEF BookInv, RingsSorted
<1> QED
  BY <1>1, <1>2, <1>6, <1>7, <1>8

\* m is the resting order that match() fills: the oldest one at the best price.
Best(m) ==
    LET s == Opposite(taker.side)
    IN  m = Head(level[s][Head(ring[s])])

LEMMA BestOrder ==
    ASSUME EngineInv, taker # NoOrder, Crossing, NEW m, Best(m)
    PROVE  /\ m \in DOMAIN order /\ taker \in Takers /\ taker.side \in Sides
           /\ order[m] \in Orders
           /\ order[m].side = Opposite(taker.side) /\ order[m].side # taker.side
           /\ order[m].price = Head(ring[Opposite(taker.side)])
           /\ \A n \in DOMAIN order :
                 order[n].side = order[m].side =>
                    /\ ~Better(order[m].side, order[n].price, order[m].price)
                    /\ order[n].price = order[m].price => m <= n
<1>1. PICK s : s = Opposite(taker.side)
  OBVIOUS
<1>2. taker \in Takers /\ taker.side \in Sides /\ s \in Sides /\ s # taker.side
  BY <1>1 DEF EngineInv, TakerInv, Takers, Sides, Opposite
<1>3. PICK p : p = Head(ring[s])
  OBVIOUS
<1>4. ring[s] # <<>> /\ ring[s] \in Seq(Prices)
  BY <1>1, <1>2 DEF Crossing, EngineInv, BookInv, BookTypes
<1>5. p \in Prices /\ p \in ToSet(ring[s])
  <2>1. p = ring[s][1] /\ 1 \in 1 .. Len(ring[s])
    BY <1>3, <1>4
  <2> QED
    BY <1>4, <2>1, ToSetSeq
<1>6. PICK l : l = level[s][p]
  OBVIOUS
<1>7. l \in Seq(MarketIds) /\ l # <<>>
  BY <1>2, <1>5, <1>6, LevelMember DEF EngineInv
<1>8. m = l[1] /\ 1 \in 1 .. Len(l)
  BY <1>1, <1>3, <1>6, <1>7 DEF Best
<1>9. m \in DOMAIN order /\ order[m].side = s /\ order[m].price = p
  BY <1>2, <1>5, <1>6, <1>8, LevelMember DEF EngineInv
<1>10. ASSUME NEW n \in DOMAIN order, order[n].side = s
       PROVE  /\ ~Better(s, order[n].price, p)
              /\ order[n].price = p => m <= n
  <2>1. order[n].price = p \/ Better(s, p, order[n].price)
    BY <1>3, <1>10, BestPrice DEF EngineInv
  <2>2. order[n].price \in Prices
    BY DEF EngineInv, BookInv, BookTypes, Orders
  <2>3. ~Better(s, order[n].price, p)
    BY <1>5, <2>1, <2>2, BetterOrder
  <2>4. ASSUME order[n].price = p PROVE m <= n
    <3>1. PICK i \in 1 .. Len(l) : l[i] = n
      BY <1>2, <1>5, <1>6, <1>10, <2>4, LevelMember DEF EngineInv
    <3>2. i = 1 \/ l[1] < l[i]
      BY <1>2, <1>5, <1>6, <1>8 DEF EngineInv, BookInv, TimePriority
    <3>3. l[1] \in MarketIds /\ l[i] \in MarketIds
      BY <1>7, <1>8
    <3>4. m \in Int /\ n \in Int /\ (m = n \/ m < n)
      BY <1>8, <3>1, <3>2, <3>3, MarketIdInt
    <3> QED
      BY <3>4
  <2> QED
    BY <2>3, <2>4
<1> QED
  BY <1>1, <1>2, <1>3, <1>9, <1>10 DEF EngineInv, BookInv, BookTypes

\* Emit either pushes or halts.
LEMMA EmitHalts ==
    ASSUME NEW rs, NEW us, Emit(rs, us) PROVE halted' \in BOOLEAN
BY DEF Emit, Send

LEMMA EmitFirstHalts ==
    ASSUME NEW r, NEW u, EmitUpdateFirst(r, u) PROVE halted' \in BOOLEAN
BY DEF EmitUpdateFirst, Send

LEMMA InitEngine == Init => EngineInv
<1> SUFFICES ASSUME Init PROVE EngineInv
  OBVIOUS
<1>1. order = <<>> /\ DOMAIN order = {} /\ index = <<>> /\ DOMAIN index = {}
  BY DEF Init
<1>2. \A s \in Sides : ring[s] = <<>> /\ \A p \in Prices : level[s][p] = <<>>
  BY DEF Init
<1>3. BookTypes
  BY <1>1 DEF Init, BookTypes
<1>4. RingsSorted /\ TimePriority
  BY <1>2 DEF RingsSorted, TimePriority
<1>5. LevelsExact
  BY <1>1, <1>2 DEF LevelsExact, ToSet
<1>6. IndexExact /\ Uncrossed
  BY <1>1 DEF IndexExact, Uncrossed
<1>7. LevelsWithinPool
  <2>1. ring["BUY"] = <<>> /\ ring["SELL"] = <<>>
    BY <1>2 DEF Sides
  <2>2. Len(ring["BUY"]) = 0 /\ Len(ring["SELL"]) = 0
    BY <2>1
  <2> QED
    BY <2>2, BookAssumption DEF LevelsWithinPool, LevelsInUse
<1>8. TakerInv
  BY DEF Init, TakerInv
<1>9. /\ DOMAIN index \subseteq used /\ used \subseteq Keys /\ halted \in BOOLEAN
      /\ \A m \in DOMAIN order : m < next_market_order_id
  BY <1>1 DEF Init
<1>10. next_market_order_id \in 1 .. MaxOrderIds /\ positions \in [Clients -> Int]
  BY BookAssumption DEF Init
<1> QED
  BY <1>3, <1>4, <1>5, <1>6, <1>7, <1>8, <1>9, <1>10 DEF EngineInv, BookInv

LEMMA UnchangedBook ==
    ASSUME BookInv, UNCHANGED bookVars
    PROVE  BookInv' /\ LevelsInUse' = LevelsInUse
BY DEF bookVars, BookInv, BookTypes, RingsSorted, LevelsExact, IndexExact, TimePriority,
       Uncrossed, LevelsInUse

\* A request that changes neither the book nor the taker.
LEMMA UnchangedEngine ==
    ASSUME EngineInv, UNCHANGED engineVars, halted' \in BOOLEAN
    PROVE  EngineInv'
<1>1. BookInv'
  BY UnchangedBook DEF EngineInv, engineVars
<1>2. LevelsWithinPool' /\ TakerInv'
  BY DEF EngineInv, engineVars, bookVars, LevelsWithinPool, LevelsInUse, TakerInv
<1> QED
  BY <1>1, <1>2 DEF EngineInv, engineVars, bookVars

LEMMA AcceptNewEngine ==
    ASSUME EngineInv, NEW client \in Clients, NEW r \in NewRequests, NEW side \in Sides,
           AcceptNew(client, r[1], side, r[2], r[3])
    PROVE  EngineInv' /\ taker' \in Takers /\ r[1] \in OrderIds /\ r[3] \in Qtys
<1>1. PICK oid, price, qty : oid = r[1] /\ price = r[2] /\ qty = r[3]
  OBVIOUS
<1>2. /\ oid # 0 /\ price # 0 /\ qty # 0 /\ <<client, oid>> \notin used
      /\ ~OutOfCapacity(side, price)
  BY <1>1 DEF AcceptNew, RejectReason
<1>3. oid \in OrderIds /\ price \in Prices /\ qty \in Qtys
  BY <1>1, <1>2 DEF NewRequests
<1>4. BookInv'
  BY UnchangedBook DEF AcceptNew, EngineInv
<1>5. LevelsWithinPool' /\ UNCHANGED <<LevelsInUse, level, order, index>>
  BY DEF AcceptNew, EngineInv, bookVars, LevelsWithinPool, LevelsInUse
<1>6. next_market_order_id < MaxOrderIds /\ next_market_order_id' = next_market_order_id + 1
  BY <1>2, BookAssumption DEF OutOfCapacity, EngineInv, AcceptNew
<1>7. halted' \in BOOLEAN
  BY EmitHalts DEF AcceptNew, EngineInv
<1>8. taker' \in Takers /\ TakerInv'
  <2>1. /\ taker' = [client |-> client, oid |-> oid, id |-> next_market_order_id,
                     side |-> side, price |-> price, leaves |-> qty]
        /\ used' = used \cup {<<client, oid>>}
    BY <1>1 DEF AcceptNew
  <2>2. taker' \in Takers
    BY <1>3, <1>6, <2>1, BookAssumption DEF Takers, MarketIds, EngineInv
  <2>3. level[side][price] = <<>> => LevelsInUse < MaxPriceLevels
    <3>1. LevelsInUse \in Nat
      BY LevelCount DEF EngineInv
    <3> QED
      BY <1>2, <3>1, BookAssumption DEF OutOfCapacity
  <2>4. <<client, oid>> \notin DOMAIN index
    BY <1>2 DEF EngineInv
  <2> QED
    BY <1>5, <1>6, <2>1, <2>2, <2>3, <2>4 DEF TakerInv, EngineInv
<1>9. used' \subseteq Keys /\ DOMAIN index' \subseteq used'
  BY <1>1, <1>3, <1>5 DEF AcceptNew, EngineInv, Keys
<1>10. /\ next_market_order_id' \in 1 .. MaxOrderIds
       /\ \A m \in DOMAIN order' : m < next_market_order_id'
  <2>1. \A m \in DOMAIN order : m \in Int /\ m < next_market_order_id
    BY MarketIdInt DEF EngineInv, BookInv, BookTypes
  <2>2. order' = order /\ next_market_order_id \in 1 .. MaxOrderIds /\ MaxOrderIds \in Nat
    BY <1>5, BookAssumption DEF EngineInv
  <2> QED
    BY <1>6, <2>1, <2>2
<1> QED
  BY <1>1, <1>3, <1>4, <1>5, <1>7, <1>8, <1>9, <1>10 DEF EngineInv, AcceptNew

\* One fill of match(): what it does to the taker, the positions and the book.
Filling(m, fill) ==
    LET o == order[m]
        pos1 == [positions EXCEPT ![taker.client] = @ + fill * SideValue(taker.side)]
    IN  /\ ~halted /\ taker # NoOrder /\ Crossing /\ Best(m)
        /\ fill = Lesser(taker.leaves, o.qty)
        /\ taker' = [taker EXCEPT !.leaves = @ - fill]
        /\ positions' = [pos1 EXCEPT ![o.client] = @ + fill * SideValue(o.side)]
        /\ IF o.qty = fill
           THEN RemoveOrder(m)
           ELSE /\ order' = [order EXCEPT ![m].qty = @ - fill]
                /\ UNCHANGED <<ring, level, index>>
        /\ UNCHANGED <<used, next_market_order_id>>

LEMMA MatchFills == Match => \E m, fill : Filling(m, fill)
<1> SUFFICES ASSUME Match PROVE \E m, fill : Filling(m, fill)
  OBVIOUS
<1>1. PICK m : Best(m)
  BY DEF Best
<1>2. PICK fill : fill = Lesser(taker.leaves, order[m].qty)
  OBVIOUS
<1>3. Filling(m, fill)
  BY <1>1, <1>2 DEF Match, Best, Filling
<1> QED
  BY <1>3

\* A fill is positive and at most what either order has left.
LEMMA FillSize ==
    ASSUME EngineInv, NEW m, NEW fill, Filling(m, fill)
    PROVE  /\ m \in DOMAIN order /\ order[m] \in Orders /\ taker \in Takers
           /\ taker.leaves \in Nat /\ order[m].qty \in Nat
           /\ fill \in Nat \ {0} /\ fill <= taker.leaves /\ fill <= order[m].qty
<1>1. m \in DOMAIN order /\ order[m] \in Orders /\ taker \in Takers
  BY BestOrder DEF Filling
<1>2. taker.leaves \in Nat /\ taker.leaves > 0 /\ order[m].qty \in Nat \ {0}
  BY <1>1 DEF Filling, Crossing, Takers, Orders
<1> QED
  BY <1>1, <1>2 DEF Filling, Lesser

\* How the orders change with a fill: one order shrinks or leaves.
Filled(m, fill) ==
    /\ DOMAIN order' = IF order[m].qty = fill THEN DOMAIN order \ {m} ELSE DOMAIN order
    /\ \A n \in DOMAIN order' :
          /\ Key(order'[n]) = Key(order[n])
          /\ order'[n].side = order[n].side /\ order'[n].price = order[n].price
          /\ order'[n].priority = order[n].priority
          /\ order'[n].qty = IF n = m THEN order[m].qty - fill ELSE order[n].qty
          /\ n # m => order'[n] = order[n]
    /\ DOMAIN index' = IF order[m].qty = fill THEN DOMAIN index \ {Key(order[m])} ELSE DOMAIN index
    /\ \A k \in DOMAIN index' : index'[k] = index[k]

LEMMA FillBook ==
    ASSUME EngineInv, NEW m, NEW fill, Filling(m, fill)
    PROVE  /\ BookInv' /\ Filled(m, fill)
           /\ level'[taker.side] = level[taker.side]
           /\ LevelsInUse' <= LevelsInUse /\ LevelsInUse' \in Nat
<1>1. BookInv /\ m \in DOMAIN order /\ fill \in Nat \ {0} /\ fill <= order[m].qty
  BY FillSize DEF EngineInv
<1>2. taker.side \in Sides /\ taker.side # order[m].side
  BY BestOrder DEF Filling
<1>3. CASE order[m].qty = fill
  <2>1. RemoveOrder(m)
    BY <1>3 DEF Filling
  <2>2. /\ BookInv'
        /\ DOMAIN order' = DOMAIN order \ {m}
        /\ \A n \in DOMAIN order' : order'[n] = order[n]
        /\ DOMAIN index' = DOMAIN index \ {Key(order[m])}
        /\ \A k \in DOMAIN index' : index'[k] = index[k]
        /\ \A s \in Sides : Len(ring'[s]) <= Len(ring[s]) /\ Len(ring'[s]) \in Nat
        /\ \A s \in Sides : s # order[m].side => level'[s] = level[s]
    BY <1>1, <2>1, RemoveOrderInv
  <2>3. LevelsInUse' <= LevelsInUse /\ LevelsInUse' \in Nat
    <3>1. PICK a \in Nat, b \in Nat : a = Len(ring["BUY"]) /\ b = Len(ring["SELL"])
      BY <1>1, LevelCount
    <3>2. PICK c \in Nat, d \in Nat : c = Len(ring'["BUY"]) /\ d = Len(ring'["SELL"])
      BY <2>2 DEF Sides
    <3>3. c <= a /\ d <= b
      BY <2>2, <3>1, <3>2 DEF Sides
    <3>4. LevelsInUse = a + b /\ LevelsInUse' = c + d
      BY <3>1, <3>2 DEF LevelsInUse
    <3> QED
      BY <3>3, <3>4
  <2> QED
    BY <1>2, <1>3, <2>2, <2>3 DEF Filled
<1>4. CASE order[m].qty # fill
  <2>1. fill < order[m].qty
    <3>1. order[m].qty \in Nat
      BY FillSize
    <3> QED
      BY <1>1, <1>4, <3>1
  <2>2. order' = [order EXCEPT ![m].qty = @ - fill] /\ UNCHANGED <<ring, level, index>>
    BY <1>4 DEF Filling
  <2>3. /\ BookInv'
        /\ DOMAIN order' = DOMAIN order
        /\ \A n \in DOMAIN order' :
              /\ order'[n].client = order[n].client /\ order'[n].oid = order[n].oid
              /\ order'[n].side = order[n].side /\ order'[n].price = order[n].price
              /\ order'[n].priority = order[n].priority
              /\ order'[n].qty = IF n = m THEN order[m].qty - fill ELSE order[n].qty
              /\ n # m => order'[n] = order[n]
    <3>1. Shrinking(m, fill)
      BY <1>1, <2>1, <2>2 DEF Shrinking
    <3> QED
      BY <1>1, <3>1, FillOrderInv
  <2>4. LevelsInUse' = LevelsInUse /\ LevelsInUse \in Nat
    BY <1>1, <2>2, LevelCount DEF LevelsInUse
  <2> QED
    BY <1>4, <2>2, <2>3, <2>4 DEF Key, Filled
<1> QED
  BY <1>3, <1>4

LEMMA MatchEngine == ASSUME EngineInv, Match PROVE EngineInv'
<1>1. PICK m, fill : Filling(m, fill)
  BY MatchFills
<1>2. /\ m \in DOMAIN order /\ order[m] \in Orders /\ taker \in Takers /\ taker.leaves \in Nat
      /\ fill \in Nat /\ fill <= taker.leaves
  BY <1>1, FillSize
<1>3. /\ BookInv' /\ DOMAIN order' \subseteq DOMAIN order /\ DOMAIN index' \subseteq DOMAIN index
      /\ level'[taker.side] = level[taker.side]
      /\ LevelsInUse' <= LevelsInUse /\ LevelsInUse' \in Nat
  <2>1. /\ BookInv' /\ Filled(m, fill) /\ level'[taker.side] = level[taker.side]
        /\ LevelsInUse' <= LevelsInUse /\ LevelsInUse' \in Nat
    BY <1>1, FillBook
  <2>2. DOMAIN order' \subseteq DOMAIN order /\ DOMAIN index' \subseteq DOMAIN index
    BY <2>1 DEF Filled
  <2> QED
    BY <2>1, <2>2
<1>4. LevelsInUse \in Nat /\ MaxPriceLevels \in Nat
  BY LevelCount, BookAssumption DEF EngineInv
<1>5. /\ taker # NoOrder /\ taker' = [taker EXCEPT !.leaves = @ - fill]
      /\ UNCHANGED <<used, next_market_order_id>>
  BY <1>1 DEF Filling
<1>6. positions' \in [Clients -> Int]
  <2>1. /\ taker.client \in Clients /\ order[m].client \in Clients
        /\ fill * SideValue(taker.side) \in Int /\ fill * SideValue(order[m].side) \in Int
    BY <1>2 DEF Takers, Orders, SideValue
  <2> QED
    BY <1>1, <2>1 DEF Filling, EngineInv
<1>7. halted' \in BOOLEAN
  BY EmitHalts DEF Match, EngineInv
<1>8. TakerInv'
  <2>1. /\ taker' \in Takers /\ taker'.client = taker.client /\ taker'.oid = taker.oid
        /\ taker'.id = taker.id /\ taker'.side = taker.side /\ taker'.price = taker.price
    BY <1>2, <1>5 DEF Takers
  <2>2. level[taker.side][taker.price] = <<>> => LevelsInUse' < MaxPriceLevels
    BY <1>3, <1>4, <1>5 DEF EngineInv, TakerInv
  <2> QED
    BY <1>3, <1>5, <2>1, <2>2 DEF EngineInv, TakerInv
<1>9. LevelsWithinPool'
  BY <1>3, <1>4 DEF EngineInv, LevelsWithinPool
<1> QED
  BY <1>3, <1>5, <1>6, <1>7, <1>8, <1>9 DEF EngineInv

\* The rest of an order joins the book.
LEMMA RestAdds ==
    ASSUME EngineInv, Rest, taker.leaves > 0,
           NEW o, o = [client |-> taker.client, oid |-> taker.oid, side |-> taker.side,
                       price |-> taker.price, qty |-> taker.leaves,
                       priority |-> NextPriority(taker.side, taker.price)]
    PROVE  Adding(taker.id, o)
<1>1. /\ BookInv /\ taker \in Takers /\ taker # NoOrder /\ taker.side \in Sides /\ taker.price \in Prices
      /\ taker.leaves \in Nat /\ taker.id \in MarketIds
  BY DEF EngineInv, TakerInv, Rest, Takers
<1>2. o \in Orders
  <2>1. NextPriority(taker.side, taker.price) \in Nat \ {0}
    BY <1>1, NextPriorityLemma
  <2> QED
    BY <1>1, <2>1 DEF Orders, Takers
<1>3. /\ \A n \in DOMAIN order : n < taker.id
      /\ Key(o) \notin DOMAIN index
  BY <1>1 DEF EngineInv, TakerInv, Key
<1>4. ASSUME NEW n \in DOMAIN order, order[n].side # o.side
      PROVE  Better(order[n].side, o.price, order[n].price)
  <2>1. PICK s : s = order[n].side
    OBVIOUS
  <2>2. /\ s \in Sides /\ ring[s] # <<>> /\ Head(ring[s]) \in Prices /\ order[n].price \in Prices
        /\ order[n].price = Head(ring[s]) \/ Better(s, Head(ring[s]), order[n].price)
    BY <1>1, <2>1, BestPrice
  <2>3. s = Opposite(taker.side)
    BY <1>1, <1>4, <2>1, <2>2 DEF Opposite, Sides
  <2>4. Better(s, taker.price, Head(ring[s]))
    BY <2>2, <2>3 DEF Rest, Crossing
  <2>5. Better(s, taker.price, order[n].price)
    BY <1>1, <2>2, <2>4, BetterTransitive
  <2> QED
    BY <2>1, <2>5
<1>5. AddOrder(taker.id, o)
  BY DEF Rest
<1> QED
  BY <1>1, <1>2, <1>3, <1>4, <1>5 DEF Adding

LEMMA RestEngine == ASSUME EngineInv, Rest PROVE EngineInv'
<1>1. /\ BookInv /\ taker \in Takers /\ taker # NoOrder /\ taker.side \in Sides /\ taker.price \in Prices
      /\ taker.leaves \in Nat
  BY DEF EngineInv, TakerInv, Rest, Takers
<1>2. taker' = NoOrder /\ UNCHANGED <<used, next_market_order_id, last_response, positions>>
  BY DEF Rest
<1>3. TakerInv'
  BY <1>2 DEF TakerInv
<1>4. CASE taker.leaves > 0
  <2>1. PICK o : o = [client |-> taker.client, oid |-> taker.oid, side |-> taker.side,
                      price |-> taker.price, qty |-> taker.leaves,
                      priority |-> NextPriority(taker.side, taker.price)]
    OBVIOUS
  <2>2. Adding(taker.id, o)
    BY <1>4, <2>1, RestAdds
  <2>3. /\ BookInv' /\ Added(taker.id, o)
        /\ \A s \in Sides :
              /\ Len(ring[s]) \in Nat
              /\ Len(ring'[s]) = IF s = o.side /\ level[s][o.price] = <<>>
                                 THEN Len(ring[s]) + 1 ELSE Len(ring[s])
    BY <1>1, <2>2, AddOrderInv
  <2>4. LevelsWithinPool'
    <3>1. PICK a \in Nat, b \in Nat : a = Len(ring["BUY"]) /\ b = Len(ring["SELL"])
      BY <1>1, LevelCount
    <3>2. LevelsInUse = a + b /\ LevelsInUse' = Len(ring'["BUY"]) + Len(ring'["SELL"])
      BY <3>1 DEF LevelsInUse
    <3>3. o.side = taker.side /\ o.price = taker.price
      BY <2>1
    <3>4. a + b <= MaxPriceLevels /\ (level[taker.side][taker.price] = <<>> => a + b < MaxPriceLevels)
      BY <1>1, <3>2 DEF EngineInv, LevelsWithinPool, TakerInv
    <3>5. /\ Len(ring'["BUY"]) = IF o.side = "BUY" /\ level[o.side][o.price] = <<>> THEN a + 1 ELSE a
          /\ Len(ring'["SELL"]) = IF o.side = "SELL" /\ level[o.side][o.price] = <<>> THEN b + 1 ELSE b
      BY <2>3, <3>1 DEF Sides
    <3>6. LevelsInUse' <= MaxPriceLevels
      <4>1. CASE level[taker.side][taker.price] = <<>>
        <5>1. LevelsInUse' = a + b + 1
          BY <1>1, <3>2, <3>3, <3>5, <4>1 DEF Sides
        <5> QED
          BY <3>4, <4>1, <5>1, BookAssumption
      <4>2. CASE level[taker.side][taker.price] # <<>>
        BY <3>2, <3>3, <3>4, <3>5, <4>2
      <4> QED
        BY <4>1, <4>2
    <3> QED
      BY <3>6 DEF LevelsWithinPool
  <2>5. halted' \in BOOLEAN
    <3>1. \E us : Emit(<<>>, us)
      BY <1>4 DEF Rest
    <3> QED
      BY <3>1, EmitHalts DEF EngineInv
  <2>6. DOMAIN index' \subseteq used
    BY <1>1, <2>1, <2>3 DEF EngineInv, TakerInv, Key, Added
  <2>7. \A m \in DOMAIN order' : m < next_market_order_id
    BY <1>1, <2>3 DEF EngineInv, TakerInv, Added
  <2> QED
    BY <1>2, <1>3, <2>3, <2>4, <2>5, <2>6, <2>7 DEF EngineInv
<1>5. CASE ~(taker.leaves > 0)
  <2>1. UNCHANGED <<bookVars, outputVars>>
    BY <1>5 DEF Rest
  <2>2. BookInv' /\ LevelsWithinPool'
    BY <2>1, UnchangedBook DEF EngineInv, LevelsWithinPool
  <2> QED
    BY <1>2, <1>3, <2>1, <2>2 DEF EngineInv, bookVars, outputVars
<1> QED
  BY <1>4, <1>5

LEMMA CancelEngine ==
    ASSUME EngineInv, NEW client \in Clients, NEW oid \in OrderIds, Cancel(client, oid)
    PROVE  EngineInv'
<1>1. /\ taker = NoOrder /\ UNCHANGED <<used, next_market_order_id, positions, taker>> /\ BookInv
  BY DEF Cancel, Ready, EngineInv
<1>2. CASE <<client, oid>> \in DOMAIN index
  <2>1. PICK m : m = index[<<client, oid>>]
    OBVIOUS
  <2>2. m \in DOMAIN order /\ RemoveOrder(m)
    BY <1>1, <1>2, <2>1 DEF Cancel, BookInv, IndexExact
  <2>3. /\ BookInv' /\ DOMAIN order' \subseteq DOMAIN order /\ DOMAIN index' \subseteq DOMAIN index
        /\ \A s \in Sides : Len(ring'[s]) <= Len(ring[s]) /\ Len(ring'[s]) \in Nat
    BY <1>1, <2>2, RemoveOrderInv
  <2>4. LevelsWithinPool'
    <3>1. PICK a \in Nat, b \in Nat : a = Len(ring["BUY"]) /\ b = Len(ring["SELL"])
      BY <1>1, LevelCount
    <3>2. PICK c \in Nat, d \in Nat : c = Len(ring'["BUY"]) /\ d = Len(ring'["SELL"])
      BY <2>3 DEF Sides
    <3>3. c <= a /\ d <= b
      BY <2>3, <3>1, <3>2 DEF Sides
    <3>4. a + b <= MaxPriceLevels
      BY <3>1 DEF EngineInv, LevelsWithinPool, LevelsInUse
    <3>5. c + d <= MaxPriceLevels
      BY <3>3, <3>4, BookAssumption
    <3> QED
      BY <3>2, <3>5 DEF LevelsWithinPool, LevelsInUse
  <2>5. halted' \in BOOLEAN
    <3>1. \E r, u : EmitUpdateFirst(r, u)
      BY <1>2 DEF Cancel
    <3> QED
      BY <3>1, EmitFirstHalts
  <2> QED
    BY <1>1, <2>3, <2>4, <2>5 DEF EngineInv, TakerInv
<1>3. CASE <<client, oid>> \notin DOMAIN index
  <2>1. UNCHANGED bookVars /\ halted' \in BOOLEAN
    BY <1>3, EmitHalts DEF Cancel, EngineInv
  <2>2. BookInv' /\ LevelsWithinPool'
    BY <2>1, UnchangedBook DEF EngineInv, LevelsWithinPool
  <2> QED
    BY <1>1, <2>1, <2>2 DEF EngineInv, bookVars, TakerInv
<1> QED
  BY <1>2, <1>3

\* Every step of the matching thread and of the threads behind the queues keeps
\* the engine's invariant.
LEMMA EngineStep == ASSUME EngineInv, [Next]_vars PROVE EngineInv'
<1>1. CASE Request
  <2>1. PICK client \in Clients :
           \/ \E r \in NewRequests, side \in Sides : AcceptNew(client, r[1], side, r[2], r[3])
           \/ \E oid \in OrderIds \cup {0}, side \in Sides : RejectNew(client, oid, side)
           \/ \E oid \in OrderIds : Cancel(client, oid)
           \/ \E oid \in OrderIds \cup {0} : Query(client, oid)
    BY <1>1 DEF Request
  <2>2. CASE \E r \in NewRequests, side \in Sides : AcceptNew(client, r[1], side, r[2], r[3])
    BY <2>2, AcceptNewEngine
  <2>3. CASE \E oid \in OrderIds \cup {0}, side \in Sides : RejectNew(client, oid, side)
    BY <2>3, UnchangedEngine, EmitHalts DEF RejectNew, EngineInv
  <2>4. CASE \E oid \in OrderIds : Cancel(client, oid)
    BY <2>4, CancelEngine
  <2>5. CASE \E oid \in OrderIds \cup {0} : Query(client, oid)
    BY <2>5, UnchangedEngine, EmitHalts DEF Query, EngineInv
  <2> QED
    BY <2>1, <2>2, <2>3, <2>4, <2>5
<1>2. CASE Match
  BY <1>2, MatchEngine
<1>3. CASE Rest
  BY <1>3, RestEngine
<1>4. CASE TakeResponse
  BY <1>4, UnchangedEngine DEF TakeResponse, EngineInv
<1>5. CASE TakeUpdate
  BY <1>5, UnchangedEngine DEF TakeUpdate, EngineInv
<1>6. CASE UNCHANGED vars
  BY <1>6, UnchangedEngine DEF vars, outputVars, EngineInv
<1> QED
  BY <1>1, <1>2, <1>3, <1>4, <1>5, <1>6 DEF Next

\* EngineInv is an inductive invariant of the matching engine.
THEOREM EngineInductive == Spec => []EngineInv
<1>1. EngineInv /\ [Next]_vars => EngineInv'
  BY EngineStep
<1> QED
  BY InitEngine, <1>1, PTL DEF Spec

\* The price rings, the FIFO of each level and the client index describe the same
\* live orders, sorted by price and by time, within the pool of levels.
THEOREM BookIsConsistent == Spec => []BookConsistent
<1>1. EngineInv => BookConsistent
  BY DEF EngineInv, BookInv, BookConsistent
<1> QED
  BY EngineInductive, <1>1, PTL

\* add() leaves no bid at or above an ask.
THEOREM BookIsUncrossed == Spec => []NeverCrossed
<1>1. EngineInv => NeverCrossed
  BY DEF EngineInv, BookInv, Uncrossed, NeverCrossed
<1> QED
  BY EngineInductive, <1>1, PTL

\* A request is taken when the previous one is done, and always answered, a cancel
\* that succeeds after the market was told.
LEMMA RequestForms ==
    ASSUME Request
    PROVE  Ready /\ ((\E r : Emit(<<r>>, <<>>)) \/ (\E r, u : EmitUpdateFirst(r, u)))
<1>1. PICK client \in Clients :
         \/ \E r \in NewRequests, side \in Sides : AcceptNew(client, r[1], side, r[2], r[3])
         \/ \E oid \in OrderIds \cup {0}, side \in Sides : RejectNew(client, oid, side)
         \/ \E oid \in OrderIds : Cancel(client, oid)
         \/ \E oid \in OrderIds \cup {0} : Query(client, oid)
  BY DEF Request
<1>2. CASE \E r \in NewRequests, side \in Sides : AcceptNew(client, r[1], side, r[2], r[3])
  BY <1>2 DEF AcceptNew
<1>3. CASE \E oid \in OrderIds \cup {0}, side \in Sides : RejectNew(client, oid, side)
  BY <1>3 DEF RejectNew
<1>4. CASE \E oid \in OrderIds : Cancel(client, oid)
  <2>1. PICK oid \in OrderIds : Cancel(client, oid)
    BY <1>4
  <2>2. CASE <<client, oid>> \in DOMAIN index
    BY <2>1, <2>2 DEF Cancel
  <2>3. CASE <<client, oid>> \notin DOMAIN index
    BY <2>1, <2>3 DEF Cancel
  <2> QED
    BY <2>2, <2>3
<1>5. CASE \E oid \in OrderIds \cup {0} : Query(client, oid)
  BY <1>5 DEF Query
<1> QED
  BY <1>1, <1>2, <1>3, <1>4, <1>5

LEMMA MatchChangesBest ==
    ASSUME EngineInv, Match, NEW m \in DOMAIN order, m \notin DOMAIN order' \/ order'[m] # order[m]
    PROVE  Crossing /\ Best(m)
<1>1. PICK b, fill : Filling(b, fill)
  BY MatchFills
<1>2. Filled(b, fill)
  BY <1>1, FillBook
<1>3. m = b
  BY <1>2 DEF Filled
<1> QED
  BY <1>1, <1>3 DEF Filling

\* match() fills resting orders in price-time priority.
THEOREM FillsHavePriority == Spec => PriceTimePriority
<1> DEFINE A == \A m \in DOMAIN order :
                  (taker # NoOrder /\ (m \notin DOMAIN order' \/ order'[m] # order[m])) =>
                     \A n \in DOMAIN order :
                        order[n].side = order[m].side =>
                           /\ ~Better(order[m].side, order[n].price, order[m].price)
                           /\ (order[n].price = order[m].price => m <= n)
<1>1. ASSUME EngineInv, [Next]_vars PROVE [A]_vars
  <2> SUFFICES ASSUME NEW m \in DOMAIN order, taker # NoOrder,
                      m \notin DOMAIN order' \/ order'[m] # order[m],
                      NEW n \in DOMAIN order, order[n].side = order[m].side
               PROVE  /\ ~Better(order[m].side, order[n].price, order[m].price)
                      /\ order[n].price = order[m].price => m <= n
    OBVIOUS
  <2>1. CASE Match
    <3>1. Crossing /\ Best(m)
      BY <1>1, <2>1, MatchChangesBest
    <3> QED
      BY <1>1, <3>1, BestOrder
  <2>2. CASE Rest
    <3>1. CASE taker.leaves > 0
      <4>1. PICK o : o = [client |-> taker.client, oid |-> taker.oid, side |-> taker.side,
                          price |-> taker.price, qty |-> taker.leaves,
                          priority |-> NextPriority(taker.side, taker.price)]
        OBVIOUS
      <4>2. Adding(taker.id, o)
        BY <1>1, <2>2, <3>1, <4>1, RestAdds
      <4>3. Added(taker.id, o)
        BY <1>1, <4>2, AddOrderInv DEF EngineInv
      <4> QED
        BY <4>3 DEF Added
    <3>2. CASE ~(taker.leaves > 0)
      BY <2>2, <3>2 DEF Rest, bookVars
    <3> QED
      BY <3>1, <3>2
  <2>3. CASE Request
    <3>1. Ready
      BY <2>3, RequestForms
    <3> QED
      BY <3>1 DEF Ready
  <2>4. CASE TakeResponse \/ TakeUpdate \/ UNCHANGED vars
    BY <2>4 DEF TakeResponse, TakeUpdate, vars, engineVars, bookVars
  <2> QED
    BY <1>1, <2>1, <2>2, <2>3, <2>4 DEF Next
<1>2. PriceTimePriority <=> [][A]_vars
  BY DEF PriceTimePriority
<1> HIDE DEF A
<1> QED
  BY <1>1, <1>2, EngineInductive, PTL DEF Spec

-------------------------------------------------------------------------------
(* The receivers.                                                             *)

\* A queue takes the first messages that it has room for.
LEMMA FittingNone == ASSUME NEW n \in 0 .. QueueCapacity PROVE Fitting(<<>>, n) = <<>>
<1>1. QueueCapacity - n \in Nat
  BY BookAssumption
<1>2. Lesser(0, QueueCapacity - n) = 0
  BY <1>1 DEF Lesser
<1>3. Len(<<>>) = 0 /\ SubSeq(<<>>, 1, 0) = <<>>
  OBVIOUS
<1> QED
  BY <1>2, <1>3 DEF Fitting

LEMMA FittingOne ==
    ASSUME NEW n \in 0 .. QueueCapacity, NEW a
    PROVE  \/ n + 1 <= QueueCapacity /\ Fitting(<<a>>, n) = <<a>>
           \/ Fitting(<<a>>, n) = <<>>
<1>1. QueueCapacity - n \in Nat /\ QueueCapacity \in Nat /\ n \in Nat
  BY BookAssumption
<1>2. Len(<<a>>) = 1 /\ SubSeq(<<a>>, 1, 0) = <<>> /\ SubSeq(<<a>>, 1, 1) = <<a>>
  <2>1. SubSeq(<<a>>, 1, 0) = <<>>
    BY SubSeqEmpty
  <2>2. <<a>> \in Seq({a}) /\ Len(<<a>>) = 1
    OBVIOUS
  <2>3. SubSeq(<<a>>, 1, 1) = <<a>>
    BY <2>2, SubSeqFull
  <2> QED
    BY <2>1, <2>2, <2>3
<1>3. CASE QueueCapacity - n = 0
  <2>1. Lesser(1, QueueCapacity - n) = 0
    BY <1>3 DEF Lesser
  <2> QED
    BY <1>2, <2>1 DEF Fitting
<1>4. CASE QueueCapacity - n # 0
  <2>1. Lesser(1, QueueCapacity - n) = 1 /\ n + 1 <= QueueCapacity
    BY <1>1, <1>4 DEF Lesser
  <2> QED
    BY <1>2, <2>1 DEF Fitting
<1> QED
  BY <1>3, <1>4

LEMMA FittingTwo ==
    ASSUME NEW n \in 0 .. QueueCapacity, NEW a, NEW b
    PROVE  \/ n + 2 <= QueueCapacity /\ Fitting(<<a, b>>, n) = <<a, b>>
           \/ n + 1 <= QueueCapacity /\ Fitting(<<a, b>>, n) = <<a>>
           \/ Fitting(<<a, b>>, n) = <<>>
<1>1. QueueCapacity - n \in Nat /\ QueueCapacity \in Nat /\ n \in Nat
  BY BookAssumption
<1>2. /\ Len(<<a, b>>) = 2 /\ SubSeq(<<a, b>>, 1, 0) = <<>> /\ SubSeq(<<a, b>>, 1, 1) = <<a>>
      /\ SubSeq(<<a, b>>, 1, 2) = <<a, b>>
  <2>1. SubSeq(<<a, b>>, 1, 0) = <<>>
    BY SubSeqEmpty
  <2>2. <<a, b>> \in Seq({a, b}) /\ Len(<<a, b>>) = 2
    OBVIOUS
  <2>3. SubSeq(<<a, b>>, 1, 2) = <<a, b>>
    BY <2>2, SubSeqFull
  <2>4. SubSeq(<<a, b>>, 1, 1) = <<a>>
    <3>1. SubSeq(<<a, b>>, 1, 1) = <<<<a, b>>[1]>> \o SubSeq(<<a, b>>, 2, 1)
      BY <2>2, SubSeqRecursiveFirst
    <3>2. SubSeq(<<a, b>>, 2, 1) = <<>>
      BY SubSeqEmpty
    <3>3. <<a, b>>[1] = a /\ <<a>> \o <<>> = <<a>>
      OBVIOUS
    <3> QED
      BY <3>1, <3>2, <3>3
  <2> QED
    BY <2>1, <2>2, <2>3, <2>4
<1>3. CASE QueueCapacity - n = 0
  <2>1. Lesser(2, QueueCapacity - n) = 0
    BY <1>3 DEF Lesser
  <2> QED
    BY <1>2, <2>1 DEF Fitting
<1>4. CASE QueueCapacity - n = 1
  <2>1. Lesser(2, QueueCapacity - n) = 1 /\ n + 1 <= QueueCapacity
    BY <1>1, <1>4 DEF Lesser
  <2> QED
    BY <1>2, <2>1 DEF Fitting
<1>5. CASE QueueCapacity - n \notin {0, 1}
  <2>1. Lesser(2, QueueCapacity - n) = 2 /\ n + 2 <= QueueCapacity
    BY <1>1, <1>5 DEF Lesser
  <2> QED
    BY <1>2, <2>1 DEF Fitting
<1> QED
  BY <1>3, <1>4, <1>5

\* What the receivers make of no, one and two messages.
LEMMA ApplyBook ==
    ASSUME NEW l
    PROVE  /\ Apply(Book, l, <<>>) = l
           /\ \A r : Apply(Book, l, <<r>>) = Book(l, r)
           /\ \A r1, r2 : Apply(Book, l, <<r1, r2>>) = Book(Book(l, r1), r2)
BY DEF Apply

LEMMA ApplySnapshot ==
    ASSUME NEW snap
    PROVE  /\ Apply(AddToSnapshot, snap, <<>>) = snap
           /\ \A u : Apply(AddToSnapshot, snap, <<u>>) = AddToSnapshot(snap, u)
           /\ \A u1, u2 : Apply(AddToSnapshot, snap, <<u1, u2>>) =
                             AddToSnapshot(AddToSnapshot(snap, u1), u2)
BY DEF Apply

\* The two queues are within their capacity.
QueueTypes == responses \in 0 .. QueueCapacity /\ updates \in 0 .. QueueCapacity

\* The messages that fit leave a queue within its capacity.
LEMMA PushedOne ==
    ASSUME NEW n \in 0 .. QueueCapacity, NEW a, NEW ms,
           \/ n + 1 <= QueueCapacity /\ ms = <<a>>
           \/ ms = <<>>
    PROVE  n + Len(ms) \in 0 .. QueueCapacity
<1>1. CASE n + 1 <= QueueCapacity /\ ms = <<a>>
  <2>1. Len(ms) = 1
    BY <1>1
  <2> QED
    BY <1>1, <2>1, BookAssumption
<1>2. CASE ms = <<>>
  <2>1. Len(ms) = 0
    BY <1>2
  <2> QED
    BY <2>1, BookAssumption
<1> QED
  BY <1>1, <1>2

LEMMA PushedTwo ==
    ASSUME NEW n \in 0 .. QueueCapacity, NEW a, NEW b, NEW ms,
           \/ n + 2 <= QueueCapacity /\ ms = <<a, b>>
           \/ n + 1 <= QueueCapacity /\ ms = <<a>>
           \/ ms = <<>>
    PROVE  n + Len(ms) \in 0 .. QueueCapacity
<1>1. CASE n + 2 <= QueueCapacity /\ ms = <<a, b>>
  <2>1. Len(ms) = 2
    BY <1>1
  <2> QED
    BY <1>1, <2>1, BookAssumption
<1>2. CASE (n + 1 <= QueueCapacity /\ ms = <<a>>) \/ ms = <<>>
  BY <1>2, PushedOne
<1> QED
  BY <1>1, <1>2

\* What Send does, by the number of messages pushed.
LEMMA SendEffect ==
    ASSUME NEW rs, NEW sent, NEW us, NEW published, Send(rs, sent, us, published)
    PROVE  /\ responses' = responses + Len(sent) /\ updates' = updates + Len(published)
           /\ halted' = (Len(sent) < Len(rs) \/ Len(published) < Len(us))
           /\ sent = <<>> => ledger' = ledger
           /\ \A r : sent = <<r>> => ledger' = Book(ledger, r)
           /\ \A r1, r2 : sent = <<r1, r2>> => ledger' = Book(Book(ledger, r1), r2)
           /\ published = <<>> => replica' = replica
           /\ \A u : published = <<u>> => replica' = AddToSnapshot(replica, u)
           /\ \A u1, u2 : published = <<u1, u2>> =>
                 replica' = AddToSnapshot(AddToSnapshot(replica, u1), u2)
<1>1. /\ responses' = responses + Len(sent) /\ updates' = updates + Len(published)
      /\ halted' = (Len(sent) < Len(rs) \/ Len(published) < Len(us))
  BY DEF Send
<1>2. sent = <<>> => ledger' = ledger
  BY ApplyBook DEF Send
<1>3. ASSUME NEW r, sent = <<r>> PROVE ledger' = Book(ledger, r)
  BY <1>3, ApplyBook DEF Send
<1>4. ASSUME NEW r1, NEW r2, sent = <<r1, r2>> PROVE ledger' = Book(Book(ledger, r1), r2)
  <2>1. ledger' = Apply(Book, ledger, sent)
    BY DEF Send
  <2>2. Apply(Book, ledger, <<r1, r2>>) = Book(Book(ledger, r1), r2)
    BY DEF Apply
  <2> QED
    BY <1>4, <2>1, <2>2
<1>5. published = <<>> => replica' = replica
  BY ApplySnapshot DEF Send
<1>6. ASSUME NEW u, published = <<u>> PROVE replica' = AddToSnapshot(replica, u)
  BY <1>6, ApplySnapshot DEF Send
<1>7. ASSUME NEW u1, NEW u2, published = <<u1, u2>>
      PROVE  replica' = AddToSnapshot(AddToSnapshot(replica, u1), u2)
  <2>1. replica' = Apply(AddToSnapshot, replica, published)
    BY DEF Send
  <2>2. Apply(AddToSnapshot, replica, <<u1, u2>>) = AddToSnapshot(AddToSnapshot(replica, u1), u2)
    BY DEF Apply
  <2> QED
    BY <1>7, <2>1, <2>2
<1> QED
  BY <1>1, <1>2, <1>3, <1>4, <1>5, <1>6, <1>7

\* What is pushed reaches the receivers; where it does not fit, the process ends.
LEMMA EmitResponse ==
    ASSUME QueueTypes, NEW r, Emit(<<r>>, <<>>)
    PROVE  /\ QueueTypes' /\ replica' = replica
           /\ ledger' = Book(ledger, r) \/ (halted' /\ ledger' = ledger)
<1>1. PICK sent : sent = Fitting(<<r>>, responses)
  OBVIOUS
<1>2. PICK published : published = (IF Len(sent) < Len(<<r>>) THEN <<>> ELSE Fitting(<<>>, updates))
  OBVIOUS
<1>3. published = <<>> /\ Len(published) = 0
  BY <1>2, FittingNone DEF QueueTypes
<1>4. Send(<<r>>, sent, <<>>, published)
  BY <1>1, <1>2 DEF Emit
<1>5. /\ responses' = responses + Len(sent) /\ updates' = updates + Len(published)
      /\ halted' = (Len(sent) < Len(<<r>>) \/ Len(published) < Len(<<>>))
      /\ sent = <<>> => ledger' = ledger
      /\ sent = <<r>> => ledger' = Book(ledger, r)
      /\ replica' = replica
  BY <1>3, <1>4, SendEffect
<1>6. \/ responses + 1 <= QueueCapacity /\ sent = <<r>>
      \/ sent = <<>>
  BY <1>1, FittingOne DEF QueueTypes
<1>7. QueueTypes'
  <2>1. responses' \in 0 .. QueueCapacity
    <3>1. responses + Len(sent) \in 0 .. QueueCapacity
      BY <1>6, PushedOne DEF QueueTypes
    <3> QED
      BY <1>5, <3>1
  <2>2. updates' \in 0 .. QueueCapacity
    <3>1. updates + Len(published) \in 0 .. QueueCapacity
      BY <1>3, PushedOne DEF QueueTypes
    <3> QED
      BY <1>5, <3>1
  <2> QED
    BY <2>1, <2>2 DEF QueueTypes
<1>8. sent = <<>> => halted'
  <2>1. Len(<<>>) < Len(<<r>>)
    OBVIOUS
  <2> QED
    BY <1>5, <2>1
<1> QED
  BY <1>5, <1>6, <1>7, <1>8

LEMMA EmitUpdate ==
    ASSUME QueueTypes, NEW u, Emit(<<>>, <<u>>)
    PROVE  /\ QueueTypes' /\ ledger' = ledger
           /\ replica' = AddToSnapshot(replica, u) \/ (halted' /\ replica' = replica)
<1>1. PICK sent : sent = Fitting(<<>>, responses)
  OBVIOUS
<1>2. PICK published : published = (IF Len(sent) < Len(<<>>) THEN <<>> ELSE Fitting(<<u>>, updates))
  OBVIOUS
<1>3. sent = <<>> /\ Len(sent) = 0
  BY <1>1, FittingNone DEF QueueTypes
<1>4. Send(<<>>, sent, <<u>>, published)
  BY <1>1, <1>2 DEF Emit
<1>5. /\ responses' = responses + Len(sent) /\ updates' = updates + Len(published)
      /\ halted' = (Len(sent) < Len(<<>>) \/ Len(published) < Len(<<u>>))
      /\ published = <<>> => replica' = replica
      /\ published = <<u>> => replica' = AddToSnapshot(replica, u)
      /\ ledger' = ledger
  BY <1>3, <1>4, SendEffect
<1>6. \/ updates + 1 <= QueueCapacity /\ published = <<u>>
      \/ published = <<>>
  BY <1>2, FittingOne DEF QueueTypes
<1>7. QueueTypes'
  <2>1. responses' \in 0 .. QueueCapacity
    <3>1. responses + Len(sent) \in 0 .. QueueCapacity
      BY <1>3, PushedOne DEF QueueTypes
    <3> QED
      BY <1>5, <3>1
  <2>2. updates' \in 0 .. QueueCapacity
    <3>1. updates + Len(published) \in 0 .. QueueCapacity
      BY <1>6, PushedOne DEF QueueTypes
    <3> QED
      BY <1>5, <3>1
  <2> QED
    BY <2>1, <2>2 DEF QueueTypes
<1>8. published = <<>> => halted'
  <2>1. Len(<<>>) < Len(<<u>>)
    OBVIOUS
  <2> QED
    BY <1>5, <2>1
<1> QED
  BY <1>5, <1>6, <1>7, <1>8

LEMMA EmitCancel ==
    ASSUME QueueTypes, NEW r, NEW u, EmitUpdateFirst(r, u)
    PROVE  /\ QueueTypes'
           /\ ledger' = Book(ledger, r) \/ (halted' /\ ledger' = ledger)
           /\ replica' = AddToSnapshot(replica, u) \/ (halted' /\ replica' = replica)
<1>1. PICK published : published = Fitting(<<u>>, updates)
  OBVIOUS
<1>2. PICK sent : sent = (IF published = <<>> THEN <<>> ELSE Fitting(<<r>>, responses))
  OBVIOUS
<1>3. Send(<<r>>, sent, <<u>>, published)
  BY <1>1, <1>2 DEF EmitUpdateFirst
<1>4. /\ responses' = responses + Len(sent) /\ updates' = updates + Len(published)
      /\ halted' = (Len(sent) < Len(<<r>>) \/ Len(published) < Len(<<u>>))
      /\ sent = <<>> => ledger' = ledger
      /\ sent = <<r>> => ledger' = Book(ledger, r)
      /\ published = <<>> => replica' = replica
      /\ published = <<u>> => replica' = AddToSnapshot(replica, u)
  BY <1>3, SendEffect
<1>5. \/ updates + 1 <= QueueCapacity /\ published = <<u>>
      \/ published = <<>>
  BY <1>1, FittingOne DEF QueueTypes
<1>6. \/ responses + 1 <= QueueCapacity /\ sent = <<r>>
      \/ sent = <<>>
  BY <1>2, FittingOne DEF QueueTypes
<1>7. QueueTypes'
  <2>1. responses' \in 0 .. QueueCapacity
    <3>1. responses + Len(sent) \in 0 .. QueueCapacity
      BY <1>6, PushedOne DEF QueueTypes
    <3> QED
      BY <1>4, <3>1
  <2>2. updates' \in 0 .. QueueCapacity
    <3>1. updates + Len(published) \in 0 .. QueueCapacity
      BY <1>5, PushedOne DEF QueueTypes
    <3> QED
      BY <1>4, <3>1
  <2> QED
    BY <2>1, <2>2 DEF QueueTypes
<1>8. sent = <<>> \/ published = <<>> => halted'
  <2>1. Len(<<>>) < Len(<<r>>) /\ Len(<<>>) < Len(<<u>>)
    OBVIOUS
  <2> QED
    BY <1>4, <2>1
<1> QED
  BY <1>4, <1>5, <1>6, <1>7, <1>8

LEMMA EmitFill ==
    ASSUME QueueTypes, NEW r1, NEW r2, NEW u1, NEW u2, Emit(<<r1, r2>>, <<u1, u2>>)
    PROVE  /\ QueueTypes'
           /\ \/ ledger' = Book(Book(ledger, r1), r2)
              \/ halted' /\ ledger' \in {ledger, Book(ledger, r1)}
           /\ \/ replica' = AddToSnapshot(AddToSnapshot(replica, u1), u2)
              \/ halted' /\ replica' \in {replica, AddToSnapshot(replica, u1)}
<1>1. PICK sent : sent = Fitting(<<r1, r2>>, responses)
  OBVIOUS
<1>2. PICK published : published = (IF Len(sent) < Len(<<r1, r2>>) THEN <<>> ELSE Fitting(<<u1, u2>>, updates))
  OBVIOUS
<1>3. Send(<<r1, r2>>, sent, <<u1, u2>>, published)
  BY <1>1, <1>2 DEF Emit
<1>4. /\ responses' = responses + Len(sent) /\ updates' = updates + Len(published)
      /\ halted' = (Len(sent) < Len(<<r1, r2>>) \/ Len(published) < Len(<<u1, u2>>))
      /\ sent = <<>> => ledger' = ledger
      /\ sent = <<r1>> => ledger' = Book(ledger, r1)
      /\ sent = <<r1, r2>> => ledger' = Book(Book(ledger, r1), r2)
      /\ published = <<>> => replica' = replica
      /\ published = <<u1>> => replica' = AddToSnapshot(replica, u1)
      /\ published = <<u1, u2>> => replica' = AddToSnapshot(AddToSnapshot(replica, u1), u2)
  <2>1. /\ responses' = responses + Len(sent) /\ updates' = updates + Len(published)
        /\ halted' = (Len(sent) < Len(<<r1, r2>>) \/ Len(published) < Len(<<u1, u2>>))
        /\ sent = <<>> => ledger' = ledger
        /\ published = <<>> => replica' = replica
    BY <1>3, SendEffect
  <2>2. sent = <<r1>> => ledger' = Book(ledger, r1)
    BY <1>3, SendEffect
  <2>3. sent = <<r1, r2>> => ledger' = Book(Book(ledger, r1), r2)
    BY <1>3, SendEffect
  <2>4. published = <<u1>> => replica' = AddToSnapshot(replica, u1)
    BY <1>3, SendEffect
  <2>5. published = <<u1, u2>> => replica' = AddToSnapshot(AddToSnapshot(replica, u1), u2)
    BY <1>3, SendEffect
  <2> QED
    BY <2>1, <2>2, <2>3, <2>4, <2>5
<1>5. \/ responses + 2 <= QueueCapacity /\ sent = <<r1, r2>>
      \/ responses + 1 <= QueueCapacity /\ sent = <<r1>>
      \/ sent = <<>>
  BY <1>1, FittingTwo DEF QueueTypes
<1>6. \/ updates + 2 <= QueueCapacity /\ published = <<u1, u2>>
      \/ updates + 1 <= QueueCapacity /\ published = <<u1>>
      \/ published = <<>>
  BY <1>2, FittingTwo DEF QueueTypes
<1>7. responses' \in 0 .. QueueCapacity
  <2>1. responses + Len(sent) \in 0 .. QueueCapacity
    BY <1>5, PushedTwo DEF QueueTypes
  <2> QED
    BY <1>4, <2>1
<1>8. updates' \in 0 .. QueueCapacity
  <2>1. updates + Len(published) \in 0 .. QueueCapacity
    BY <1>6, PushedTwo DEF QueueTypes
  <2> QED
    BY <1>4, <2>1
<1>9. sent \in {<<>>, <<r1>>} \/ published \in {<<>>, <<u1>>} => halted'
  <2>1. /\ Len(<<>>) < Len(<<r1, r2>>) /\ Len(<<r1>>) < Len(<<r1, r2>>)
        /\ Len(<<>>) < Len(<<u1, u2>>) /\ Len(<<u1>>) < Len(<<u1, u2>>)
    OBVIOUS
  <2> QED
    BY <1>4, <2>1
<1>10. \/ ledger' = Book(Book(ledger, r1), r2)
       \/ halted' /\ ledger' \in {ledger, Book(ledger, r1)}
  BY <1>4, <1>5, <1>9
<1>11. \/ replica' = AddToSnapshot(AddToSnapshot(replica, u1), u2)
       \/ halted' /\ replica' \in {replica, AddToSnapshot(replica, u1)}
  BY <1>4, <1>6, <1>9
<1> QED
  BY <1>7, <1>8, <1>10, <1>11 DEF QueueTypes

\* Responses about no open quantity leave a client's ledger as it is.
LEMMA BookNothing ==
    ASSUME NEW l, NEW r, r.type \in {"REJECTED", "CANCEL_REJECTED", "STATE"},
           l.position[r.client] = r.position, l.ok,
           r.type = "CANCEL_REJECTED" => l.leaves[<<r.client, r.oid>>] = 0,
           r.type = "STATE" => r.oid = 0 \/ l.leaves[<<r.client, r.oid>>] = r.leaves
    PROVE  /\ Book(l, r).leaves = l.leaves
           /\ Book(l, r).position = l.position
           /\ Book(l, r).ok
BY DEF Book

LEMMA BookAccepted ==
    ASSUME NEW l, NEW r, r.type = "ACCEPTED",
           l.position[r.client] = r.position, l.ok,
           l.leaves[<<r.client, r.oid>>] = 0, r.leaves > 0
    PROVE  /\ Book(l, r).leaves = [l.leaves EXCEPT ![<<r.client, r.oid>>] = r.leaves]
           /\ Book(l, r).position = l.position
           /\ Book(l, r).ok
BY DEF Book

LEMMA BookCanceled ==
    ASSUME NEW l, NEW r, r.type = "CANCELED",
           l.position[r.client] = r.position, l.ok,
           l.leaves[<<r.client, r.oid>>] = r.leaves, r.leaves > 0
    PROVE  /\ Book(l, r).leaves = [l.leaves EXCEPT ![<<r.client, r.oid>>] = 0]
           /\ Book(l, r).position = l.position
           /\ Book(l, r).ok
BY DEF Book

\* A fill that continues the ledger l and takes the positions to position.
Continues(l, r, position) ==
    /\ r.type = "FILLED" /\ l.ok
    /\ r.exec > 0 /\ l.leaves[<<r.client, r.oid>>] = r.exec + r.leaves
    /\ position = [l.position EXCEPT ![r.client] = @ + r.exec * SideValue(r.side)]
    /\ position[r.client] = r.position

LEMMA BookFilled ==
    ASSUME NEW l, NEW r, NEW position, Continues(l, r, position)
    PROVE  /\ Book(l, r).leaves = [l.leaves EXCEPT ![<<r.client, r.oid>>] = r.leaves]
           /\ Book(l, r).position = position
           /\ Book(l, r).ok
BY DEF Book, Continues

\* The responses: what is open of an order is what its last response said.
LedgerInv == ClientsReconcile /\ Remembered /\ ReceiverTypes

LEMMA InitLedger == Init => LedgerInv
BY DEF Init, LedgerInv, ClientsReconcile, Remembered, ReceiverTypes, Keys

LEMMA UnchangedLedger ==
    ASSUME LedgerInv, UNCHANGED engineVars, ~halted, ledger'.leaves = ledger.leaves, ledger'.ok,
           ledger'.position = ledger.position
    PROVE  LedgerInv'
BY DEF LedgerInv, ClientsReconcile, Remembered, ReceiverTypes, engineVars, bookVars

LEMMA RejectNewLedger ==
    ASSUME EngineInv, QueueTypes, LedgerInv, NEW client \in Clients, NEW oid, NEW side,
           RejectNew(client, oid, side)
    PROVE  LedgerInv'
<1>1. PICK r : r = Plain("REJECTED", client, oid, side, 0)
  OBVIOUS
<1>2. r.type = "REJECTED" /\ r.client = client /\ r.position = positions[client]
  BY <1>1 DEF Plain, Response
<1>3. UNCHANGED engineVars /\ Emit(<<r>>, <<>>) /\ ~halted
  BY <1>1 DEF RejectNew, Ready
<1>4. ledger'.leaves = ledger.leaves /\ ledger'.ok /\ ledger'.position = ledger.position
  <2>1. ledger' = Book(ledger, r) \/ ledger' = ledger
    BY <1>3, EmitResponse
  <2>2. ledger.ok /\ ledger.position = positions
    BY <1>3 DEF LedgerInv, ClientsReconcile
  <2>3. /\ r.type \in {"REJECTED", "CANCEL_REJECTED", "STATE"}
        /\ r.type = "CANCEL_REJECTED" => ledger.leaves[<<r.client, r.oid>>] = 0
        /\ r.type = "STATE" => r.oid = 0 \/ ledger.leaves[<<r.client, r.oid>>] = r.leaves
        /\ ledger.position[r.client] = r.position
    BY <1>2, <2>2
  <2> QED
    BY <2>1, <2>2, <2>3, BookNothing
<1> QED
  BY <1>3, <1>4, UnchangedLedger

LEMMA QueryLedger ==
    ASSUME EngineInv, QueueTypes, LedgerInv, NEW client \in Clients, NEW oid, Query(client, oid)
    PROVE  LedgerInv'
<1> DEFINE k == <<client, oid>>
<1>1. PICK leaves :
         leaves = IF oid # 0 /\ k \in DOMAIN last_response /\ last_response[k].type # "CANCELED"
                  THEN last_response[k].leaves ELSE 0
  OBVIOUS
<1>2. PICK type : type = IF oid = 0 \/ k \in DOMAIN last_response THEN "STATE" ELSE "REJECTED"
  OBVIOUS
<1>3. PICK r : r = Plain(type, client, oid, "INVALID", leaves)
  OBVIOUS
<1>4. /\ r.type = type /\ r.client = client /\ r.oid = oid
      /\ r.leaves = leaves /\ r.position = positions[client]
  BY <1>3 DEF Plain, Response
<1>5. UNCHANGED engineVars /\ Emit(<<r>>, <<>>) /\ ~halted
  BY <1>1, <1>2, <1>3 DEF Query, Ready
<1>6. ledger'.leaves = ledger.leaves /\ ledger'.ok /\ ledger'.position = ledger.position
  <2>1. ledger' = Book(ledger, r) \/ ledger' = ledger
    BY <1>5, EmitResponse
  <2>2. ledger.ok /\ ledger.position = positions
    BY <1>5 DEF LedgerInv, ClientsReconcile
  <2>3. type = "STATE" => oid = 0 \/ ledger.leaves[k] = leaves
    BY <1>1, <1>2, <1>5 DEF LedgerInv, Remembered
  <2>4. /\ r.type \in {"REJECTED", "CANCEL_REJECTED", "STATE"} /\ r.type # "CANCEL_REJECTED"
        /\ ledger.position[r.client] = r.position
        /\ r.type = "STATE" => r.oid = 0 \/ ledger.leaves[<<r.client, r.oid>>] = r.leaves
    BY <1>2, <1>4, <2>2, <2>3
  <2> QED
    BY <2>1, <2>2, <2>4, BookNothing
<1> QED
  BY <1>5, <1>6, UnchangedLedger

LEMMA AcceptNewLedger ==
    ASSUME EngineInv, QueueTypes, LedgerInv, NEW client \in Clients, NEW oid \in OrderIds, NEW side,
           NEW price, NEW qty \in Qtys, AcceptNew(client, oid, side, price, qty), taker' \in Takers
    PROVE  LedgerInv'
<1> DEFINE k == <<client, oid>>
<1>1. PICK r : r = Plain("ACCEPTED", client, oid, side, qty)
  OBVIOUS
<1>2. /\ r.type = "ACCEPTED" /\ r.client = client /\ r.oid = oid /\ r.leaves = qty
      /\ r.position = positions[client]
  BY <1>1 DEF Plain, Response
<1>3. /\ ~halted /\ taker = NoOrder /\ Emit(<<r>>, <<>>) /\ UNCHANGED <<bookVars, positions>>
      /\ last_response' = Remember(last_response, r)
      /\ used' = used \cup {k}
      /\ taker'.client = client /\ taker'.oid = oid /\ taker'.leaves = qty
  BY <1>1 DEF AcceptNew, Ready
<1>4. k \in Keys /\ k \notin used /\ k \notin DOMAIN index /\ qty \in Nat /\ qty > 0
  <2>1. k \notin used
    <3>1. RejectReason(client, oid, side, price, qty) = "NONE"
      BY DEF AcceptNew
    <3> QED
      BY <3>1 DEF RejectReason
  <2> QED
    BY <2>1, BookAssumption DEF EngineInv, Keys
<1>5. taker' # NoOrder
  BY NoOrderAssumption
<1>6. /\ ledger'.ok /\ ledger'.position = positions'
      /\ \/ ledger'.leaves = [ledger.leaves EXCEPT ![k] = qty]
         \/ halted' /\ ledger'.leaves = ledger.leaves
  <2>1. ledger' = Book(ledger, r) \/ (halted' /\ ledger' = ledger)
    BY <1>3, EmitResponse
  <2>2. ledger.ok /\ ledger.position = positions /\ ledger.leaves[k] = 0
    BY <1>3, <1>4 DEF LedgerInv, ClientsReconcile
  <2>3. /\ Book(ledger, r).leaves = [ledger.leaves EXCEPT ![k] = qty]
        /\ Book(ledger, r).position = ledger.position /\ Book(ledger, r).ok
    BY <1>2, <1>4, <2>2, BookAccepted
  <2> QED
    BY <1>3, <2>1, <2>2, <2>3
<1>7. ClientsReconcile'
  <2>1. ASSUME NEW x \in DOMAIN index' PROVE ledger'.leaves[x] >= order'[index'[x]].qty
    <3>1. x \in DOMAIN index /\ x # k /\ UNCHANGED <<index, order>>
      BY <1>3, <1>4, <2>1 DEF bookVars
    <3>2. ledger.leaves[x] >= order[index[x]].qty
      BY <3>1 DEF LedgerInv, ClientsReconcile
    <3>3. ledger'.leaves[x] = ledger.leaves[x]
      <4>1. ledger.leaves \in [Keys -> Nat] /\ x \in Keys
        BY <1>3, <3>1 DEF LedgerInv, ReceiverTypes, EngineInv
      <4> QED
        BY <1>6, <3>1, <4>1
    <3> QED
      BY <3>1, <3>2, <3>3
  <2>2. ASSUME ~halted', NEW x \in Keys
        PROVE  ledger'.leaves[x] = IF x \in DOMAIN index' THEN order'[index'[x]].qty
                                   ELSE IF taker' # NoOrder /\ x = <<taker'.client, taker'.oid>>
                                   THEN taker'.leaves
                                   ELSE 0
    <3>1. /\ ledger.leaves \in [Keys -> Nat]
          /\ ledger.leaves[x] = IF x \in DOMAIN index THEN order[index[x]].qty ELSE 0
      BY <1>3 DEF LedgerInv, ClientsReconcile, ReceiverTypes
    <3> QED
      BY <1>3, <1>4, <1>5, <1>6, <2>2, <3>1 DEF bookVars
  <2> QED
    BY <1>6, <2>1, <2>2 DEF ClientsReconcile
<1>8. Remembered'
  <2> SUFFICES ASSUME ~halted'
               PROVE  /\ DOMAIN last_response' = used'
                      /\ \A x \in used' : ledger'.leaves[x] =
                            IF last_response'[x].type = "CANCELED" THEN 0 ELSE last_response'[x].leaves
    BY DEF Remembered
  <2>1. last_response' = [x \in DOMAIN last_response \cup {k} |->
                             IF x = k THEN [type |-> r.type, leaves |-> r.leaves] ELSE last_response[x]]
    BY <1>2, <1>3 DEF Remember, Put
  <2>2. /\ DOMAIN last_response = used /\ ledger.leaves \in [Keys -> Nat] /\ used \subseteq Keys
        /\ \A x \in used : ledger.leaves[x] =
              IF last_response[x].type = "CANCELED" THEN 0 ELSE last_response[x].leaves
    BY <1>3 DEF LedgerInv, Remembered, ReceiverTypes, EngineInv
  <2>3. DOMAIN last_response' = used'
    BY <1>3, <2>1, <2>2
  <2>4. ledger'.leaves[k] = qty /\ last_response'[k].type = "ACCEPTED" /\ last_response'[k].leaves = qty
    BY <1>2, <1>4, <1>6, <2>1, <2>2
  <2>5. ASSUME NEW x \in used
        PROVE  ledger'.leaves[x] = ledger.leaves[x] /\ last_response'[x] = last_response[x]
    BY <1>4, <1>6, <2>1, <2>2
  <2> QED
    BY <1>3, <2>2, <2>3, <2>4, <2>5
<1>9. ReceiverTypes'
  BY <1>3, <1>4, <1>6 DEF LedgerInv, ReceiverTypes
<1> QED
  BY <1>7, <1>8, <1>9 DEF LedgerInv

LEMMA CancelLedger ==
    ASSUME EngineInv, QueueTypes, LedgerInv, NEW client \in Clients, NEW oid \in OrderIds, Cancel(client, oid)
    PROVE  LedgerInv'
<1> DEFINE k == <<client, oid>>
<1>1. /\ ~halted /\ taker = NoOrder /\ UNCHANGED <<used, positions, taker>>
      /\ k \in Keys /\ ledger.leaves \in [Keys -> Nat]
  BY DEF Cancel, Ready, LedgerInv, ReceiverTypes, Keys
<1>2. /\ ledger.ok /\ ledger.position = positions
      /\ \A x \in Keys : ledger.leaves[x] = IF x \in DOMAIN index THEN order[index[x]].qty ELSE 0
  BY <1>1 DEF LedgerInv, ClientsReconcile
<1>3. CASE k \in DOMAIN index
  <2>1. PICK m : m = index[k]
    OBVIOUS
  <2>2. m \in DOMAIN order /\ Key(order[m]) = k /\ order[m] \in Orders
    BY <1>3, <2>1 DEF EngineInv, BookInv, IndexExact, Key, BookTypes
  <2>3. PICK r : r = Plain("CANCELED", client, oid, order[m].side, order[m].qty)
    OBVIOUS
  <2>4. PICK u : u = Update("CANCEL", m, order[m].side, order[m].price, 0, order[m].priority)
    OBVIOUS
  <2>5. /\ r.type = "CANCELED" /\ r.client = client /\ r.oid = oid /\ r.leaves = order[m].qty
        /\ r.position = positions[client]
    BY <2>3 DEF Plain, Response
  <2>6. RemoveOrder(m) /\ EmitUpdateFirst(r, u) /\ last_response' = Remember(last_response, r)
    BY <1>3, <2>1, <2>3, <2>4 DEF Cancel
  <2>7. /\ DOMAIN order' = DOMAIN order \ {m}
        /\ \A n \in DOMAIN order' : order'[n] = order[n]
        /\ DOMAIN index' = DOMAIN index \ {k}
        /\ \A x \in DOMAIN index' : index'[x] = index[x]
    <3>1. BookInv
      BY DEF EngineInv
    <3>2. /\ DOMAIN order' = DOMAIN order \ {m}
          /\ \A n \in DOMAIN order' : order'[n] = order[n]
          /\ DOMAIN index' = DOMAIN index \ {Key(order[m])}
          /\ \A x \in DOMAIN index' : index'[x] = index[x]
      BY <2>2, <2>6, <3>1, RemoveOrderInv
    <3> QED
      BY <2>2, <3>2
  <2>8. order[m].qty \in Nat /\ order[m].qty > 0
    BY <2>2 DEF Orders
  <2>9. /\ ledger'.ok /\ ledger'.position = positions'
        /\ \/ ledger'.leaves = [ledger.leaves EXCEPT ![k] = 0]
           \/ halted' /\ ledger'.leaves = ledger.leaves
    <3>1. ledger' = Book(ledger, r) \/ (halted' /\ ledger' = ledger)
      BY <2>6, EmitCancel
    <3>2. ledger.leaves[k] = order[m].qty
      BY <1>1, <1>2, <1>3, <2>1
    <3>3. /\ Book(ledger, r).leaves = [ledger.leaves EXCEPT ![k] = 0]
          /\ Book(ledger, r).position = ledger.position /\ Book(ledger, r).ok
      BY <1>1, <1>2, <2>5, <2>8, <3>2, BookCanceled
    <3> QED
      BY <1>1, <1>2, <3>1, <3>3
  <2>10. ClientsReconcile'
    <3>1. ASSUME NEW x \in DOMAIN index'
          PROVE  /\ x \in DOMAIN index /\ x # k /\ index'[x] = index[x]
                 /\ order'[index'[x]] = order[index[x]]
      <4>1. x \in DOMAIN index /\ x # k /\ index'[x] = index[x]
        BY <2>7, <3>1
      <4>2. index[x] \in DOMAIN order /\ Key(order[index[x]]) = x
        BY <4>1 DEF EngineInv, BookInv, IndexExact, Key
      <4>3. index[x] \in DOMAIN order'
        BY <2>2, <2>7, <4>1, <4>2
      <4> QED
        BY <2>7, <4>1, <4>3
    <3>2. ASSUME NEW x \in DOMAIN index' PROVE ledger'.leaves[x] >= order'[index'[x]].qty
      <4>1. ledger.leaves[x] >= order[index[x]].qty
        BY <3>1, <3>2 DEF LedgerInv, ClientsReconcile
      <4>2. ledger'.leaves[x] = ledger.leaves[x]
        <5>1. x \in Keys /\ x # k
          BY <3>1, <3>2 DEF EngineInv
        <5> QED
          BY <1>1, <2>9, <5>1
      <4> QED
        BY <3>1, <3>2, <4>1, <4>2
    <3>3. ASSUME ~halted', NEW x \in Keys
          PROVE  ledger'.leaves[x] = IF x \in DOMAIN index' THEN order'[index'[x]].qty ELSE 0
      BY <1>1, <1>2, <2>7, <2>9, <3>1, <3>3
    <3> QED
      BY <1>1, <2>9, <3>2, <3>3 DEF ClientsReconcile
  <2>11. Remembered'
    <3> SUFFICES ASSUME ~halted'
                 PROVE  /\ DOMAIN last_response' = used
                        /\ \A x \in used : ledger'.leaves[x] =
                              IF last_response'[x].type = "CANCELED" THEN 0 ELSE last_response'[x].leaves
      BY <1>1 DEF Remembered
    <3>1. last_response' = [x \in DOMAIN last_response \cup {k} |->
                               IF x = k THEN [type |-> r.type, leaves |-> r.leaves] ELSE last_response[x]]
      BY <2>5, <2>6 DEF Remember, Put
    <3>2. /\ DOMAIN last_response = used /\ used \subseteq Keys /\ k \in used
          /\ \A x \in used : ledger.leaves[x] =
                IF last_response[x].type = "CANCELED" THEN 0 ELSE last_response[x].leaves
      BY <1>1, <1>3 DEF LedgerInv, Remembered, EngineInv
    <3> QED
      BY <1>1, <2>5, <2>9, <3>1, <3>2
  <2>12. ReceiverTypes'
    BY <1>1, <2>9 DEF ReceiverTypes
  <2> QED
    BY <2>10, <2>11, <2>12 DEF LedgerInv
<1>4. CASE k \notin DOMAIN index
  <2>1. PICK r : r = Plain("CANCEL_REJECTED", client, oid, "INVALID", 0)
    OBVIOUS
  <2>2. r.type = "CANCEL_REJECTED" /\ r.client = client /\ r.oid = oid /\ r.position = positions[client]
    BY <2>1 DEF Plain, Response
  <2>3. Emit(<<r>>, <<>>) /\ UNCHANGED <<bookVars, last_response>>
    BY <1>4, <2>1 DEF Cancel
  <2>4. ledger'.leaves = ledger.leaves /\ ledger'.ok /\ ledger'.position = ledger.position
    <3>1. ledger' = Book(ledger, r) \/ ledger' = ledger
      BY <2>3, EmitResponse
    <3>2. ledger.leaves[k] = 0
      BY <1>1, <1>2, <1>4
    <3> QED
      BY <1>2, <2>2, <3>1, <3>2, BookNothing
  <2> QED
    BY <1>1, <2>3, <2>4 DEF LedgerInv, ClientsReconcile, Remembered, ReceiverTypes, bookVars
<1> QED
  BY <1>3, <1>4

\* The two responses of a fill, and the two updates, as match() sends them.
FillOutput(m, fill, r1, r2, trade, change) ==
    LET o == order[m]
        pos1 == [positions EXCEPT ![taker.client] = @ + fill * SideValue(taker.side)]
    IN  /\ r1 = Response("FILLED", taker.client, taker.oid, taker.side, fill,
                         taker.leaves - fill, pos1[taker.client])
        /\ r2 = Response("FILLED", o.client, o.oid, o.side, fill, o.qty - fill, positions'[o.client])
        /\ trade = Update("TRADE", 0, taker.side, o.price, fill, 0)
        /\ change = Change(m, fill)
        /\ last_response' = Remember(Remember(last_response, r1), r2)
        /\ Emit(<<r1, r2>>, <<trade, change>>)

LEMMA MatchOutput ==
    ASSUME Match
    PROVE  \E m, fill, r1, r2, trade, change :
              Filling(m, fill) /\ FillOutput(m, fill, r1, r2, trade, change)
<1> DEFINE best == Head(ring[Opposite(taker.side)])
           m == Head(level[Opposite(taker.side)][best])
           fill == Lesser(taker.leaves, order[m].qty)
           pos1 == [positions EXCEPT ![taker.client] = @ + fill * SideValue(taker.side)]
           pos2 == [pos1 EXCEPT ![order[m].client] = @ + fill * SideValue(order[m].side)]
           r1 == Response("FILLED", taker.client, taker.oid, taker.side, fill,
                          taker.leaves - fill, pos1[taker.client])
           r2 == Response("FILLED", order[m].client, order[m].oid, order[m].side, fill,
                          order[m].qty - fill, pos2[order[m].client])
           trade == Update("TRADE", 0, taker.side, order[m].price, fill, 0)
<1>1. Filling(m, fill)
  BY DEF Match, Best, Filling
<1>2. positions' = pos2
  BY DEF Match
<1>3. Emit(<<r1, r2>>, <<trade, Change(m, fill)>>) /\ last_response' = Remember(Remember(last_response, r1), r2)
  BY DEF Match
<1>4. FillOutput(m, fill, r1, r2, trade, Change(m, fill))
  BY <1>2, <1>3 DEF FillOutput
<1> HIDE DEF m, fill, r1, r2, trade
<1> QED
  BY <1>1, <1>4

\* No push goes beyond the capacity of its queue.
LEMMA QueueStep == ASSUME QueueTypes, [Next]_vars PROVE QueueTypes'
<1>1. CASE Request
  BY <1>1, RequestForms, EmitResponse, EmitCancel
<1>2. CASE Match
  <2>1. PICK m, fill, r1, r2, trade, change : FillOutput(m, fill, r1, r2, trade, change)
    BY <1>2, MatchOutput
  <2>2. Emit(<<r1, r2>>, <<trade, change>>)
    BY <2>1 DEF FillOutput
  <2> QED
    BY <2>2, EmitFill
<1>3. CASE Rest
  <2>1. (\E u : Emit(<<>>, <<u>>)) \/ UNCHANGED outputVars
    BY <1>3 DEF Rest
  <2> QED
    BY <2>1, EmitUpdate DEF outputVars, QueueTypes
<1>4. CASE TakeResponse
  BY <1>4, BookAssumption DEF TakeResponse, QueueTypes
<1>5. CASE TakeUpdate
  BY <1>5, BookAssumption DEF TakeUpdate, QueueTypes
<1>6. CASE UNCHANGED vars
  BY <1>6 DEF vars, outputVars, QueueTypes
<1> QED
  BY <1>1, <1>2, <1>3, <1>4, <1>5, <1>6 DEF Next

\* The output queues never hold more than their capacity: a push that does not fit
\* is the ASSERT that ends the process, not an overrun.
THEOREM QueuesInductive == Spec => []QueueTypes
<1>1. Init => QueueTypes
  BY BookAssumption DEF Init, QueueTypes
<1>2. QueueTypes /\ [Next]_vars => QueueTypes'
  BY QueueStep
<1> QED
  BY <1>1, <1>2, PTL DEF Spec

\* Every variable of MEOrderBook and MatchingEngine keeps its type; in particular
\* a market id is never handed out beyond ME_MAX_ORDER_IDS.
THEOREM TypeCorrect == Spec => []TypeOK
<1>1. EngineInv /\ QueueTypes => TypeOK
  BY DEF EngineInv, BookInv, BookTypes, TakerInv, QueueTypes, TypeOK, Orders
<1> QED
  BY EngineInductive, QueuesInductive, <1>1, PTL

\* A fill in the ledgers of its two clients (or of the one that trades with itself).
LEMMA FillLedger ==
    ASSUME EngineInv, QueueTypes, LedgerInv, NEW m, NEW fill, NEW r1, NEW r2, NEW trade, NEW change,
           Filling(m, fill), FillOutput(m, fill, r1, r2, trade, change),
           NEW half, half = [ledger.leaves EXCEPT ![<<taker.client, taker.oid>>] = taker.leaves - fill]
    PROVE  /\ ledger'.ok
           /\ \/ /\ ledger'.position = positions'
                 /\ ledger'.leaves = [half EXCEPT ![Key(order[m])] = order[m].qty - fill]
              \/ halted' /\ ledger'.leaves \in {ledger.leaves, half}
<1> DEFINE k1 == <<taker.client, taker.oid>>
           k2 == <<order[m].client, order[m].oid>>
           pos1 == [positions EXCEPT ![taker.client] = @ + fill * SideValue(taker.side)]
<1>1. /\ m \in DOMAIN order /\ order[m] \in Orders /\ taker \in Takers /\ taker # NoOrder /\ ~halted
      /\ taker.leaves \in Nat /\ order[m].qty \in Nat
      /\ fill \in Nat \ {0} /\ fill <= taker.leaves /\ fill <= order[m].qty
  BY FillSize DEF Filling
<1>2. /\ k1 \in Keys /\ k2 \in Keys /\ k1 \notin DOMAIN index /\ k2 \in DOMAIN index /\ index[k2] = m
  BY <1>1 DEF EngineInv, TakerInv, BookInv, IndexExact, Takers, Orders, Keys
<1>3. /\ ledger.ok /\ ledger.position = positions /\ ledger.leaves \in [Keys -> Nat]
      /\ ledger.leaves[k1] = taker.leaves /\ ledger.leaves[k2] = order[m].qty
  BY <1>1, <1>2 DEF LedgerInv, ClientsReconcile, ReceiverTypes
<1>4. /\ r1.type = "FILLED" /\ r1.client = taker.client /\ r1.oid = taker.oid /\ r1.side = taker.side
      /\ r1.exec = fill /\ r1.leaves = taker.leaves - fill /\ r1.position = pos1[taker.client]
  BY DEF FillOutput, Response
<1>5. /\ r2.type = "FILLED" /\ r2.client = order[m].client /\ r2.oid = order[m].oid
      /\ r2.side = order[m].side
      /\ r2.exec = fill /\ r2.leaves = order[m].qty - fill /\ r2.position = positions'[order[m].client]
  BY DEF FillOutput, Response
<1>6. \/ ledger' = Book(Book(ledger, r1), r2)
      \/ halted' /\ ledger' \in {ledger, Book(ledger, r1)}
  BY EmitFill DEF FillOutput
<1>7. PICK l : l = Book(ledger, r1)
  OBVIOUS
<1>8. l.ok /\ l.position = pos1 /\ l.leaves = [ledger.leaves EXCEPT ![k1] = taker.leaves - fill]
  <2>1. /\ r1.exec > 0 /\ ledger.leaves[<<r1.client, r1.oid>>] = r1.exec + r1.leaves
        /\ pos1 = [ledger.position EXCEPT ![r1.client] = @ + r1.exec * SideValue(r1.side)]
        /\ pos1[r1.client] = r1.position
    BY <1>1, <1>3, <1>4
  <2> HIDE DEF pos1
  <2>2. /\ l.leaves = [ledger.leaves EXCEPT ![<<r1.client, r1.oid>>] = r1.leaves]
        /\ l.position = pos1 /\ l.ok
    <3>1. Continues(ledger, r1, pos1)
      BY <1>3, <1>4, <2>1 DEF Continues
    <3> QED
      BY <1>7, <3>1, BookFilled
  <2> QED
    BY <1>4, <2>2
<1>9. /\ Book(l, r2).ok /\ Book(l, r2).position = positions'
      /\ Book(l, r2).leaves = [l.leaves EXCEPT ![k2] = order[m].qty - fill]
  <2>1. k1 # k2
    BY <1>2
  <2>2. l.leaves[k2] = order[m].qty
    BY <1>2, <1>3, <1>8, <2>1
  <2>3. positions' = [pos1 EXCEPT ![order[m].client] = @ + fill * SideValue(order[m].side)]
    BY DEF Filling
  <2> HIDE DEF pos1
  <2>4. /\ r2.exec > 0 /\ l.leaves[<<r2.client, r2.oid>>] = r2.exec + r2.leaves
        /\ positions' = [l.position EXCEPT ![r2.client] = @ + r2.exec * SideValue(r2.side)]
        /\ positions'[r2.client] = r2.position
    BY <1>1, <1>5, <1>8, <2>2, <2>3
  <2>5. /\ Book(l, r2).leaves = [l.leaves EXCEPT ![<<r2.client, r2.oid>>] = r2.leaves]
        /\ Book(l, r2).position = positions' /\ Book(l, r2).ok
    <3>1. Continues(l, r2, positions')
      BY <1>5, <1>8, <2>4 DEF Continues
    <3> QED
      BY <3>1, BookFilled
  <2> QED
    BY <1>5, <2>5
<1>10. ledger' = Book(l, r2) \/ (halted' /\ ledger' \in {ledger, l})
  BY <1>6, <1>7
<1>11. l.leaves = half /\ Key(order[m]) = k2
  BY <1>8 DEF Key
<1> QED
  BY <1>3, <1>8, <1>9, <1>10, <1>11

LEMMA MatchLedger == ASSUME EngineInv, QueueTypes, LedgerInv, Match PROVE LedgerInv'
<1>1. PICK m, fill, r1, r2, trade, change :
         Filling(m, fill) /\ FillOutput(m, fill, r1, r2, trade, change)
  BY MatchOutput
<1> DEFINE k1 == <<taker.client, taker.oid>>
           k2 == Key(order[m])
<1>2. PICK half : half = [ledger.leaves EXCEPT ![k1] = taker.leaves - fill]
  OBVIOUS
<1>3. /\ m \in DOMAIN order /\ order[m] \in Orders /\ taker \in Takers /\ taker # NoOrder /\ ~halted
      /\ taker.leaves \in Nat /\ order[m].qty \in Nat
      /\ fill \in Nat \ {0} /\ fill <= taker.leaves /\ fill <= order[m].qty
  BY <1>1, FillSize DEF Filling
<1>4. /\ k1 \in Keys /\ k2 \in Keys /\ k1 \notin DOMAIN index /\ k2 \in DOMAIN index /\ index[k2] = m
      /\ k1 \in used /\ k2 \in used /\ used \subseteq Keys
      /\ \A x \in DOMAIN index : index[x] \in DOMAIN order /\ Key(order[index[x]]) = x
  BY <1>3 DEF EngineInv, TakerInv, BookInv, IndexExact, Takers, Orders, Keys, Key
<1>5. /\ ledger.leaves \in [Keys -> Nat]
      /\ \A x \in Keys : ledger.leaves[x] = IF x \in DOMAIN index THEN order[index[x]].qty
                                            ELSE IF x = k1 THEN taker.leaves ELSE 0
  BY <1>3 DEF LedgerInv, ClientsReconcile, ReceiverTypes
<1>6. /\ ledger'.ok
      /\ \/ /\ ledger'.position = positions'
            /\ ledger'.leaves = [half EXCEPT ![k2] = order[m].qty - fill]
         \/ halted' /\ ledger'.leaves \in {ledger.leaves, half}
  BY <1>1, <1>2, FillLedger
<1>7. ASSUME ~halted', NEW x \in Keys
      PROVE  ledger'.leaves[x] = IF x = k2 THEN order[m].qty - fill
                                 ELSE IF x = k1 THEN taker.leaves - fill ELSE ledger.leaves[x]
  BY <1>2, <1>4, <1>5, <1>6, <1>7
<1>8. Filled(m, fill)
  BY <1>1, FillBook
<1>9. /\ taker' # NoOrder /\ <<taker'.client, taker'.oid>> = k1 /\ taker'.leaves = taker.leaves - fill
      /\ used' = used
  <2>1. taker' = [taker EXCEPT !.leaves = @ - fill] /\ used' = used
    BY <1>1 DEF Filling
  <2>2. taker' \in Takers
    BY <1>3, <2>1 DEF Takers
  <2> QED
    BY <1>3, <2>1, <2>2, NoOrderAssumption DEF Takers
<1>14. ASSUME NEW x \in DOMAIN index
       PROVE  /\ x \in Keys /\ x # k1
              /\ \/ ledger'.leaves[x] = ledger.leaves[x]
                 \/ x = k2 /\ ledger'.leaves[x] = order[m].qty - fill
  <2>1. x \in Keys /\ x # k1
    BY <1>4, <1>14 DEF EngineInv
  <2>2. half[x] = ledger.leaves[x] /\ half \in [Keys -> Int]
    <3>1. taker.leaves - fill \in Int
      BY <1>3
    <3>2. half[x] = ledger.leaves[x] /\ DOMAIN half = Keys
      BY <1>2, <1>5, <2>1
    <3>3. \A y \in Keys : half[y] \in Int
      BY <1>2, <1>5, <3>1
    <3>4. half = [y \in Keys |-> half[y]]
      BY <1>2, <1>5
    <3> QED
      BY <3>2, <3>3, <3>4
  <2> QED
    BY <1>5, <1>6, <2>1, <2>2
<1> HIDE DEF k1, k2
<1>15. ASSUME NEW x \in DOMAIN index' PROVE ledger'.leaves[x] >= order'[index'[x]].qty
  <2>1. x \in DOMAIN index
    BY <1>8, <1>15 DEF Filled
  <2>2. CASE x = k2
    <3>1. index'[x] = m /\ order'[m].qty = order[m].qty - fill
      BY <1>3, <1>4, <1>8, <1>15, <2>2 DEF Filled, k2
    <3>2. ledger'.leaves[x] = order[m].qty \/ ledger'.leaves[x] = order[m].qty - fill
      BY <1>4, <1>5, <1>14, <2>1, <2>2
    <3> QED
      BY <1>3, <3>1, <3>2
  <2>3. CASE x # k2
    <3>1. index'[x] = index[x]
      BY <1>8, <1>15, <2>3 DEF Filled, k2
    <3>2. index[x] \in DOMAIN order /\ index[x] # m
      BY <1>4, <2>1, <2>3 DEF k2
    <3>3. order'[index[x]] = order[index[x]]
      BY <1>8, <3>2 DEF Filled
    <3>4. ledger'.leaves[x] = ledger.leaves[x] /\ ledger.leaves[x] = order[index[x]].qty
          /\ ledger.leaves[x] \in Nat
      BY <1>5, <1>14, <2>1, <2>3
    <3> QED
      BY <3>1, <3>3, <3>4
  <2> QED
    BY <2>2, <2>3
<1>10. ASSUME ~halted', NEW x \in Keys
       PROVE  ledger'.leaves[x] = IF x \in DOMAIN index' THEN order'[index'[x]].qty
                                  ELSE IF x = k1 THEN taker'.leaves ELSE 0
  <2>1. CASE x = k2
    <3>1. order[m].qty = fill => ledger'.leaves[x] = 0 /\ x \notin DOMAIN index' /\ x # k1
      BY <1>3, <1>4, <1>7, <1>8, <1>10, <2>1 DEF Filled, k2
    <3>2. order[m].qty # fill =>
             x \in DOMAIN index' /\ index'[x] = m /\ m \in DOMAIN order' /\ order'[m].qty = order[m].qty - fill
      BY <1>3, <1>4, <1>8, <2>1 DEF Filled
    <3> QED
      BY <1>7, <1>10, <2>1, <3>1, <3>2
  <2>2. CASE x # k2 /\ x \in DOMAIN index
    <3>1. x \in DOMAIN index' /\ index'[x] = index[x]
      BY <1>8, <2>2 DEF Filled, k2
    <3>2. index[x] \in DOMAIN order /\ index[x] # m
      BY <1>4, <2>2 DEF k2
    <3>3. index[x] \in DOMAIN order' /\ order'[index[x]] = order[index[x]]
      BY <1>8, <3>2 DEF Filled
    <3> QED
      BY <1>4, <1>5, <1>7, <1>10, <2>2, <3>1, <3>3
  <2>3. CASE x # k2 /\ x \notin DOMAIN index
    <3>1. x \notin DOMAIN index'
      BY <1>8, <2>3 DEF Filled
    <3> QED
      BY <1>5, <1>7, <1>9, <1>10, <2>3, <3>1
  <2> QED
    BY <2>1, <2>2, <2>3
<1>11. ClientsReconcile'
  BY <1>6, <1>9, <1>10, <1>15 DEF ClientsReconcile
<1>12. Remembered'
  <2>1. last_response' = Remember(Remember(last_response, r1), r2)
    BY <1>1 DEF FillOutput
  <2>2. /\ <<r1.client, r1.oid>> = k1 /\ r1.type = "FILLED" /\ r1.leaves = taker.leaves - fill
        /\ <<r2.client, r2.oid>> = k2 /\ r2.type = "FILLED" /\ r2.leaves = order[m].qty - fill
    BY <1>1 DEF FillOutput, Response, Key, k1, k2
  <2>3. /\ DOMAIN last_response' = DOMAIN last_response \cup {k1, k2}
        /\ \A x \in DOMAIN last_response' :
              last_response'[x] = IF x = k2 THEN [type |-> r2.type, leaves |-> r2.leaves]
                                  ELSE IF x = k1 THEN [type |-> r1.type, leaves |-> r1.leaves]
                                  ELSE last_response[x]
    BY <2>1, <2>2 DEF Remember, Put
  <2>4. /\ DOMAIN last_response = used
        /\ \A x \in used : ledger.leaves[x] =
              IF last_response[x].type = "CANCELED" THEN 0 ELSE last_response[x].leaves
    BY <1>3 DEF LedgerInv, Remembered
  <2>5. DOMAIN last_response' = used
    BY <1>4, <2>3, <2>4
  <2>6. ASSUME ~halted', NEW x \in used
        PROVE  ledger'.leaves[x] = IF last_response'[x].type = "CANCELED" THEN 0
                                   ELSE last_response'[x].leaves
    BY <1>4, <1>7, <2>2, <2>3, <2>4, <2>5, <2>6
  <2> QED
    BY <1>9, <2>5, <2>6 DEF Remembered
<1>13. ReceiverTypes'
  <2>1. taker.leaves - fill \in Nat /\ order[m].qty - fill \in Nat
    BY <1>3
  <2> QED
    BY <1>2, <1>4, <1>5, <1>6, <2>1 DEF ReceiverTypes
<1> QED
  BY <1>11, <1>12, <1>13 DEF LedgerInv

LEMMA RestLedger == ASSUME EngineInv, QueueTypes, LedgerInv, Rest PROVE LedgerInv'
<1> DEFINE k1 == <<taker.client, taker.oid>>
<1>1. /\ ~halted /\ taker # NoOrder /\ taker' = NoOrder
      /\ UNCHANGED <<used, last_response, positions>>
      /\ taker \in Takers /\ taker.leaves \in Nat /\ k1 \notin DOMAIN index
  BY DEF Rest, EngineInv, TakerInv, Takers
<1>2. /\ ledger.ok /\ ledger.position = positions /\ ledger.leaves \in [Keys -> Nat]
      /\ \A x \in Keys : ledger.leaves[x] = IF x \in DOMAIN index THEN order[index[x]].qty
                                            ELSE IF x = k1 THEN taker.leaves ELSE 0
  BY <1>1 DEF LedgerInv, ClientsReconcile, ReceiverTypes
<1>3. ledger' = ledger
  <2>1. CASE taker.leaves > 0
    <3>1. PICK u : Emit(<<>>, <<u>>)
      BY <2>1 DEF Rest
    <3> QED
      BY <3>1, EmitUpdate
  <2>2. CASE ~(taker.leaves > 0)
    BY <2>2 DEF Rest, outputVars
  <2> QED
    BY <2>1, <2>2
<1>4. ASSUME NEW x \in Keys
      PROVE  ledger.leaves[x] = IF x \in DOMAIN index' THEN order'[index'[x]].qty ELSE 0
  <2>1. CASE taker.leaves > 0
    <3>1. PICK o : o = [client |-> taker.client, oid |-> taker.oid, side |-> taker.side,
                        price |-> taker.price, qty |-> taker.leaves,
                        priority |-> NextPriority(taker.side, taker.price)]
      OBVIOUS
    <3>2. Adding(taker.id, o)
      BY <2>1, <3>1, RestAdds
    <3>3. Added(taker.id, o)
      BY <3>2, AddOrderInv DEF EngineInv
    <3>4. Key(o) = k1 /\ o.qty = taker.leaves
      BY <3>1 DEF Key
    <3>5. x \in DOMAIN index => index[x] \in DOMAIN order
      BY DEF EngineInv, BookInv, IndexExact
    <3> QED
      BY <1>1, <1>2, <3>3, <3>4, <3>5 DEF Added
  <2>2. CASE ~(taker.leaves > 0)
    <3>1. UNCHANGED <<order, index>> /\ taker.leaves = 0
      BY <1>1, <2>2 DEF Rest, bookVars
    <3> QED
      BY <1>2, <3>1
  <2> QED
    BY <2>1, <2>2
<1>5. ASSUME NEW x \in DOMAIN index' PROVE ledger'.leaves[x] >= order'[index'[x]].qty
  <2>1. x \in Keys
    BY <1>5, RestEngine DEF EngineInv
  <2>2. ledger'.leaves[x] = order'[index'[x]].qty /\ ledger'.leaves[x] \in Nat
    BY <1>2, <1>3, <1>4, <1>5, <2>1
  <2> QED
    BY <2>2
<1> QED
  BY <1>1, <1>2, <1>3, <1>4, <1>5 DEF LedgerInv, ClientsReconcile, Remembered, ReceiverTypes

LEMMA LedgerStep == ASSUME EngineInv, QueueTypes, LedgerInv, [Next]_vars PROVE LedgerInv'
<1>1. CASE Request
  <2>1. PICK client \in Clients :
           \/ \E r \in NewRequests, side \in Sides : AcceptNew(client, r[1], side, r[2], r[3])
           \/ \E oid \in OrderIds \cup {0}, side \in Sides : RejectNew(client, oid, side)
           \/ \E oid \in OrderIds : Cancel(client, oid)
           \/ \E oid \in OrderIds \cup {0} : Query(client, oid)
    BY <1>1 DEF Request
  <2>2. CASE \E r \in NewRequests, side \in Sides : AcceptNew(client, r[1], side, r[2], r[3])
    <3>1. PICK r \in NewRequests, side \in Sides : AcceptNew(client, r[1], side, r[2], r[3])
      BY <2>2
    <3>2. taker' \in Takers /\ r[1] \in OrderIds /\ r[3] \in Qtys
      BY <3>1, AcceptNewEngine
    <3> QED
      BY <3>1, <3>2, AcceptNewLedger
  <2>3. CASE \E oid \in OrderIds \cup {0}, side \in Sides : RejectNew(client, oid, side)
    BY <2>3, RejectNewLedger
  <2>4. CASE \E oid \in OrderIds : Cancel(client, oid)
    BY <2>4, CancelLedger
  <2>5. CASE \E oid \in OrderIds \cup {0} : Query(client, oid)
    BY <2>5, QueryLedger
  <2> QED
    BY <2>1, <2>2, <2>3, <2>4, <2>5
<1>2. CASE Match
  BY <1>2, MatchLedger
<1>3. CASE Rest
  BY <1>3, RestLedger
<1>4. CASE TakeResponse \/ TakeUpdate \/ UNCHANGED vars
  <2>1. UNCHANGED <<engineVars, halted, ledger>>
    BY <1>4 DEF TakeResponse, TakeUpdate, vars, outputVars
  <2> QED
    BY <2>1 DEF LedgerInv, ClientsReconcile, Remembered, ReceiverTypes, engineVars, bookVars
<1> QED
  BY <1>1, <1>2, <1>3, <1>4 DEF Next

\* Clients that book their responses are never contradicted and know exactly what
\* rests in the book, over every sequence of requests, fills, cancels and queries;
\* where a full queue ends the process in mid-match they know of no less than rests.
THEOREM ClientsAreReconciled == Spec => []ClientsReconcile
<1>1. EngineInv /\ QueueTypes /\ LedgerInv /\ [Next]_vars => LedgerInv'
  BY LedgerStep
<1>2. LedgerInv => ClientsReconcile
  BY DEF LedgerInv
<1> QED
  BY InitLedger, EngineInductive, QueuesInductive, <1>1, <1>2, PTL DEF Spec

\* The updates: the receiver's orders are the book's, less who owns them.
View(o) == [side |-> o.side, price |-> o.price, qty |-> o.qty, priority |-> o.priority]

FeedInv ==
    /\ replica.ok
    /\ ~halted => replica.orders = [m \in DOMAIN order |-> View(order[m])]

LEMMA FeedInvMeaning == FeedInv <=> FeedReplaysBook
BY DEF FeedInv, FeedReplaysBook, View

LEMMA UnchangedFeed ==
    ASSUME FeedInv, order' = order, replica' = replica, ~halted' => ~halted
    PROVE  FeedInv'
BY DEF FeedInv, View

LEMMA SnapshotAdd ==
    ASSUME NEW snap, NEW u, u.type = "ADD", snap.ok, u.id \in MarketIds, u.id \notin DOMAIN snap.orders
    PROVE  /\ AddToSnapshot(snap, u).ok
           /\ AddToSnapshot(snap, u).orders =
                 Put(snap.orders, u.id, [side |-> u.side, price |-> u.price, qty |-> u.qty,
                                         priority |-> u.priority])
BY DEF AddToSnapshot

LEMMA SnapshotCancel ==
    ASSUME NEW snap, NEW u, u.type = "CANCEL", snap.ok, u.id \in DOMAIN snap.orders,
           snap.orders[u.id].side = u.side
    PROVE  AddToSnapshot(snap, u).ok /\ AddToSnapshot(snap, u).orders = Drop(snap.orders, u.id)
BY DEF AddToSnapshot

LEMMA SnapshotModify ==
    ASSUME NEW snap, NEW u, u.type = "MODIFY", snap.ok, u.id \in DOMAIN snap.orders,
           snap.orders[u.id].side = u.side
    PROVE  /\ AddToSnapshot(snap, u).ok
           /\ AddToSnapshot(snap, u).orders =
                 [snap.orders EXCEPT ![u.id].qty = u.qty, ![u.id].price = u.price]
BY DEF AddToSnapshot

LEMMA SnapshotTrade ==
    ASSUME NEW snap, NEW u, u.type = "TRADE" PROVE AddToSnapshot(snap, u) = snap
BY DEF AddToSnapshot

\* A stream that ends before an update leaves the receiver as it was.
LEMMA CutFeed ==
    ASSUME FeedInv, halted', replica' = replica PROVE FeedInv'
BY DEF FeedInv

LEMMA CancelFeed ==
    ASSUME EngineInv, QueueTypes, FeedInv, NEW client \in Clients, NEW oid \in OrderIds, Cancel(client, oid)
    PROVE  FeedInv'
<1> DEFINE k == <<client, oid>>
<1>1. CASE k \in DOMAIN index
  <2>1. PICK m : m = index[k]
    OBVIOUS
  <2>2. m \in DOMAIN order
    BY <1>1, <2>1 DEF EngineInv, BookInv, IndexExact
  <2>3. PICK r : r = Plain("CANCELED", client, oid, order[m].side, order[m].qty)
    OBVIOUS
  <2>4. PICK u : u = Update("CANCEL", m, order[m].side, order[m].price, 0, order[m].priority)
    OBVIOUS
  <2>5. RemoveOrder(m) /\ EmitUpdateFirst(r, u) /\ u.type = "CANCEL" /\ u.id = m /\ u.side = order[m].side
    BY <1>1, <2>1, <2>3, <2>4 DEF Cancel, Update
  <2>6. order' = Drop(order, m)
    BY <2>5 DEF RemoveOrder
  <2>7. SUFFICES ASSUME replica' = AddToSnapshot(replica, u)
                 PROVE  replica'.ok /\ replica'.orders = [n \in DOMAIN order' |-> View(order'[n])]
    BY <2>5, EmitCancel, CutFeed DEF FeedInv, View
  <2>8. ~halted /\ replica' = AddToSnapshot(replica, u)
    BY <2>7 DEF Cancel, Ready
  <2>9. replica.ok /\ replica.orders = [n \in DOMAIN order |-> View(order[n])]
    BY <2>8 DEF FeedInv
  <2>10. u.id \in DOMAIN replica.orders /\ replica.orders[u.id].side = u.side
    BY <2>2, <2>5, <2>9 DEF View
  <2>11. replica'.ok /\ replica'.orders = Drop(replica.orders, m)
    BY <2>5, <2>8, <2>9, <2>10, SnapshotCancel
  <2> QED
    BY <2>6, <2>9, <2>11 DEF Drop
<1>2. CASE k \notin DOMAIN index
  <2>1. order' = order /\ ~halted /\ \E r : Emit(<<r>>, <<>>)
    BY <1>2 DEF Cancel, Ready, bookVars
  <2> QED
    BY <2>1, EmitResponse, UnchangedFeed
<1> QED
  BY <1>1, <1>2

LEMMA MatchFeed == ASSUME EngineInv, QueueTypes, FeedInv, Match PROVE FeedInv'
<1>1. PICK m, fill, r1, r2, trade, change :
         Filling(m, fill) /\ FillOutput(m, fill, r1, r2, trade, change)
  BY MatchOutput
<1>2. AddToSnapshot(replica, trade) = replica
  <2>1. trade.type = "TRADE"
    BY <1>1 DEF FillOutput, Update
  <2> QED
    BY <2>1, SnapshotTrade
<1>5. SUFFICES ASSUME replica' = AddToSnapshot(replica, change)
               PROVE  replica'.ok /\ replica'.orders = [n \in DOMAIN order' |-> View(order'[n])]
  <2>1. replica' = AddToSnapshot(replica, change) \/ (halted' /\ replica' = replica)
    BY <1>1, <1>2, EmitFill DEF FillOutput
  <2> QED
    BY <2>1, CutFeed DEF FeedInv, View
<1>3. m \in DOMAIN order /\ order[m] \in Orders /\ order \in [DOMAIN order -> Orders]
  BY <1>1, FillSize DEF EngineInv, BookInv, BookTypes
<1>4. ~halted
  BY DEF Match
<1>6. replica.ok /\ replica.orders = [n \in DOMAIN order |-> View(order[n])]
  BY <1>4 DEF FeedInv
<1>7. m \in DOMAIN replica.orders /\ replica.orders[m].side = order[m].side
  BY <1>3, <1>6 DEF View
<1>8. CASE order[m].qty = fill
  <2>1. change.type = "CANCEL" /\ change.id = m /\ change.side = order[m].side
    BY <1>1, <1>8 DEF FillOutput, Change, Update
  <2>2. replica'.ok /\ replica'.orders = Drop(replica.orders, m)
    BY <1>5, <1>6, <1>7, <2>1, SnapshotCancel
  <2>3. order' = Drop(order, m)
    BY <1>1, <1>8 DEF Filling, RemoveOrder
  <2> QED
    BY <1>6, <2>2, <2>3 DEF Drop
<1>9. CASE order[m].qty # fill
  <2>1. /\ change.type = "MODIFY" /\ change.id = m /\ change.side = order[m].side
        /\ change.qty = order[m].qty - fill /\ change.price = order[m].price
    BY <1>1, <1>9 DEF FillOutput, Change, Update
  <2>2. /\ replica'.ok
        /\ replica'.orders =
              [replica.orders EXCEPT ![change.id].qty = change.qty, ![change.id].price = change.price]
    <3>2. change.id \in DOMAIN replica.orders /\ replica.orders[change.id].side = change.side
      BY <1>7, <2>1
    <3> QED
      BY <1>5, <1>6, <2>1, <3>2, SnapshotModify
  <2>3. order' = [order EXCEPT ![m].qty = @ - fill]
    BY <1>1, <1>9 DEF Filling
  <2>4. /\ DOMAIN order' = DOMAIN order
        /\ \A n \in DOMAIN order : n # m => order'[n] = order[n]
        /\ order'[m] = [order[m] EXCEPT !.qty = order[m].qty - fill]
    BY <1>3, <2>3
  <2>5. View(order'[m]) = [side |-> order[m].side, price |-> order[m].price,
                           qty |-> order[m].qty - fill, priority |-> order[m].priority]
    BY <1>3, <2>4 DEF View, Orders
  <2>6. /\ DOMAIN replica'.orders = DOMAIN order
        /\ \A n \in DOMAIN order : n # m => replica'.orders[n] = View(order[n])
    BY <1>3, <1>6, <2>1, <2>2
  <2>7. replica'.orders[m] = View(order'[m])
    <3>1. replica.orders[m] = View(order[m])
      BY <1>3, <1>6
    <3>2. replica'.orders[m] = [replica.orders[m] EXCEPT !.qty = change.qty, !.price = change.price]
      BY <1>7, <2>1, <2>2
    <3>3. View(order[m]) = [side |-> order[m].side, price |-> order[m].price,
                            qty |-> order[m].qty, priority |-> order[m].priority]
      BY DEF View
    <3>4. PICK s, pr, q, old, y : /\ s = order[m].side /\ pr = order[m].price /\ old = order[m].qty
                                  /\ q = order[m].qty - fill /\ y = order[m].priority
      OBVIOUS
    <3>5. replica'.orders[m] =
             [[side |-> s, price |-> pr, qty |-> old, priority |-> y] EXCEPT !.qty = q, !.price = pr]
      BY <2>1, <3>1, <3>2, <3>3, <3>4
    <3>6. replica'.orders[m] = [side |-> s, price |-> pr, qty |-> q, priority |-> y]
      BY <3>5
    <3> QED
      BY <2>5, <3>4, <3>6
  <2>8. replica'.orders = [n \in DOMAIN order' |-> View(order'[n])]
    <3>1. \A n \in DOMAIN order' : replica'.orders[n] = View(order'[n])
      BY <2>4, <2>6, <2>7
    <3>2. replica'.orders = [n \in DOMAIN order' |-> replica'.orders[n]]
      BY <2>2, <2>4, <2>6
    <3> QED
      BY <3>1, <3>2
  <2> QED
    BY <2>2, <2>8
<1> QED
  BY <1>8, <1>9

LEMMA RestFeed == ASSUME EngineInv, QueueTypes, FeedInv, Rest PROVE FeedInv'
<1>1. CASE taker.leaves > 0
  <2>1. PICK o : o = [client |-> taker.client, oid |-> taker.oid, side |-> taker.side,
                      price |-> taker.price, qty |-> taker.leaves,
                      priority |-> NextPriority(taker.side, taker.price)]
    OBVIOUS
  <2>2. Adding(taker.id, o)
    BY <1>1, <2>1, RestAdds
  <2>3. PICK u : u = Update("ADD", taker.id, o.side, o.price, o.qty, o.priority)
    OBVIOUS
  <2>4. Emit(<<>>, <<u>>)
    BY <1>1, <2>1, <2>3 DEF Rest
  <2>5. /\ u.type = "ADD" /\ u.id = taker.id /\ u.side = o.side /\ u.price = o.price
        /\ u.qty = o.qty /\ u.priority = o.priority
    BY <2>3 DEF Update
  <2>6. /\ taker.id \in MarketIds /\ taker.id \notin DOMAIN order
        /\ order' = Put(order, taker.id, o)
    BY <2>2, MarketIdInt DEF Adding, AddOrder
  <2>7. SUFFICES ASSUME replica' = AddToSnapshot(replica, u)
                 PROVE  replica'.ok /\ replica'.orders = [n \in DOMAIN order' |-> View(order'[n])]
    BY <2>4, EmitUpdate, CutFeed DEF FeedInv, View
  <2>8. ~halted /\ replica' = AddToSnapshot(replica, u)
    BY <2>7 DEF Rest
  <2>9. replica.ok /\ replica.orders = [n \in DOMAIN order |-> View(order[n])]
    BY <2>8 DEF FeedInv
  <2>10. replica'.ok /\ replica'.orders = Put(replica.orders, taker.id, View(o))
    <3>1. u.id \in MarketIds /\ u.id \notin DOMAIN replica.orders
      BY <2>5, <2>6, <2>9
    <3>2. View(o) = [side |-> u.side, price |-> u.price, qty |-> u.qty, priority |-> u.priority]
      BY <2>5 DEF View
    <3> QED
      BY <2>5, <2>8, <2>9, <3>1, <3>2, SnapshotAdd
  <2> QED
    BY <2>6, <2>9, <2>10 DEF Put
<1>2. CASE ~(taker.leaves > 0)
  BY <1>2, UnchangedFeed DEF Rest, bookVars, outputVars
<1> QED
  BY <1>1, <1>2

LEMMA FeedStep == ASSUME EngineInv, QueueTypes, FeedInv, [Next]_vars PROVE FeedInv'
<1>1. CASE Request
  <2>1. PICK client \in Clients :
           \/ \E r \in NewRequests, side \in Sides : AcceptNew(client, r[1], side, r[2], r[3])
           \/ \E oid \in OrderIds \cup {0}, side \in Sides : RejectNew(client, oid, side)
           \/ \E oid \in OrderIds : Cancel(client, oid)
           \/ \E oid \in OrderIds \cup {0} : Query(client, oid)
    BY <1>1 DEF Request
  <2>2. CASE \E oid \in OrderIds : Cancel(client, oid)
    BY <2>2, CancelFeed
  <2>3. CASE ~\E oid \in OrderIds : Cancel(client, oid)
    <3>1. order' = order /\ ~halted /\ \E r : Emit(<<r>>, <<>>)
      BY <2>1, <2>3 DEF AcceptNew, RejectNew, Query, Ready, engineVars, bookVars
    <3> QED
      BY <3>1, EmitResponse, UnchangedFeed
  <2> QED
    BY <2>2, <2>3
<1>2. CASE Match
  BY <1>2, MatchFeed
<1>3. CASE Rest
  BY <1>3, RestFeed
<1>4. CASE TakeResponse \/ TakeUpdate \/ UNCHANGED vars
  <2>1. UNCHANGED <<order, halted, replica>>
    BY <1>4 DEF TakeResponse, TakeUpdate, vars, outputVars, engineVars, bookVars
  <2> QED
    BY <2>1, UnchangedFeed
<1> QED
  BY <1>1, <1>2, <1>3, <1>4 DEF Next

\* Whoever applies the update stream holds the book: SnapshotSynthesizer meets none
\* of its assertions, even where a full queue cuts the stream short in mid-match, and
\* its orders are the live orders as long as the process runs.
THEOREM FeedIsTheBook == Spec => []FeedReplaysBook
<1>1. Init => FeedInv
  BY DEF Init, FeedInv, View
<1>2. EngineInv /\ QueueTypes /\ FeedInv /\ [Next]_vars => FeedInv'
  BY FeedStep
<1> QED
  BY <1>1, EngineInductive, QueuesInductive, <1>2, FeedInvMeaning, PTL DEF Spec
===============================================================================
