------------------------------- MODULE LocalBook -------------------------------
(***************************************************************************)
(* trading/strategy/market_order_book: the trading engine's copy of the    *)
(* book of one ticker, at the level of its pointers.  Orders and price     *)
(* levels are blocks of two MemPools; a level is a node of the circular    *)
(* list of its side's prices, starting at the best, and an order is a node *)
(* of the circular FIFO of its level.  A pointer is the index of a block.  *)
(*                                                                         *)
(* A released block holds no object (destroy_at), so that following a      *)
(* stale pointer finds nothing.  Handling an update is one step: the book  *)
(* is private to the trading engine's thread.                              *)
(***************************************************************************)
EXTENDS MemPool, FiniteSets

CONSTANTS MaxOrderIds,     \* ME_MAX_ORDER_IDS: ids are 1 .. MaxOrderIds - 1
          LevelCapacities, \* values of ME_MAX_PRICE_LEVELS: one pool for both sides
          Prices, Qtys,    \* valid prices and quantities
          NoPrice, NoQty,  \* Price_INVALID, BookQty_INVALID
          Null             \* nullptr

ASSUME LocalBookAssumption ==
    /\ MaxOrderIds \in Nat \ {0} /\ LevelCapacities \subseteq Nat \ {0}
    /\ Prices \subseteq Nat \ {0} /\ Qtys \subseteq Nat \ {0}
    /\ NoPrice \notin Prices /\ Null \notin Nat

VARIABLES orders, levels,        \* the objects in the blocks of the two pools
          orderPool, levelPool,  \* order_pool_, orders_at_price_pool_
          oidToOrder,            \* oid_to_order_
          liveIds,               \* live_order_ids_
          levelAt,               \* price_orders_at_price_
          best,                  \* bids_by_price_ and asks_by_price_
          bbo,
          aborted,               \* an ASSERT of a pool has failed
          queue                  \* history: the book the same updates make of PriceTimeBook

linkVars == <<oidToOrder, liveIds, levelAt, best>>
vars == <<orders, levels, orderPool, levelPool, linkVars, bbo, aborted, queue>>

Sides == {"BUY", "SELL"}
Ids == 1 .. MaxOrderIds - 1
Keys == Sides \X Prices

Abstract == INSTANCE PriceTimeBook

NoOrder == [id |-> 0, side |-> "BUY", price |-> NoPrice, qty |-> 0, prev |-> Null, next |-> Null]
NoLevel == [side |-> "BUY", price |-> NoPrice, first |-> Null, prev |-> Null, next |-> Null]

\* better(): bids descend, asks ascend.
Better(side, p, q) == IF side = "BUY" THEN p > q ELSE p < q

\* The nodes of a circular list from start on, at most bound of them.
Ring(start, next, bound) ==
    LET node[k \in 0 .. bound] ==
            IF k = 0 THEN start
            ELSE LET n == node[k - 1] IN IF n = Null THEN Null ELSE next[n]
        closing == {k \in 1 .. bound : node[k] \in {start, Null}}
        length == IF closing = {} THEN bound
                  ELSE CHOOSE k \in closing : \A j \in closing : k <= j
    IN  IF start = Null THEN <<>> ELSE [i \in 1 .. length |-> node[i - 1]]

\* The orders of a level, and the levels of a side.
Fifo(os, level) ==
    Ring(level.first, [o \in DOMAIN os |-> os[o].next], MaxOrderIds)
PriceRing(ls, start) ==
    Ring(start, [l \in DOMAIN ls |-> ls[l].next], Cardinality(DOMAIN ls))
-------------------------------------------------------------------------------
(* The helpers of MarketOrderBook, on the objects os and ls.                 *)

StopAtBest(side, price) == best[side]

\* The walk of addOrdersAtPrice: a new best or a new worst level is linked before
\* the best one, any other before the first that is not better.
Target(side, price) ==
    LET prices == PriceRing(levels, best[side])
        worse(i) == ~Better(side, levels[prices[i]].price, price)
        later == {i \in 2 .. Len(prices) : worse(i)}
        worst == levels[levels[best[side]].prev].price
    IN  IF Better(side, price, levels[best[side]].price) \/ ~Better(side, price, worst)
           \/ later = {}
        THEN best[side]
        ELSE prices[CHOOSE i \in later : \A j \in later : i <= j]

\* addOrdersAtPrice: level l is linked before its target.
AddOrdersAtPrice(l, side, price, first) ==
    LET node == [side |-> side, price |-> price, first |-> first, prev |-> l, next |-> l]
        target == Target(side, price)
        before == levels[target].prev
    IN  /\ levelAt' = [levelAt EXCEPT ![<<side, price>>] = l]
        /\ \/ /\ best[side] = Null
              /\ levels' = [levels EXCEPT ![l] = node]
              /\ best' = [best EXCEPT ![side] = l]
           \/ /\ best[side] # Null
              /\ levels' = [levels EXCEPT ![l] = [node EXCEPT !.prev = before, !.next = target],
                                          ![before].next = l, ![target].prev = l]
              /\ best' = [best EXCEPT ![side] =
                             IF Better(side, price, levels[@].price) THEN l ELSE @]

\* addOrder: last in the FIFO of its level, in a new level if there is none.
AddOrder(o, id, side, price, qty) ==
    LET l == levelAt[<<side, price>>]
        new == [id |-> id, side |-> side, price |-> price, qty |-> qty]
        node(prev, next) == new @@ [prev |-> prev, next |-> next]
        first == levels[l].first
        last == orders[first].prev
    IN  /\ \/ /\ l = Null
              /\ orders' = [orders EXCEPT ![o] = node(o, o)]
              /\ levelPool' = Allocate(levelPool)
              /\ AddOrdersAtPrice(NextBlock(levelPool), side, price, o)
           \/ /\ l # Null
              /\ orders' = [orders EXCEPT ![last].next = o, ![o] = node(last, first),
                                          ![first].prev = o]
              /\ UNCHANGED <<levels, levelPool, levelAt, best>>
        /\ oidToOrder' = [oidToOrder EXCEPT ![id] = o]
        /\ liveIds' = liveIds \cup {id}

\* removeOrdersAtPrice: unlinked, unless it is the only level of its side; the
\* next one becomes the best if it was that.
RemoveOrdersAtPrice(l) ==
    LET level == levels[l]
    IN  /\ \/ /\ level.next = l
              /\ best' = [best EXCEPT ![level.side] = Null]
              /\ levels' = [levels EXCEPT ![l] = NoLevel]
           \/ /\ level.next # l
              /\ levels' = [levels EXCEPT ![level.prev].next = level.next,
                                          ![level.next].prev = level.prev, ![l] = NoLevel]
              /\ best' = [best EXCEPT ![level.side] = IF @ = l THEN level.next ELSE @]
        /\ levelAt' = [levelAt EXCEPT ![<<level.side, level.price>>] = Null]
        /\ levelPool' = Deallocate(levelPool, l)

\* removeOrder: with its level if it is alone there; the level may have to start
\* at the next order.
RemoveOrder(o) ==
    LET order == orders[o]
        l == levelAt[<<order.side, order.price>>]
    IN  /\ \/ /\ order.prev = o
              /\ RemoveOrdersAtPrice(l)
              /\ orders' = [orders EXCEPT ![o] = NoOrder]
           \/ /\ order.prev # o
              /\ orders' = [orders EXCEPT ![order.prev].next = order.next,
                                          ![order.next].prev = order.prev, ![o] = NoOrder]
              /\ levels' = [levels EXCEPT ![l].first = IF @ = o THEN order.next ELSE @]
              /\ UNCHANGED <<levelPool, levelAt, best>>
        /\ oidToOrder' = [oidToOrder EXCEPT ![order.id] = Null]
        /\ liveIds' = liveIds \ {order.id}
        /\ orderPool' = Deallocate(orderPool, o)

\* The quantities of a FIFO, summed along it.
Total(os, fifo) ==
    LET sum[i \in 0 .. Len(fifo)] == IF i = 0 THEN 0 ELSE sum[i - 1] + os[fifo[i]].qty
    IN  sum[Len(fifo)]

\* updateBBO: the price of the best level and the total of its FIFO.
BBO(os, ls, bests) ==
    [price |-> [s \in Sides |-> IF bests[s] = Null THEN NoPrice ELSE ls[bests[s]].price],
     qty |-> [s \in Sides |->
                 IF bests[s] = Null THEN NoQty ELSE Total(os, Fifo(os, ls[bests[s]]))]]
-------------------------------------------------------------------------------
(* onMarketUpdate, by the type of the update.  One that fails the checks, and *)
(* a TRADE, change nothing here: no action.  (MarketData models what the      *)
(* trading engine makes of a refusal.)                                        *)

\* An ADD that passes the checks.
OnAdd(id, side, price, qty) ==
    /\ ~aborted
    /\ id \in Ids /\ oidToOrder[id] = Null /\ Available(orderPool) > 0
    /\ side \in Sides /\ price \in Prices /\ qty \in Qtys
    /\ levelAt[<<side, price>>] # Null \/ Available(levelPool) > 0
    /\ orderPool' = Allocate(orderPool)
    /\ AddOrder(NextBlock(orderPool), id, side, price, qty)
    /\ bbo' = BBO(orders', levels', best')
    /\ Abstract!Add(<<side, price>>, id, qty)
    /\ UNCHANGED aborted

\* A MODIFY or CANCEL must name the side and price of the order it is about.
Known(id, side, price) ==
    /\ id \in Ids /\ oidToOrder[id] # Null
    /\ orders[oidToOrder[id]].side = side /\ orders[oidToOrder[id]].price = price

ModifyWithoutBBO(id, side, price, qty) ==
    /\ ~aborted
    /\ Known(id, side, price) /\ qty \in Qtys
    /\ orders' = [orders EXCEPT ![oidToOrder[id]].qty = qty]
    /\ Abstract!Modify(id, qty)
    /\ UNCHANGED <<levels, orderPool, levelPool, linkVars, bbo, aborted>>

OnModify(id, side, price, qty) ==
    /\ ~aborted
    /\ Known(id, side, price) /\ qty \in Qtys
    /\ orders' = [orders EXCEPT ![oidToOrder[id]].qty = qty]
    /\ bbo' = BBO(orders', levels, best)
    /\ Abstract!Modify(id, qty)
    /\ UNCHANGED <<levels, orderPool, levelPool, linkVars, aborted>>

\* The pools assert that what the order and its level are released to is theirs.
Releasable(o) ==
    LET l == levelAt[<<orders[o].side, orders[o].price>>]
    IN  MayDeallocate(orderPool, o) /\ (orders[o].prev = o => MayDeallocate(levelPool, l))

OnCancel(id, side, price) ==
    /\ ~aborted
    /\ Known(id, side, price)
    /\ LET o == oidToOrder[id]
       IN  \/ /\ Releasable(o)
              /\ RemoveOrder(o)
              /\ Abstract!Cancel(id)
              /\ bbo' = BBO(orders', levels', best')
              /\ UNCHANGED aborted
           \/ /\ ~Releasable(o)
              /\ aborted' = TRUE
              /\ UNCHANGED <<orders, levels, orderPool, levelPool, linkVars, bbo, queue>>

\* CLEAR releases the orders by id and the levels by side and price.
OnClear ==
    LET used == SetToSortSeq({id \in Ids : oidToOrder[id] # Null}, <)
        before(j, k) == (j[1] = "SELL" /\ k[1] = "BUY") \/ (j[1] = k[1] /\ j[2] < k[2])
        keys == SetToSortSeq({k \in Keys : levelAt[k] # Null}, before)
        os == [i \in DOMAIN used |-> oidToOrder[used[i]]]
        ls == [i \in DOMAIN keys |-> levelAt[keys[i]]]
        once(pool, blocks) == /\ \A i \in DOMAIN blocks : MayDeallocate(pool, blocks[i])
                              /\ IsInjective(blocks)
        ok == once(orderPool, os) /\ once(levelPool, ls)
    IN  /\ ~aborted
        /\ \/ /\ ok
              /\ orderPool' = DeallocateAll(orderPool, os)
              /\ levelPool' = DeallocateAll(levelPool, ls)
              /\ oidToOrder' = [id \in Ids |-> Null] /\ liveIds' = {}
              /\ levelAt' = [k \in Keys |-> Null] /\ best' = [s \in Sides |-> Null]
              /\ orders' = [o \in DOMAIN orders |-> IF o \in ToSet(os) THEN NoOrder ELSE orders[o]]
              /\ levels' = [l \in DOMAIN levels |-> IF l \in ToSet(ls) THEN NoLevel ELSE levels[l]]
              /\ bbo' = BBO(orders', levels', best')
              /\ Abstract!Clear
              /\ UNCHANGED aborted
           \/ /\ ~ok
              /\ aborted' = TRUE
              /\ UNCHANGED <<orders, levels, orderPool, levelPool, linkVars, bbo, queue>>

\* Markers only refresh the quote.
OnMarker ==
    /\ ~aborted
    /\ bbo' = BBO(orders, levels, best)
    /\ UNCHANGED <<orders, levels, orderPool, levelPool, linkVars, aborted, queue>>
-------------------------------------------------------------------------------
Init ==
    /\ orders = [o \in 0 .. MaxOrderIds - 1 |-> NoOrder]
    /\ orderPool = NewPool(MaxOrderIds)
    /\ levelPool \in {NewPool(n) : n \in LevelCapacities}
    /\ levels = [l \in DOMAIN levelPool.used |-> NoLevel]
    /\ oidToOrder = [id \in Ids |-> Null] /\ liveIds = {}
    /\ levelAt = [k \in Keys |-> Null] /\ best = [s \in Sides |-> Null]
    /\ bbo = BBO(orders, levels, best)
    /\ aborted = FALSE
    /\ Abstract!Init

Next ==
    \/ \E id \in Ids, side \in Sides, price \in Prices :
          \/ \E qty \in Qtys : OnAdd(id, side, price, qty) \/ OnModify(id, side, price, qty)
          \/ OnCancel(id, side, price)
    \/ OnClear \/ OnMarker

Spec == Init /\ [][Next]_vars
-------------------------------------------------------------------------------
\* liveOrders()
LiveOrders == {LET o == orders[oidToOrder[id]]
               IN  [id |-> o.id, place |-> <<o.side, o.price>>, qty |-> o.qty] : id \in liveIds}

\* What toString(.., validity_check) tests when the book is destroyed: along the
\* ring of a side every price is worse than the one before it.
ValidityCheck(side) ==
    LET prices == PriceRing(levels, best[side])
    IN  \A i \in 1 .. Len(prices) - 1 :
            Better(side, levels[prices[i]].price, levels[prices[i + 1]].price)

\* The two rings are circular in both directions.
RingsLinked ==
    /\ \A s \in Sides : LET ring == PriceRing(levels, best[s])
                            n == Len(ring)
                        IN  \A i \in 1 .. n : /\ levels[ring[i]].next = ring[(i % n) + 1]
                                              /\ levels[ring[(i % n) + 1]].prev = ring[i]
    /\ \A k \in Keys : levelAt[k] # Null =>
          LET ring == Fifo(orders, levels[levelAt[k]])
              n == Len(ring)
          IN  \A i \in 1 .. n : /\ orders[ring[i]].next = ring[(i % n) + 1]
                                /\ orders[ring[(i % n) + 1]].prev = ring[i]

(***************************************************************************)
(* Every structure of the book describes the same orders: no ASSERT of a   *)
(* pool fails; a block is in use exactly when the id index, or the price   *)
(* index, reaches it; the rings hold exactly those blocks, linked both     *)
(* ways and sorted from the best price, each order in the level of its     *)
(* side and price; live_order_ids_ is the set of indexed ids.              *)
(***************************************************************************)
BookSound ==
    /\ ~aborted
    /\ PoolSound(orderPool) /\ PoolSound(levelPool)
    /\ liveIds = {id \in Ids : oidToOrder[id] # Null}
    /\ \A id \in liveIds : orders[oidToOrder[id]].id = id
    /\ {oidToOrder[id] : id \in liveIds} = {o \in DOMAIN orderPool.used : orderPool.used[o]}
    /\ {levelAt[k] : k \in Keys} \ {Null} = {l \in DOMAIN levelPool.used : levelPool.used[l]}
    /\ RingsLinked
    /\ \A s \in Sides :
          /\ ValidityCheck(s)
          /\ ToSet(PriceRing(levels, best[s])) = {levelAt[<<s, p>>] : p \in Prices} \ {Null}
    /\ \A k \in Keys : levelAt[k] # Null =>
          ToSet(Fifo(orders, levels[levelAt[k]])) =
             {o \in DOMAIN orderPool.used : orderPool.used[o] /\ <<orders[o].side, orders[o].price>> = k}

\* The book that the pointers stand for.
Queue == [k \in Keys |->
            IF levelAt[k] = Null THEN <<>>
            ELSE LET ring == Fifo(orders, levels[levelAt[k]])
                 IN  [i \in DOMAIN ring |-> [id |-> orders[ring[i]].id, qty |-> orders[ring[i]].qty]]]

\* The pointers implement PriceTimeBook: they always stand for the book that the
\* same updates produce there, order of arrival included; liveOrders() lists
\* exactly its orders, and the quote is never behind: after each update the
\* strategies see the true best prices.
BookImplements ==
    /\ Queue = queue
    /\ bbo = Abstract!Quote(queue)
    /\ LiveOrders = UNION {{[id |-> queue[k][i].id, place |-> k, qty |-> queue[k][i].qty] :
                              i \in DOMAIN queue[k]} : k \in Keys}
================================================================================
