---------------------------- MODULE MatchingEngine ----------------------------
(***************************************************************************)
(* exchange/matcher: the matching thread with the order book of one ticker *)
(* (books of different tickers share no state but the two output queues).  *)
(*                                                                         *)
(* processClientRequest runs to completion on the matching thread, but its *)
(* responses and market updates are visible to the other threads as soon   *)
(* as they are pushed; so one iteration of the match loop is one step, and *)
(* the threads that drain the two queues interleave with it.               *)
(*                                                                         *)
(* A price ring is the sequence of its prices starting at the best one, a  *)
(* FIFO ring of orders the sequence of their market ids starting at        *)
(* first_me_order_.  A full output queue ends the process (ASSERT).        *)
(***************************************************************************)
EXTENDS Integers, Sequences, FiniteSets, SequencesExt

CONSTANTS Clients,         \* client ids below ME_MAX_NUM_CLIENTS
          OrderIds,        \* client order ids in 1 .. ME_MAX_ORDER_IDS - 1
          Prices,          \* valid prices, positive
          Qtys,            \* valid quantities, positive
          MaxOrderIds,     \* ME_MAX_ORDER_IDS: market ids are 1 .. MaxOrderIds - 1
          MaxPriceLevels,  \* ME_MAX_PRICE_LEVELS: the pool both sides share
          QueueCapacity,   \* capacity of the two output queues
          NoOrder          \* no request being matched

ASSUME BookAssumption ==
    /\ Prices \subseteq Nat \ {0} /\ Qtys \subseteq Nat \ {0} /\ OrderIds \subseteq Nat \ {0}
    /\ MaxOrderIds \in Nat \ {0} /\ MaxPriceLevels \in Nat /\ QueueCapacity \in Nat

VARIABLES ring,          \* bids_by_price_ / asks_by_price_ : prices, best first
          level,         \* price_orders_at_price_ : market ids at a price, oldest first
          order,         \* the live MEOrder objects, by market id
          index,         \* cid_oid_to_order_ : market id, by client and client order id
          used,          \* used_client_order_ids_
          next_market_order_id,
          last_response, \* last_order_response_
          positions,     \* client_positions_
          taker,         \* the order add() is matching, or NoOrder
          responses,     \* number of messages in outgoing_ogw_responses_
          updates,       \* number of messages in outgoing_md_updates_
          halted,        \* the process ended on a failed ASSERT
          replica,       \* what a SnapshotSynthesizer makes of the updates sent
          ledger         \* what the clients make of the responses sent

bookVars == <<ring, level, order, index>>
engineVars == <<bookVars, used, next_market_order_id, last_response, positions, taker>>
outputVars == <<responses, updates, halted, replica, ledger>>
vars == <<engineVars, outputVars>>
-------------------------------------------------------------------------------
Sides == {"BUY", "SELL"}
Opposite(side) == IF side = "BUY" THEN "SELL" ELSE "BUY"
SideValue(side) == IF side = "BUY" THEN 1 ELSE -1
Lesser(a, b) == IF a < b THEN a ELSE b
MarketIds == 1 .. MaxOrderIds - 1
Keys == Clients \X OrderIds
Takers == [client : Clients, oid : OrderIds, id : MarketIds,
           side : Sides, price : Prices, leaves : Nat]

ASSUME NoOrderAssumption == NoOrder \notin Takers

\* The functions f with one more, and one less, element in the domain.
Put(f, k, v) == [x \in DOMAIN f \cup {k} |-> IF x = k THEN v ELSE f[x]]
Drop(f, k) == [x \in DOMAIN f \ {k} |-> f[x]]
-------------------------------------------------------------------------------
(* The book: MEOrderBook's helpers, on the rings as sequences.               *)

\* better(): bids descend, asks ascend.
Better(side, p, q) == IF side = "BUY" THEN p > q ELSE p < q

\* addOrdersAtPrice: a new best goes first, a new worst last without a walk,
\* anything else before the first level that is not better than it.
AddOrdersAtPrice(side, prices, p) ==
    IF prices = <<>> \/ Better(side, p, Head(prices)) THEN <<p>> \o prices
    ELSE IF ~Better(side, p, Last(prices)) THEN Append(prices, p)
    ELSE InsertAt(prices,
                  CHOOSE k \in 2 .. Len(prices) :
                     /\ ~Better(side, prices[k], p)
                     /\ \A j \in 2 .. k - 1 : Better(side, prices[j], p),
                  p)

\* An element leaves its ring: its neighbours are linked to each other.
Unlink(s, x) == RemoveAt(s, CHOOSE i \in 1 .. Len(s) : s[i] = x)

\* removeOrdersAtPrice
RemoveOrdersAtPrice(prices, p) == Unlink(prices, p)

\* Number of MEOrdersAtPrice objects taken from orders_at_price_pool_.
LevelsInUse == Len(ring["BUY"]) + Len(ring["SELL"])

\* getNextPriority
NextPriority(side, price) ==
    IF level[side][price] = <<>> THEN 1 ELSE order[Last(level[side][price])].priority + 1

\* removeOrder: out of its FIFO, with the level if it was the last one there,
\* out of the index, back to the pool.
RemoveOrder(m) ==
    LET o == order[m]
        rest == Unlink(level[o.side][o.price], m)
    IN  /\ level' = [level EXCEPT ![o.side][o.price] = rest]
        /\ ring' = IF rest = <<>>
                   THEN [ring EXCEPT ![o.side] = RemoveOrdersAtPrice(@, o.price)]
                   ELSE ring
        /\ order' = Drop(order, m)
        /\ index' = Drop(index, <<o.client, o.oid>>)

AddOrderFirst(m, o) ==
    /\ ring' = IF level[o.side][o.price] = <<>>
               THEN [ring EXCEPT ![o.side] = AddOrdersAtPrice(o.side, @, o.price)]
               ELSE ring
    /\ level' = [level EXCEPT ![o.side][o.price] = <<m>> \o @]
    /\ order' = Put(order, m, o)
    /\ index' = Put(index, <<o.client, o.oid>>, m)

\* addOrder: at the tail of its FIFO, in a new level if there is none.
AddOrder(m, o) ==
    /\ ring' = IF level[o.side][o.price] = <<>>
               THEN [ring EXCEPT ![o.side] = AddOrdersAtPrice(o.side, @, o.price)]
               ELSE ring
    /\ level' = [level EXCEPT ![o.side][o.price] = Append(@, m)]
    /\ order' = Put(order, m, o)
    /\ index' = Put(index, <<o.client, o.oid>>, m)
-------------------------------------------------------------------------------
(* Output.  A response is completed with the client's position when it is    *)
(* sent; sending a FILLED moves the position first.                          *)

Response(type, client, oid, side, exec, leaves, position) ==
    [type |-> type, client |-> client, oid |-> oid, side |-> side,
     exec |-> exec, leaves |-> leaves, position |-> position]

\* A response that moves no position: everything but FILLED.
Plain(type, client, oid, side, leaves) ==
    Response(type, client, oid, side, 0, leaves, positions[client])

Update(type, m, side, price, qty, priority) ==
    [type |-> type, id |-> m, side |-> side, price |-> price, qty |-> qty, priority |-> priority]

(***************************************************************************)
(* The receivers.  The queues are FIFO (LFQueue), so what a receiver makes *)
(* of the stream is known as soon as it is sent: the queues themselves are *)
(* kept as the number of messages in them.                                 *)
(***************************************************************************)
\* SnapshotSynthesizer::addToSnapshot; ok turns FALSE where it would assert.
AddToSnapshot(snap, u) ==
    LET orders == snap.orders
        live == u.id \in DOMAIN orders
    IN  CASE u.type = "ADD" ->
               [orders |-> Put(orders, u.id, [side |-> u.side, price |-> u.price, qty |-> u.qty,
                                              priority |-> u.priority]),
                ok |-> snap.ok /\ u.id \in MarketIds /\ ~live]
          [] u.type = "MODIFY" ->
               [orders |-> IF live
                           THEN [orders EXCEPT ![u.id].qty = u.qty, ![u.id].price = u.price]
                           ELSE orders,
                ok |-> snap.ok /\ live /\ orders[u.id].side = u.side]
          [] u.type = "CANCEL" ->
               [orders |-> Drop(orders, u.id),
                ok |-> snap.ok /\ live /\ orders[u.id].side = u.side]
          [] u.type = "TRADE" -> snap

\* A client that books every response it is sent: its open quantities and its
\* position.  ok turns FALSE at a response that contradicts an earlier one.
Book(l, r) ==
    LET k == <<r.client, r.oid>>
        position == IF r.type = "FILLED"
                    THEN [l.position EXCEPT ![r.client] = @ + r.exec * SideValue(r.side)]
                    ELSE l.position
        continues ==
            CASE r.type = "ACCEPTED" -> l.leaves[k] = 0 /\ r.leaves > 0
              [] r.type = "FILLED" -> r.exec > 0 /\ l.leaves[k] = r.exec + r.leaves
              [] r.type = "CANCELED" -> l.leaves[k] = r.leaves /\ r.leaves > 0
              [] r.type = "CANCEL_REJECTED" -> l.leaves[k] = 0
              [] r.type = "STATE" -> r.oid = 0 \/ l.leaves[k] = r.leaves
              [] r.type = "REJECTED" -> TRUE
    IN  [leaves |-> CASE r.type \in {"ACCEPTED", "FILLED"} -> [l.leaves EXCEPT ![k] = r.leaves]
                      [] r.type = "CANCELED" -> [l.leaves EXCEPT ![k] = 0]
                      [] OTHER -> l.leaves,
         position |-> position,
         ok |-> l.ok /\ continues /\ position[r.client] = r.position]

\* The messages ms, one after the other; no step sends more than two of a kind.
Apply(Receive(_, _), state, ms) ==
    CASE Len(ms) = 0 -> state
      [] Len(ms) = 1 -> Receive(state, ms[1])
      [] Len(ms) = 2 -> Receive(Receive(state, ms[1]), ms[2])

\* Of the messages ms those that a queue holding n has room for.
Fitting(ms, n) == SubSeq(ms, 1, Lesser(Len(ms), QueueCapacity - n))

SendOrDrop(rs, sent, us, published) ==
    /\ responses' = responses + Len(sent)
    /\ updates' = updates + Len(published)
    /\ ledger' = Apply(Book, ledger, sent)
    /\ replica' = Apply(AddToSnapshot, replica, published)
    /\ UNCHANGED halted

\* sendClientResponse and sendMarketUpdate: of the messages rs and us, sent
\* and published have been pushed when the process goes on, or when it ends
\* because the next one does not fit.  (What is in its memory then is of no account.)
Send(rs, sent, us, published) ==
    /\ responses' = responses + Len(sent)
    /\ updates' = updates + Len(published)
    /\ ledger' = Apply(Book, ledger, sent)
    /\ replica' = Apply(AddToSnapshot, replica, published)
    /\ halted' = (Len(sent) < Len(rs) \/ Len(published) < Len(us))

\* The responses one by one, then the updates.
Emit(rs, us) ==
    LET sent == Fitting(rs, responses)
    IN  Send(rs, sent, us, IF Len(sent) < Len(rs) THEN <<>> ELSE Fitting(us, updates))

\* The update first, as in cancel().
EmitUpdateFirst(r, u) ==
    LET published == Fitting(<<u>>, updates)
    IN  Send(<<r>>, IF published = <<>> THEN <<>> ELSE Fitting(<<r>>, responses), <<u>>, published)

\* emitResponse also remembers the last response about an order.
Remember(f, r) == Put(f, <<r.client, r.oid>>, [type |-> r.type, leaves |-> r.leaves])
-------------------------------------------------------------------------------
Init ==
    /\ ring = [s \in Sides |-> <<>>]
    /\ level = [s \in Sides |-> [p \in Prices |-> <<>>]]
    /\ order = <<>>
    /\ index = <<>>
    /\ used = {}
    /\ next_market_order_id = 1
    /\ last_response = <<>>
    /\ positions = [c \in Clients |-> 0]
    /\ taker = NoOrder
    /\ responses = 0
    /\ updates = 0
    /\ halted = FALSE
    /\ replica = [orders |-> <<>>, ok |-> TRUE]
    /\ ledger = [leaves |-> [k \in Keys |-> 0], position |-> [c \in Clients |-> 0], ok |-> TRUE]

\* The matching thread peeks the next request once the previous one is done.
Ready == ~halted /\ taker = NoOrder

CapacityOffByOne(side, price) ==
    \/ Cardinality(DOMAIN order) > MaxOrderIds
    \/ next_market_order_id > MaxOrderIds
    \/ level[side][price] = <<>> /\ LevelsInUse >= MaxPriceLevels

CapacityIgnoresLevels(side, price) ==
    \/ Cardinality(DOMAIN order) >= MaxOrderIds
    \/ next_market_order_id >= MaxOrderIds

\* No order object, no market id or, where a new one would be needed, no price
\* level is left.
OutOfCapacity(side, price) ==
    \/ Cardinality(DOMAIN order) >= MaxOrderIds
    \/ next_market_order_id >= MaxOrderIds
    \/ level[side][price] = <<>> /\ LevelsInUse >= MaxPriceLevels

\* Wire::validate and the checks at the top of add(), in their order.
RejectReason(client, oid, side, price, qty) ==
    IF oid = 0 THEN "INVALID_ID"
    ELSE IF price = 0 THEN "INVALID_PRICE"
    ELSE IF qty = 0 THEN "INVALID_QTY"
    ELSE IF <<client, oid>> \in used THEN "DUPLICATE_ID"
    ELSE IF OutOfCapacity(side, price) THEN "CAPACITY"
    ELSE "NONE"

\* Well-formed requests, and one that is malformed in each field.
NewRequests ==
    LET oid == CHOOSE x \in OrderIds : TRUE
        price == CHOOSE x \in Prices : TRUE
        qty == CHOOSE x \in Qtys : TRUE
    IN  (OrderIds \X Prices \X Qtys) \cup {<<0, price, qty>>, <<oid, 0, qty>>, <<oid, price, 0>>}

\* add() turns a request down; its price is only echoed in the answer.
RejectNew(client, oid, side) ==
    /\ Ready
    /\ {r \in NewRequests : /\ r[1] = oid
                             /\ RejectReason(client, oid, side, r[2], r[3]) # "NONE"} # {}
    /\ Emit(<<Plain("REJECTED", client, oid, side, 0)>>, <<>>)
    /\ UNCHANGED engineVars

\* add() up to checkForMatch: the id is used up and the order acknowledged
\* before it is matched.
AcceptNew(client, oid, side, price, qty) ==
    /\ Ready
    /\ RejectReason(client, oid, side, price, qty) = "NONE"
    /\ used' = used \cup {<<client, oid>>}
    /\ next_market_order_id' = next_market_order_id + 1
    /\ taker' = [client |-> client, oid |-> oid, id |-> next_market_order_id,
                 side |-> side, price |-> price, leaves |-> qty]
    /\ LET r == Plain("ACCEPTED", client, oid, side, qty)
       IN  /\ Emit(<<r>>, <<>>)
           /\ last_response' = Remember(last_response, r)
    /\ UNCHANGED <<bookVars, positions>>

CrossingStrict ==
    LET other == Opposite(taker.side)
    IN  /\ taker.leaves > 0
        /\ ring[other] # <<>>
        /\ Better(taker.side, taker.price, Head(ring[other]))

\* The loop condition of checkForMatch: something left to fill, and a best
\* opposite level at a price the limit of the new order admits.
Crossing ==
    LET other == Opposite(taker.side)
    IN  /\ taker.leaves > 0
        /\ ring[other] # <<>>
        /\ ~Better(other, taker.price, Head(ring[other]))

AlwaysModify(m, fill) ==
    Update("MODIFY", m, order[m].side, order[m].price, order[m].qty - fill, order[m].priority)

\* What a fill does to the resting order, as the market sees it.
Change(m, fill) ==
    LET o == order[m]
    IN  IF o.qty = fill
        THEN Update("CANCEL", m, o.side, o.price, o.qty, 0)
        ELSE Update("MODIFY", m, o.side, o.price, o.qty - fill, o.priority)

\* match(): fill against the first order of the best opposite level; tell the
\* taker, then the owner of the resting order, then the market.
Match ==
    /\ ~halted /\ taker # NoOrder /\ Crossing
    /\ LET best == Head(ring[Opposite(taker.side)])
           m == Head(level[Opposite(taker.side)][best])
           o == order[m]
           fill == Lesser(taker.leaves, o.qty)
           pos1 == [positions EXCEPT ![taker.client] = @ + fill * SideValue(taker.side)]
           pos2 == [pos1 EXCEPT ![o.client] = @ + fill * SideValue(o.side)]
           r1 == Response("FILLED", taker.client, taker.oid, taker.side, fill,
                          taker.leaves - fill, pos1[taker.client])
           r2 == Response("FILLED", o.client, o.oid, o.side, fill, o.qty - fill, pos2[o.client])
           trade == Update("TRADE", 0, taker.side, o.price, fill, 0)
       IN  /\ taker' = [taker EXCEPT !.leaves = @ - fill]
           /\ positions' = pos2
           /\ last_response' = Remember(Remember(last_response, r1), r2)
           /\ Emit(<<r1, r2>>, <<trade, Change(m, fill)>>)
           /\ IF o.qty = fill
              THEN RemoveOrder(m)
              ELSE /\ order' = [order EXCEPT ![m].qty = @ - fill]
                   /\ UNCHANGED <<ring, level, index>>
    /\ UNCHANGED <<used, next_market_order_id>>

\* The rest of add(): what is left joins the book.
Rest ==
    /\ ~halted /\ taker # NoOrder /\ ~Crossing
    /\ taker' = NoOrder
    /\ IF taker.leaves > 0
       THEN LET o == [client |-> taker.client, oid |-> taker.oid, side |-> taker.side,
                      price |-> taker.price, qty |-> taker.leaves,
                      priority |-> NextPriority(taker.side, taker.price)]
            IN  /\ AddOrder(taker.id, o)
                /\ Emit(<<>>, <<Update("ADD", taker.id, o.side, o.price, o.qty, o.priority)>>)
       ELSE UNCHANGED <<bookVars, outputVars>>
    /\ UNCHANGED <<used, next_market_order_id, last_response, positions>>

\* cancel()
Cancel(client, oid) ==
    /\ Ready
    /\ IF <<client, oid>> \in DOMAIN index
       THEN LET m == index[<<client, oid>>]
                o == order[m]
                r == Plain("CANCELED", client, oid, o.side, o.qty)
            IN  /\ RemoveOrder(m)
                /\ EmitUpdateFirst(r, Update("CANCEL", m, o.side, o.price, 0, o.priority))
                /\ last_response' = Remember(last_response, r)
       ELSE /\ Emit(<<Plain("CANCEL_REJECTED", client, oid, "INVALID", 0)>>, <<>>)
            /\ UNCHANGED <<bookVars, last_response>>
    /\ UNCHANGED <<used, next_market_order_id, positions, taker>>

\* query(): id 0 asks for the position only.
Query(client, oid) ==
    /\ Ready
    /\ LET known == <<client, oid>> \in DOMAIN last_response
           last == last_response[<<client, oid>>]
           type == IF oid = 0 \/ known THEN "STATE" ELSE "REJECTED"
           leaves == IF oid # 0 /\ known /\ last.type # "CANCELED" THEN last.leaves ELSE 0
       IN  Emit(<<Plain(type, client, oid, "INVALID", leaves)>>, <<>>)
    /\ UNCHANGED engineVars
-------------------------------------------------------------------------------
(* The threads behind the queues take messages out at their own pace.        *)
TakeResponse ==
    /\ ~halted /\ responses > 0
    /\ responses' = responses - 1
    /\ UNCHANGED <<engineVars, updates, halted, replica, ledger>>

TakeUpdate ==
    /\ ~halted /\ updates > 0
    /\ updates' = updates - 1
    /\ UNCHANGED <<engineVars, responses, halted, replica, ledger>>

Request ==
    \E client \in Clients :
       \/ \E r \in NewRequests, side \in Sides : AcceptNew(client, r[1], side, r[2], r[3])
       \/ \E oid \in OrderIds \cup {0}, side \in Sides : RejectNew(client, oid, side)
       \/ \E oid \in OrderIds : Cancel(client, oid)
       \/ \E oid \in OrderIds \cup {0} : Query(client, oid)

Next == Request \/ Match \/ Rest \/ TakeResponse \/ TakeUpdate

Spec == Init /\ [][Next]_vars
-------------------------------------------------------------------------------
TypeOK ==
    /\ ring \in [Sides -> Seq(Prices)]
    /\ level \in [Sides -> [Prices -> Seq(MarketIds)]]
    /\ DOMAIN order \subseteq MarketIds
    /\ \A m \in DOMAIN order :
          order[m] \in [client : Clients, oid : OrderIds, side : Sides, price : Prices,
                        qty : Nat \ {0}, priority : Nat \ {0}]
    /\ DOMAIN index \subseteq used /\ used \subseteq Keys
    /\ next_market_order_id \in 1 .. MaxOrderIds
    /\ positions \in [Clients -> Int]
    /\ taker # NoOrder => taker \in Takers
    /\ responses \in 0 .. QueueCapacity /\ updates \in 0 .. QueueCapacity
    /\ halted \in BOOLEAN

\* The price rings are strictly sorted from the best price (the condition
\* toString(validity_check) tests at shutdown).
RingsSorted ==
    \A s \in Sides : \A i, j \in 1 .. Len(ring[s]) : i < j => Better(s, ring[s][i], ring[s][j])

\* A level exists exactly when orders rest in it, and holds the orders of its price.
LevelsExact ==
    \A s \in Sides, p \in Prices :
        /\ p \in ToSet(ring[s]) <=> level[s][p] # <<>>
        /\ ToSet(level[s][p]) = {m \in DOMAIN order : order[m].side = s /\ order[m].price = p}

\* The client index finds each live order, and nothing else.
IndexExact ==
    /\ \A m \in DOMAIN order : /\ <<order[m].client, order[m].oid>> \in DOMAIN index
                              /\ index[<<order[m].client, order[m].oid>>] = m
    /\ \A k \in DOMAIN index : /\ index[k] \in DOMAIN order
                              /\ <<order[index[k]].client, order[index[k]].oid>> = k

\* In a level, later orders have larger market ids and larger priorities,
\* although getNextPriority reuses the priorities of orders that left from the tail.
TimePriority ==
    \A s \in Sides, p \in Prices : \A i, j \in 1 .. Len(level[s][p]) :
        i < j => /\ level[s][p][i] < level[s][p][j]
                 /\ order[level[s][p][i]].priority < order[level[s][p][j]].priority

\* The CAPACITY check at the top of add(), made before matching, is enough for
\* the level that is allocated after it: the pool's ASSERT never fires.
LevelsWithinPool == LevelsInUse <= MaxPriceLevels

\* Every search structure of the book describes the same set of live orders,
\* each level in time order, out of the one pool of levels both sides share.
BookConsistent == RingsSorted /\ LevelsExact /\ IndexExact /\ TimePriority /\ LevelsWithinPool

\* Between requests the book is never crossed: no bid at or above an ask.
NeverCrossed ==
    taker = NoOrder =>
       \A m, n \in DOMAIN order :
          order[m].side = "BUY" /\ order[n].side = "SELL" => order[m].price < order[n].price

\* Whoever applies the update stream never meets one of SnapshotSynthesizer's
\* assertions, even where the stream ends in the middle of a match because a queue
\* was full, and holds the live orders as long as it goes on.
FeedReplaysBook ==
    /\ replica.ok
    /\ ~halted => replica.orders = [m \in DOMAIN order |->
                                      [side |-> order[m].side, price |-> order[m].price,
                                       qty |-> order[m].qty, priority |-> order[m].priority]]

\* A client that books its responses is never contradicted by a later one
\* (quantities add up, cancels and queries answer with what is open, the
\* position carried by each response is the sum of the fills before it), and
\* knows exactly the quantities resting in the book.  When a full queue ends the
\* process between the responses of a request, clients may take an order to be
\* open that is not, but never less of one than is.
ClientsReconcile ==
    /\ ledger.ok
    /\ \A k \in DOMAIN index : ledger.leaves[k] >= order[index[k]].qty
    /\ ~halted =>
          /\ ledger.position = positions
          /\ \A k \in Keys :
                ledger.leaves[k] = IF k \in DOMAIN index THEN order[index[k]].qty
                                   ELSE IF taker # NoOrder /\ k = <<taker.client, taker.oid>>
                                   THEN taker.leaves
                                   ELSE 0

\* Price-time priority as an action property: whenever an order is filled as
\* the resting side, no live order of its side has a better price, or the same
\* price and an earlier arrival.
PriceTimePriority ==
    [][\A m \in DOMAIN order :
         (taker # NoOrder /\ (m \notin DOMAIN order' \/ order'[m] # order[m])) =>
            \A n \in DOMAIN order :
               order[n].side = order[m].side =>
                  /\ ~Better(order[m].side, order[n].price, order[m].price)
                  /\ (order[n].price = order[m].price => m <= n)]_vars
===============================================================================
