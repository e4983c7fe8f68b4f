--------------------------- MODULE TradeEngineProofs ---------------------------
(* Proofs about TradeEngine for every limit, clip, queue capacity and bound.  *)
EXTENDS TradeEngine, CommonLemmas

Order == [side : Sides, qty : Nat \ {0}]

Orders == UNION {[D -> Order] : D \in SUBSET Nat}

NewSet == [type : {"NEW"}, id : Nat, side : Sides, qty : Nat \ {0}]
CancelSet == [type : {"CANCEL"}, id : Nat, side : Sides, qty : Nat]
RequestSet == NewSet \cup CancelSet

ResponseTypes == {"ACCEPTED", "REJECTED", "CANCELED", "CANCEL_REJECTED", "FILLED"}
ResponseSet == [type : ResponseTypes, rid : Nat, id : Nat, side : Sides, exec : Nat, leaves : Nat]

RiskSet == [reservations : Orders, pending : [Sides -> Int]]

States == {"INVALID", "PENDING_NEW", "LIVE", "PENDING_CANCEL", "DEAD"}
OMOrder == [id : Nat, price : Prices \cup {NoPrice}, qty : Nat, state : States]

\* The types the argument needs.  That pending_buy_ and pending_sell_ never go
\* below zero is not among them: it follows from PendingIsSum.
Types ==
    /\ om \in [Sides -> OMOrder]
    /\ nextId \in Nat
    /\ risk \in RiskSet
    /\ DOMAIN risk.reservations \subseteq Nat
    /\ position \in Int
    /\ sent \subseteq Nat /\ cancels \subseteq Nat
    /\ requests \in Seq(RequestSet)
    /\ responses \in Seq(ResponseSet)
    /\ book \in Orders
    /\ issued \in Nat
    /\ todo \in Prices \cup {NoPrice, Idle}

\* NEW is admitted only before quiesce() begins to collect.
GateClosed == phase # "running" => ~admitting

RiskInv == Types /\ WithinLimits /\ GateClosed /\ QuiesceCoversAll
--------------------------------------------------------------------------------
\* A table of orders maps ids to orders.
LEMMA OrdersElement ==
    ASSUME NEW f \in Orders
    PROVE  /\ DOMAIN f \subseteq Nat
           /\ \A x \in DOMAIN f : f[x] \in Order
           /\ f = [x \in DOMAIN f |-> f[x]]
<1>1. PICK D \in SUBSET Nat : f \in [D -> Order]
  BY DEF Orders
<1> QED
  BY <1>1

\* A function from ids to orders is such a table.
LEMMA OrdersIntro ==
    ASSUME NEW D \in SUBSET Nat, NEW f \in [D -> Order]
    PROVE  f \in Orders
BY DEF Orders

\* With adds an order to a table of orders.
LEMMA WithType ==
    ASSUME NEW f \in Orders, NEW x \in Nat, NEW v \in Order
    PROVE  /\ With(f, x, v) \in Orders
           /\ DOMAIN With(f, x, v) = DOMAIN f \cup {x}
           /\ With(f, x, v)[x] = v
<1>1. With(f, x, v) \in [DOMAIN f \cup {x} -> Order]
  BY OrdersElement DEF With
<1>2. DOMAIN f \cup {x} \in SUBSET Nat
  BY OrdersElement
<1>3. With(f, x, v) \in Orders
  BY <1>1, <1>2, OrdersIntro
<1> QED
  BY <1>3 DEF With

\* Without removes one.
LEMMA WithoutType ==
    ASSUME NEW f \in Orders, NEW x
    PROVE  /\ Without(f, x) \in Orders
           /\ DOMAIN Without(f, x) = DOMAIN f \ {x}
<1>1. Without(f, x) \in [DOMAIN f \ {x} -> Order]
  BY OrdersElement DEF Without
<1>2. DOMAIN f \ {x} \in SUBSET Nat
  BY OrdersElement
<1>3. Without(f, x) \in Orders
  BY <1>1, <1>2, OrdersIntro
<1> QED
  BY <1>3 DEF Without
--------------------------------------------------------------------------------
\* reserve() of a new order books its quantity on its side.
LEMMA ReserveNew ==
    ASSUME NEW k \in RiskSet, NEW r \in NewSet
    PROVE  /\ Reserve(k, r) \in RiskSet
           /\ Reserve(k, r).pending = [k.pending EXCEPT ![r.side] = @ + r.qty]
           /\ DOMAIN Reserve(k, r).reservations = DOMAIN k.reservations \cup {r.id}
           /\ Reserve(k, r).reservations[r.id] = [side |-> r.side, qty |-> r.qty]
<1> DEFINE v == [side |-> r.side, qty |-> r.qty]
           f == With(k.reservations, r.id, v)
           g == [k.pending EXCEPT ![r.side] = @ + r.qty]
<1>1. Reserve(k, r) = [reservations |-> f, pending |-> g]
  BY DEF Reserve, NewSet
<1>2. v \in Order /\ r.id \in Nat /\ k.reservations \in Orders
  BY DEF NewSet, Order, RiskSet
<1>3. /\ f \in Orders
      /\ DOMAIN f = DOMAIN k.reservations \cup {r.id}
      /\ f[r.id] = v
  <2>1. \A w \in Order :
           /\ With(k.reservations, r.id, w) \in Orders
           /\ DOMAIN With(k.reservations, r.id, w) = DOMAIN k.reservations \cup {r.id}
           /\ With(k.reservations, r.id, w)[r.id] = w
    BY <1>2, WithType
  <2> QED
    BY <1>2, <2>1, Zenon
<1>4. g \in [Sides -> Int]
  BY DEF NewSet, RiskSet
<1> HIDE DEF f, g
<1>5. Reserve(k, r) \in RiskSet /\ Reserve(k, r).reservations = f /\ Reserve(k, r).pending = g
  BY <1>1, <1>3, <1>4 DEF RiskSet
<1> QED
  BY <1>3, <1>5 DEF g

\* A full queue: rollback() after reserve() leaves the sums where they were.
LEMMA RollbackReserve ==
    ASSUME NEW k \in RiskSet, NEW r \in NewSet, r.id \notin DOMAIN k.reservations
    PROVE  /\ Rollback(Reserve(k, r), r) \in RiskSet
           /\ Rollback(Reserve(k, r), r).pending = k.pending
           /\ DOMAIN Rollback(Reserve(k, r), r).reservations = DOMAIN k.reservations
<1> DEFINE j == Reserve(k, r)
           f == Without(j.reservations, r.id)
           g == [j.pending EXCEPT ![r.side] = @ - r.qty]
<1>1. /\ j \in RiskSet
      /\ j.pending = [k.pending EXCEPT ![r.side] = @ + r.qty]
      /\ DOMAIN j.reservations = DOMAIN k.reservations \cup {r.id}
      /\ j.reservations[r.id] = [side |-> r.side, qty |-> r.qty]
  BY ReserveNew
<1> HIDE DEF j
<1>2. Rollback(j, r) = [reservations |-> f, pending |-> g]
  BY <1>1 DEF Rollback, NewSet
<1>3. f \in Orders /\ DOMAIN f = DOMAIN j.reservations \ {r.id}
  BY <1>1, WithoutType DEF RiskSet
<1>4. g = k.pending /\ g \in [Sides -> Int]
  <2>1. k.pending \in [Sides -> Int] /\ j.pending \in [Sides -> Int] /\ r.side \in Sides
    BY <1>1 DEF NewSet, RiskSet
  <2>2. g \in [Sides -> Int] /\ \A s \in Sides : g[s] = k.pending[s]
    BY <1>1, <2>1 DEF NewSet
  <2> QED
    BY <2>1, <2>2
<1> HIDE DEF f, g
<1>5. /\ Rollback(j, r) \in RiskSet
      /\ Rollback(j, r).pending = g
      /\ Rollback(j, r).reservations = f
  BY <1>2, <1>3, <1>4 DEF RiskSet
<1>6. DOMAIN f = DOMAIN k.reservations
  BY <1>1, <1>3
<1> QED
  BY <1>4, <1>5, <1>6 DEF j

\* onResponse(): whatever a response releases, it never frees more room than
\* the position it moves takes up.
LEMMA ReleaseLemma ==
    ASSUME NEW k \in RiskSet, NEW r \in ResponseSet, Agrees(k, r)
    PROVE  LET d == IF r.type = "FILLED" THEN SideValue(r.side) * r.exec ELSE 0
           IN  /\ Release(k, r) \in RiskSet
               /\ DOMAIN Release(k, r).reservations \subseteq DOMAIN k.reservations
               /\ d \in Int
               /\ d + Release(k, r).pending["BUY"] <= k.pending["BUY"]
               /\ d - Release(k, r).pending["SELL"] >= -k.pending["SELL"]
<1> DEFINE d == IF r.type = "FILLED" THEN SideValue(r.side) * r.exec ELSE 0
           v == k.reservations[r.id]
<1>0. /\ k.reservations \in Orders /\ k.pending \in [Sides -> Int]
      /\ k = [reservations |-> k.reservations, pending |-> k.pending]
  BY DEF RiskSet
<1>1. d \in Int
  BY DEF ResponseSet, SideValue, Sides
<1>2. CASE r.id \notin DOMAIN k.reservations
  <2>1. Release(k, r) = k /\ d = 0
    BY <1>2 DEF Release, Agrees
  <2> QED
    BY <2>1, <1>0, <1>1 DEF Sides
<1>3. CASE r.id \in DOMAIN k.reservations
  <2>1. v \in Order
    BY <1>0, <1>3, OrdersElement
  <2> DEFINE gone == [reservations |-> Without(k.reservations, r.id),
                      pending |-> [k.pending EXCEPT ![v.side] = @ - v.qty]]
  <2>2. /\ Without(k.reservations, r.id) \in Orders
        /\ DOMAIN Without(k.reservations, r.id) \subseteq DOMAIN k.reservations
    BY <1>0, WithoutType
  <2>3. /\ gone \in RiskSet
        /\ DOMAIN gone.reservations \subseteq DOMAIN k.reservations
        /\ gone.pending = [k.pending EXCEPT ![v.side] = @ - v.qty]
    <3>1. [k.pending EXCEPT ![v.side] = @ - v.qty] \in [Sides -> Int]
      BY <1>0, <2>1 DEF Order
    <3> QED
      BY <2>2, <3>1 DEF RiskSet
  <2> HIDE DEF gone, v
  <2>4. CASE r.type \in {"CANCELED", "REJECTED"}
    <3>1. Release(k, r) = gone /\ d = 0
      BY <1>3, <2>4 DEF Release, gone, v
    <3>2. /\ gone.pending["BUY"] <= k.pending["BUY"]
          /\ gone.pending["SELL"] <= k.pending["SELL"]
          /\ gone.pending["BUY"] \in Int /\ gone.pending["SELL"] \in Int
      BY <2>1, <2>3, <1>0 DEF Order, Sides
    <3> QED
      BY <3>1, <3>2, <2>3, <1>0, <1>1 DEF Sides
  <2>5. CASE r.type = "FILLED" /\ r.leaves = 0
    <3>1. Release(k, r) = gone
      BY <1>3, <2>5 DEF Release, gone, v
    <3>2. r.side = v.side /\ r.exec = v.qty
      BY <1>3, <2>1, <2>5 DEF Agrees, v, ResponseSet, Order
    <3>3. /\ d + gone.pending["BUY"] <= k.pending["BUY"]
          /\ d - gone.pending["SELL"] >= -k.pending["SELL"]
      BY <3>2, <2>1, <2>3, <2>5, <1>0 DEF Order, Sides, SideValue
    <3> QED
      BY <3>1, <3>3, <2>3, <1>1
  <2>6. CASE r.type = "FILLED" /\ r.leaves > 0
    <3> DEFINE f == [k.reservations EXCEPT ![r.id].qty = r.leaves]
               g == [k.pending EXCEPT ![v.side] = @ - r.exec]
    <3>1. Release(k, r) = [reservations |-> f, pending |-> g]
      BY <1>0, <1>3, <2>6 DEF Release, v, ResponseSet
    <3>2. r.side = v.side /\ r.exec \in Nat
      BY <1>3, <2>1, <2>6 DEF Agrees, v, ResponseSet, Order
    <3>3. f \in Orders /\ DOMAIN f = DOMAIN k.reservations
      <4>1. f \in [DOMAIN k.reservations -> Order]
        BY <1>0, <1>3, <2>6, OrdersElement DEF Order, ResponseSet
      <4>2. DOMAIN k.reservations \in SUBSET Nat
        BY <1>0, OrdersElement
      <4> QED
        BY <4>1, <4>2, OrdersIntro
    <3>4. g \in [Sides -> Int]
      BY <1>0, <2>1, <3>2 DEF Order
    <3>5. d + g["BUY"] <= k.pending["BUY"] /\ d - g["SELL"] >= -k.pending["SELL"]
      BY <3>2, <2>1, <2>6, <1>0 DEF Order, Sides, SideValue
    <3> HIDE DEF f, g
    <3>6. Release(k, r) \in RiskSet /\ Release(k, r).reservations = f
            /\ Release(k, r).pending = g
      BY <3>1, <3>3, <3>4 DEF RiskSet
    <3> QED
      BY <3>3, <3>5, <3>6, <1>1
  <2>7. CASE r.type \notin {"CANCELED", "REJECTED", "FILLED"}
    <3>1. Release(k, r) = k /\ d = 0
      BY <1>3, <2>7 DEF Release
    <3> QED
      BY <3>1, <1>0 DEF Sides
  <2>8. r.leaves = 0 \/ r.leaves > 0
    BY DEF ResponseSet
  <2> QED
    BY <2>4, <2>5, <2>6, <2>7, <2>8
<1> QED
  BY <1>2, <1>3

\* OrderManager::onOrderUpdate yields an order.
LEMMA OrderUpdateType ==
    ASSUME NEW o \in OMOrder, NEW r \in ResponseSet
    PROVE  OrderUpdate(o, r) \in OMOrder
<1>1. Min({o.qty, r.leaves}) \in Nat
  <2>1. o.qty \in Nat /\ r.leaves \in Nat
    BY DEF OMOrder, ResponseSet
  <2>2. \E x \in {o.qty, r.leaves} : \A y \in {o.qty, r.leaves} : x <= y
    BY <2>1
  <2> QED
    BY <2>1, <2>2 DEF Min
<1>2. CASE r.type = "FILLED"
  <2> DEFINE q == Min({o.qty, r.leaves})
             z == IF q = 0 THEN "DEAD" ELSE o.state
  <2>1. OrderUpdate(o, r) = [o EXCEPT !.qty = q, !.state = z]
    BY <1>2 DEF OrderUpdate
  <2>2. q \in Nat /\ z \in States
    BY <1>1 DEF States, OMOrder
  <2> HIDE DEF q, z
  <2> QED
    BY <2>1, <2>2 DEF OMOrder
<1>3. CASE r.type \in {"CANCELED", "REJECTED"}
  BY <1>3 DEF OrderUpdate, OMOrder, States
<1>4. CASE r.type = "ACCEPTED"
  BY <1>4 DEF OrderUpdate, OMOrder, States
<1>5. CASE r.type = "CANCEL_REJECTED"
  BY <1>5 DEF OrderUpdate, OMOrder, States
<1>6. CASE r.type \notin {"FILLED", "CANCELED", "REJECTED", "ACCEPTED", "CANCEL_REJECTED"}
  BY <1>6 DEF OrderUpdate
<1> QED
  BY <1>2, <1>3, <1>4, <1>5, <1>6
--------------------------------------------------------------------------------
\* sendClientRequest keeps the limits, whether it refuses, sends or rolls back,
\* and reserves nothing for a cancellation or once the gate is closed.
LEMMA SendLemma ==
    ASSUME Types, WithinLimits, NEW r \in RequestSet, NEW solvent \in BOOLEAN,
           SendClientRequest(r, solvent)
    PROVE  /\ risk' \in RiskSet
           /\ requests' \in Seq(RequestSet)
           /\ position + risk'.pending["BUY"] <= MaxPosition
           /\ position - risk'.pending["SELL"] >= -MaxPosition
           /\ DOMAIN risk'.reservations \subseteq DOMAIN risk.reservations \cup {r.id}
           /\ r.type = "CANCEL" \/ ~admitting =>
                 DOMAIN risk'.reservations \subseteq DOMAIN risk.reservations
<1>1. requests' \in Seq(RequestSet)
  BY AppendProperties DEF Types, SendClientRequest
<1>2. CASE risk' = risk
  BY <1>1, <1>2 DEF Types, WithinLimits
<1>3. CASE risk' # risk
  <2>1. Admitted(r, solvent)
    BY <1>3 DEF SendClientRequest
  <2>2. r.type = "NEW"
    BY <1>3 DEF SendClientRequest, Reserve, Rollback, RequestSet, NewSet, CancelSet
  <2>3. r \in NewSet /\ risk \in RiskSet
    BY <2>2 DEF RequestSet, CancelSet, Types
  <2>4. admitting /\ r.id \notin DOMAIN risk.reservations
    BY <2>1, <2>2 DEF Admitted
  <2>5. /\ position + (risk.pending["BUY"] + (IF r.side = "BUY" THEN r.qty ELSE 0)) <= MaxPosition
        /\ position - (risk.pending["SELL"] + (IF r.side = "SELL" THEN r.qty ELSE 0))
             >= -MaxPosition
    BY <2>1, <2>2 DEF Admitted, CheckPreTradeRisk
  <2>6. CASE risk' = Reserve(risk, r)
    <3>1. /\ risk' \in RiskSet
          /\ risk'.pending = [risk.pending EXCEPT ![r.side] = @ + r.qty]
          /\ DOMAIN risk'.reservations = DOMAIN risk.reservations \cup {r.id}
      BY <2>3, <2>6, ReserveNew
    <3>2. /\ risk'.pending["BUY"] = risk.pending["BUY"] + (IF r.side = "BUY" THEN r.qty ELSE 0)
          /\ risk'.pending["SELL"] = risk.pending["SELL"]
                                       + (IF r.side = "SELL" THEN r.qty ELSE 0)
      BY <2>3, <3>1 DEF RiskSet, NewSet, Sides
    <3> QED
      BY <1>1, <2>2, <2>4, <2>5, <3>1, <3>2
  <2>7. CASE risk' = Rollback(Reserve(risk, r), r)
    <3>1. /\ risk' \in RiskSet
          /\ risk'.pending = risk.pending
          /\ DOMAIN risk'.reservations = DOMAIN risk.reservations
      BY <2>3, <2>4, <2>7, RollbackReserve
    <3> QED
      BY <1>1, <3>1 DEF WithinLimits
  <2> QED
    BY <2>1, <2>6, <2>7 DEF SendClientRequest
<1> QED
  BY <1>2, <1>3

\* The requests the engine and the main thread build are requests.
LEMMA RequestTypes ==
    ASSUME Types
    PROVE  /\ \A n \in Nat, s \in Sides, q \in Nat \ {0} : New(n, s, q) \in RequestSet
           /\ \A n \in Nat : Cancel(n) \in RequestSet
BY DEF New, Cancel, RequestSet, NewSet, CancelSet, Sides

\* quiesce() takes the smallest id of those left.
LEMMA MinOfIds ==
    ASSUME NEW S \in SUBSET Nat, S # {}
    PROVE  Min(S) \in S
BY LeastNat DEF Min

\* moveOrder: the strategy's requests keep the invariant.
LEMMA MoveOrderInv ==
    ASSUME RiskInv, NEW s \in Sides, NEW price \in Prices \cup {NoPrice},
           NEW solvent \in BOOLEAN, MoveOrder(s, price, solvent)
    PROVE  /\ om' \in [Sides -> OMOrder] /\ nextId' \in Nat
           /\ risk' \in RiskSet /\ DOMAIN risk'.reservations \subseteq Nat
           /\ requests' \in Seq(RequestSet)
           /\ position + risk'.pending["BUY"] <= MaxPosition
           /\ position - risk'.pending["SELL"] >= -MaxPosition
           /\ ~admitting => DOMAIN risk'.reservations \subseteq DOMAIN risk.reservations
<1> DEFINE o == om[s]
           n == New(nextId, s, Clip)
           c == Cancel(o.id)
<1>0. Types /\ WithinLimits /\ o \in OMOrder /\ nextId \in Nat
  BY DEF RiskInv, Types
<1>1. n \in RequestSet /\ n.id = nextId
  BY <1>0, RequestTypes, TradeEngineAssumption DEF New
<1>2. c \in RequestSet /\ c.id = o.id /\ c.type = "CANCEL"
  <2>1. o.id \in Nat
    BY <1>0 DEF OMOrder
  <2> QED
    BY <1>0, <2>1, RequestTypes DEF Cancel
<1> HIDE DEF n, c
<1>3. CASE /\ o.state = "LIVE" /\ o.price # price
           /\ SendClientRequest(c, solvent)
           /\ om' = IF Sent(c, solvent) THEN [om EXCEPT ![s].state = "PENDING_CANCEL"] ELSE om
           /\ UNCHANGED nextId
  <2>1. om' \in [Sides -> OMOrder]
    BY <1>0, <1>3 DEF Types, OMOrder, States
  <2> QED
    BY <1>0, <1>2, <1>3, <2>1, SendLemma DEF Types
<1>4. CASE /\ o.state \in {"INVALID", "DEAD"} /\ price # NoPrice
           /\ SendClientRequest(n, solvent)
           /\ om' = IF Sent(n, solvent)
                    THEN [om EXCEPT ![s] = [id |-> nextId, price |-> price, qty |-> Clip,
                                            state |-> "PENDING_NEW"]]
                    ELSE om
           /\ nextId' = IF Sent(n, solvent) THEN nextId + 1 ELSE nextId
  <2>1. om' \in [Sides -> OMOrder]
    <3>1. [id |-> nextId, price |-> price, qty |-> Clip, state |-> "PENDING_NEW"] \in OMOrder
      BY <1>0, TradeEngineAssumption DEF OMOrder, States
    <3> QED
      BY <3>1, <1>0, <1>4 DEF Types
  <2> QED
    BY <1>0, <1>1, <1>4, <2>1, SendLemma DEF Types
<1>5. CASE UNCHANGED <<om, nextId, risk, requests>>
  BY <1>0, <1>5 DEF Types, WithinLimits
<1> QED
  BY <1>3, <1>4, <1>5 DEF MoveOrder, NewOrder, CancelOrder, n, c

\* What is collected covers every reservation as long as none is added behind a
\* closed gate.
LEMMA CoverKept ==
    ASSUME RiskInv, UNCHANGED <<phase, listed>>,
           ~admitting => DOMAIN risk'.reservations \subseteq DOMAIN risk.reservations
    PROVE  QuiesceCoversAll'
BY DEF RiskInv, GateClosed, QuiesceCoversAll

\* moveOrders, first half.
LEMMA MoveBidInv ==
    ASSUME RiskInv, NEW quote \in Quotes, MoveBid(quote[1], quote[2])
    PROVE  RiskInv'
<1>1. quote[1] \in Prices \cup {NoPrice} /\ quote[2] \in Prices \cup {NoPrice}
  BY DEF Quotes, MakerQuotes, TakerQuotes
<1>2. PICK solvent \in BOOLEAN : MoveOrder("BUY", quote[1], solvent)
  BY DEF MoveBid
<1>3. /\ om' \in [Sides -> OMOrder] /\ nextId' \in Nat
      /\ risk' \in RiskSet /\ DOMAIN risk'.reservations \subseteq Nat
      /\ requests' \in Seq(RequestSet)
      /\ position + risk'.pending["BUY"] <= MaxPosition
      /\ position - risk'.pending["SELL"] >= -MaxPosition
      /\ ~admitting => DOMAIN risk'.reservations \subseteq DOMAIN risk.reservations
  BY <1>1, <1>2, MoveOrderInv DEF Sides
<1>4. UNCHANGED <<position, gateVars, mainVars, exchangeVars, responses>> /\ todo' = quote[2]
  BY DEF MoveBid
<1>5. Types'
  BY <1>1, <1>3, <1>4 DEF RiskInv, Types, mainVars, exchangeVars
<1>6. QuiesceCoversAll'
  BY <1>3, <1>4, CoverKept DEF mainVars
<1> QED
  BY <1>3, <1>4, <1>5, <1>6 DEF RiskInv, WithinLimits, GateClosed, gateVars, mainVars

\* moveOrders, second half.
LEMMA MoveAskInv ==
    ASSUME RiskInv, MoveAsk
    PROVE  RiskInv'
<1>1. todo \in Prices \cup {NoPrice}
  BY DEF MoveAsk, RiskInv, Types
<1>2. PICK solvent \in BOOLEAN : MoveOrder("SELL", todo, solvent)
  BY DEF MoveAsk
<1>3. /\ om' \in [Sides -> OMOrder] /\ nextId' \in Nat
      /\ risk' \in RiskSet /\ DOMAIN risk'.reservations \subseteq Nat
      /\ requests' \in Seq(RequestSet)
      /\ position + risk'.pending["BUY"] <= MaxPosition
      /\ position - risk'.pending["SELL"] >= -MaxPosition
      /\ ~admitting => DOMAIN risk'.reservations \subseteq DOMAIN risk.reservations
  BY <1>1, <1>2, MoveOrderInv DEF Sides
<1>4. UNCHANGED <<position, gateVars, mainVars, exchangeVars, responses>> /\ todo' = Idle
  BY DEF MoveAsk
<1>5. Types'
  BY <1>3, <1>4 DEF RiskInv, Types, mainVars, exchangeVars
<1>6. QuiesceCoversAll'
  BY <1>3, <1>4, CoverKept DEF mainVars
<1> QED
  BY <1>3, <1>4, <1>5, <1>6 DEF RiskInv, WithinLimits, GateClosed, gateVars, mainVars

\* onOrderUpdate, with repeated, contradictory and good responses.
LEMMA OnOrderUpdateInv ==
    ASSUME RiskInv, OnOrderUpdate
    PROVE  RiskInv'
<1> DEFINE r == Head(responses)
<1>0. Types /\ WithinLimits
  BY DEF RiskInv
<1>1. r \in ResponseSet /\ responses' \in Seq(ResponseSet)
  <2>1. responses \in Seq(ResponseSet) /\ responses # <<>>
    BY <1>0 DEF OnOrderUpdate, Types
  <2>2. Head(responses) \in ResponseSet /\ Tail(responses) \in Seq(ResponseSet)
    BY <2>1, HeadTailProperties
  <2> QED
    BY <2>1, <2>2 DEF OnOrderUpdate
<1>2. UNCHANGED <<gateVars, mainVars, exchangeVars, todo, requests>>
  BY DEF OnOrderUpdate
<1> HIDE DEF r
<1>3. CASE UNCHANGED <<om, nextId, risk, position>>
  <2>1. Types'
    BY <1>0, <1>1, <1>2, <1>3 DEF Types, mainVars, exchangeVars
  <2> QED
    BY <1>2, <1>3, <2>1 DEF RiskInv, WithinLimits, GateClosed, QuiesceCoversAll, gateVars, mainVars
<1>4. CASE /\ Agrees(risk, r)
           /\ risk' = Release(risk, r)
           /\ position' = IF r.type = "FILLED" THEN position + SideValue(r.side) * r.exec
                          ELSE position
           /\ om' = [s \in Sides |-> IF om[s].id = r.id THEN OrderUpdate(om[s], r) ELSE om[s]]
           /\ UNCHANGED <<nextId, reconciled>>
  <2> DEFINE d == IF r.type = "FILLED" THEN SideValue(r.side) * r.exec ELSE 0
  <2>1. /\ risk' \in RiskSet
        /\ DOMAIN risk'.reservations \subseteq DOMAIN risk.reservations
        /\ d \in Int
        /\ d + risk'.pending["BUY"] <= risk.pending["BUY"]
        /\ d - risk'.pending["SELL"] >= -risk.pending["SELL"]
    BY <1>0, <1>1, <1>4, ReleaseLemma DEF Types
  <2>2. position' = position + d
    BY <1>0, <1>4 DEF Types
  <2>3. om' \in [Sides -> OMOrder]
    BY <1>0, <1>1, <1>4, OrderUpdateType DEF Types
  <2> HIDE DEF d
  <2>4. Types'
    BY <1>0, <1>1, <1>2, <1>4, <2>1, <2>2, <2>3 DEF Types, mainVars, exchangeVars
  <2>5. WithinLimits'
    <3>1. /\ position \in Int /\ MaxPosition \in Int
          /\ risk.pending["BUY"] \in Int /\ risk.pending["SELL"] \in Int
          /\ risk'.pending["BUY"] \in Int /\ risk'.pending["SELL"] \in Int
      BY <1>0, <2>1, TradeEngineAssumption DEF Types, RiskSet, Sides
    <3> QED
      BY <1>0, <2>1, <2>2, <3>1 DEF WithinLimits
  <2>6. QuiesceCoversAll'
    BY <1>2, <2>1, CoverKept DEF mainVars
  <2> QED
    BY <1>2, <2>4, <2>5, <2>6 DEF RiskInv, GateClosed, gateVars, mainVars
<1> QED
  BY <1>3, <1>4 DEF OnOrderUpdate, r, clientVars

\* The RANDOM generator's new order, from the main thread.
LEMMA RandomNewInv ==
    ASSUME RiskInv, RandomNew
    PROVE  RiskInv'
<1>0. Types /\ WithinLimits /\ nextId \in Nat
  BY DEF RiskInv, Types
<1>1. PICK s \in Sides, q \in Quantities, solvent \in BOOLEAN :
         /\ SendClientRequest(New(nextId, s, q), solvent)
         /\ sent' = IF Sent(New(nextId, s, q), solvent) THEN sent \cup {nextId} ELSE sent
  BY DEF RandomNew
<1> DEFINE n == New(nextId, s, q)
<1>2. n \in RequestSet /\ n.id = nextId
  BY <1>0, RequestTypes, TradeEngineAssumption DEF New
<1>3. /\ risk' \in RiskSet /\ requests' \in Seq(RequestSet)
      /\ position + risk'.pending["BUY"] <= MaxPosition
      /\ position - risk'.pending["SELL"] >= -MaxPosition
      /\ DOMAIN risk'.reservations \subseteq DOMAIN risk.reservations \cup {nextId}
      /\ ~admitting => DOMAIN risk'.reservations \subseteq DOMAIN risk.reservations
  BY <1>0, <1>1, <1>2, SendLemma
<1>4. /\ UNCHANGED <<om, position, gateVars, phase, cancels, listed, exchangeVars, todo, responses>>
      /\ nextId' = nextId + 1
      /\ sent' \subseteq sent \cup {nextId}
  BY <1>1 DEF RandomNew
<1>5. Types'
  BY <1>0, <1>3, <1>4 DEF Types, exchangeVars
<1>6. QuiesceCoversAll'
  BY <1>3, <1>4, CoverKept
<1> QED
  BY <1>3, <1>4, <1>5, <1>6 DEF RiskInv, WithinLimits, GateClosed, gateVars

\* A cancellation sent by the main thread, for an id of its own.
LEMMA SendCancelInv ==
    ASSUME RiskInv, NEW id \in Nat, SendClientRequest(Cancel(id), TRUE),
           UNCHANGED <<om, nextId, position, gateVars, sent, phase, listed, exchangeVars, todo,
                       responses>>,
           cancels' \subseteq cancels
    PROVE  RiskInv'
<1>0. Types /\ WithinLimits
  BY DEF RiskInv
<1>1. Cancel(id) \in RequestSet /\ Cancel(id).type = "CANCEL"
  BY <1>0, RequestTypes DEF Cancel
<1>2. /\ risk' \in RiskSet /\ requests' \in Seq(RequestSet)
      /\ position + risk'.pending["BUY"] <= MaxPosition
      /\ position - risk'.pending["SELL"] >= -MaxPosition
      /\ DOMAIN risk'.reservations \subseteq DOMAIN risk.reservations
  BY <1>0, <1>1, SendLemma
<1>3. Types'
  BY <1>0, <1>2 DEF Types, exchangeVars
<1>4. QuiesceCoversAll'
  BY <1>2, CoverKept
<1> QED
  BY <1>2, <1>3, <1>4 DEF RiskInv, WithinLimits, GateClosed, gateVars

\* The RANDOM generator's cancellation.
LEMMA RandomCancelInv ==
    ASSUME RiskInv, RandomCancel
    PROVE  RiskInv'
<1>1. PICK id \in sent : SendClientRequest(Cancel(id), TRUE)
  BY DEF RandomCancel
<1>2. id \in Nat
  BY DEF RiskInv, Types
<1> QED
  BY <1>1, <1>2, SendCancelInv DEF RandomCancel, mainVars

\* quiesce(): closing the gate, collecting, cancelling, ending.
LEMMA QuiesceInv ==
    ASSUME RiskInv, Quiesce
    PROVE  RiskInv'
<1>1. CASE QuiesceClose
  BY <1>1 DEF QuiesceClose, RiskInv, Types, WithinLimits, GateClosed, QuiesceCoversAll,
              clientVars, exchangeVars
<1>2. CASE QuiesceCollect
  BY <1>2 DEF QuiesceCollect, RiskInv, Types, WithinLimits, GateClosed, QuiesceCoversAll,
              clientVars, gateVars, exchangeVars
<1>3. CASE QuiesceCancel
  <2>1. Min(cancels) \in Nat
    BY <1>3, MinOfIds DEF RiskInv, Types, QuiesceCancel
  <2>2. /\ SendClientRequest(Cancel(Min(cancels)), TRUE)
        /\ cancels' \subseteq cancels
        /\ UNCHANGED <<om, nextId, position, gateVars, sent, phase, listed, exchangeVars, todo,
                       responses>>
    BY <1>3 DEF QuiesceCancel
  <2> QED
    BY <2>1, <2>2, SendCancelInv
<1>4. CASE QuiesceDone
  BY <1>4 DEF QuiesceDone, RiskInv, Types, WithinLimits, GateClosed, QuiesceCoversAll,
              clientVars, gateVars, exchangeVars
<1>5. CASE QuiesceGiveUp
  BY <1>5 DEF QuiesceGiveUp, RiskInv, Types, WithinLimits, GateClosed, QuiesceCoversAll,
              clientVars, gateVars, exchangeVars
<1> QED
  BY <1>1, <1>2, <1>3, <1>4, <1>5 DEF Quiesce

\* A reply is a response.
LEMMA ReplyLemma ==
    ASSUME Types, NEW type \in ResponseTypes, NEW r, r.id \in Nat, r.side \in Sides,
           NEW exec \in Nat, NEW leaves \in Nat, Reply(type, r, exec, leaves)
    PROVE  responses' \in Seq(ResponseSet) /\ issued' \in Nat
<1>1. Response(type, r, exec, leaves) \in ResponseSet
  BY DEF Response, ResponseSet, Types
<1> QED
  BY <1>1, AppendProperties DEF Reply, Types

\* The exchange takes a request.
LEMMA ExchangeRequestInv ==
    ASSUME RiskInv, ExchangeRequest
    PROVE  RiskInv'
<1>0. Types /\ requests \in Seq(RequestSet) /\ book \in Orders
  BY DEF RiskInv, Types
<1>1. PICK i \in Arrival :
         LET r == requests[i] IN
         /\ requests' = SubSeq(requests, 1, i - 1) \o SubSeq(requests, i + 1, Len(requests))
         /\ reordered' = (reordered \/ i # 1)
         /\ \/ /\ r.type = "NEW"
               /\ book' = With(book, r.id, [side |-> r.side, qty |-> r.qty])
               /\ Reply("ACCEPTED", r, 0, r.qty)
            \/ /\ r.type = "NEW"
               /\ Reply("REJECTED", r, 0, 0)
               /\ UNCHANGED book
            \/ /\ r.type = "CANCEL" /\ r.id \in DOMAIN book
               /\ book' = Without(book, r.id)
               /\ Reply("CANCELED", r, 0, book[r.id].qty)
            \/ /\ r.type = "CANCEL" /\ r.id \notin DOMAIN book
               /\ Reply("CANCEL_REJECTED", r, 0, 0)
               /\ UNCHANGED book
  BY DEF ExchangeRequest
<1> DEFINE r == requests[i]
<1>2. i \in 1 .. Len(requests) /\ r \in RequestSet
  BY <1>0, ElementOfSeq, LenProperties DEF Arrival
<1>3. /\ r.id \in Nat /\ r.side \in Sides /\ r.qty \in Nat
      /\ r.type = "NEW" => [side |-> r.side, qty |-> r.qty] \in Order
  BY <1>2 DEF RequestSet, NewSet, CancelSet, Order
<1>4. requests' \in Seq(RequestSet)
  <2>1. SubSeq(requests, 1, i - 1) \in Seq(RequestSet)
    BY <1>0, <1>2, SubSeqProperties
  <2>2. SubSeq(requests, i + 1, Len(requests)) \in Seq(RequestSet)
    BY <1>0, <1>2, SubSeqProperties
  <2> QED
    BY <1>1, <2>1, <2>2, ConcatProperties
<1> HIDE DEF r
<1>5. book' \in Orders /\ responses' \in Seq(ResponseSet) /\ issued' \in Nat
  <2>1. CASE /\ r.type = "NEW"
             /\ book' = With(book, r.id, [side |-> r.side, qty |-> r.qty])
             /\ Reply("ACCEPTED", r, 0, r.qty)
    BY <1>0, <1>3, <2>1, WithType, ReplyLemma DEF ResponseTypes
  <2>2. CASE Reply("REJECTED", r, 0, 0) /\ UNCHANGED book
    BY <1>0, <1>3, <2>2, ReplyLemma DEF ResponseTypes
  <2>3. CASE /\ r.id \in DOMAIN book
             /\ book' = Without(book, r.id)
             /\ Reply("CANCELED", r, 0, book[r.id].qty)
    <3>1. book[r.id].qty \in Nat
      BY <1>0, <2>3, OrdersElement DEF Order
    <3> QED
      BY <1>0, <1>3, <2>3, <3>1, WithoutType, ReplyLemma DEF ResponseTypes
  <2>4. CASE Reply("CANCEL_REJECTED", r, 0, 0) /\ UNCHANGED book
    BY <1>0, <1>3, <2>4, ReplyLemma DEF ResponseTypes
  <2> QED
    BY <1>1, <2>1, <2>2, <2>3, <2>4 DEF r
<1>6. UNCHANGED <<clientVars, gateVars, mainVars, todo>>
  BY DEF ExchangeRequest
<1>7. Types'
  BY <1>0, <1>4, <1>5, <1>6 DEF Types, clientVars, mainVars
<1> QED
  BY <1>6, <1>7 DEF RiskInv, WithinLimits, GateClosed, QuiesceCoversAll, clientVars, gateVars,
                    mainVars

\* The exchange fills an order.
LEMMA ExchangeFillInv ==
    ASSUME RiskInv, ExchangeFill
    PROVE  RiskInv'
<1>0. Types /\ book \in Orders
  BY DEF RiskInv, Types
<1>a. PICK id \in DOMAIN book : \E q \in 1 .. book[id].qty :
         /\ book' = IF q = book[id].qty THEN Without(book, id)
                    ELSE [book EXCEPT ![id].qty = @ - q]
         /\ Reply("FILLED", [id |-> id, side |-> book[id].side], q, book[id].qty - q)
  BY DEF ExchangeFill
<1>1. PICK q \in 1 .. book[id].qty :
         /\ book' = IF q = book[id].qty THEN Without(book, id)
                    ELSE [book EXCEPT ![id].qty = @ - q]
         /\ Reply("FILLED", [id |-> id, side |-> book[id].side], q, book[id].qty - q)
  BY <1>a
<1>2. book[id] \in Order /\ id \in Nat
  BY <1>0, OrdersElement
<1>3. q \in Nat /\ book[id].qty - q \in Nat
  BY <1>2 DEF Order
<1>4. book' \in Orders
  <2>1. CASE q = book[id].qty
    BY <1>0, <1>1, <2>1, WithoutType
  <2>2. CASE q # book[id].qty
    <3>1. book' \in [DOMAIN book -> Order]
      BY <1>0, <1>1, <1>2, <2>2, OrdersElement DEF Order
    <3>2. DOMAIN book \in SUBSET Nat
      BY <1>0, OrdersElement
    <3> QED
      BY <3>1, <3>2, OrdersIntro
  <2> QED
    BY <2>1, <2>2
<1>5. responses' \in Seq(ResponseSet) /\ issued' \in Nat
  <2> DEFINE x == [id |-> id, side |-> book[id].side]
  <2>1. x.id \in Nat /\ x.side \in Sides
    BY <1>2 DEF Order
  <2>2. Reply("FILLED", x, q, book[id].qty - q)
    BY <1>1
  <2> HIDE DEF x
  <2> QED
    BY <1>0, <1>3, <2>1, <2>2, ReplyLemma DEF ResponseTypes
<1>6. UNCHANGED <<clientVars, gateVars, mainVars, todo, requests>>
  BY DEF ExchangeFill
<1>7. Types'
  BY <1>0, <1>4, <1>5, <1>6 DEF Types, clientVars, mainVars
<1> QED
  BY <1>6, <1>7 DEF RiskInv, WithinLimits, GateClosed, QuiesceCoversAll, clientVars, gateVars,
                    mainVars
--------------------------------------------------------------------------------
\* A client that has just started satisfies the invariant.
LEMMA InitRiskInv == Init => RiskInv
<1> SUFFICES ASSUME Init PROVE RiskInv
  OBVIOUS
<1>1. <<>> \in Orders /\ DOMAIN <<>> = {}
  <2>1. <<>> \in [{} -> Order]
    OBVIOUS
  <2> QED
    BY <2>1, OrdersIntro
<1>2. risk \in RiskSet /\ DOMAIN risk.reservations = {}
      /\ risk.pending = [s \in Sides |-> 0]
  BY <1>1 DEF Init, RiskSet
<1>3. om \in [Sides -> OMOrder]
  BY DEF Init, OMOrder, States
<1>4. /\ requests \in Seq(RequestSet) /\ responses \in Seq(ResponseSet)
  BY EmptySeq DEF Init
<1>5. Types
  BY <1>1, <1>2, <1>3, <1>4 DEF Init, Types
<1>6. WithinLimits
  BY <1>2, TradeEngineAssumption DEF Init, WithinLimits, Sides
<1> QED
  BY <1>5, <1>6 DEF Init, RiskInv, GateClosed, QuiesceCoversAll

\* The limits on the position hold together with every open order filled, and
\* the gate stays closed behind quiesce(), in every reachable state.
THEOREM RiskInductive == Spec => []RiskInv
<1>1. RiskInv /\ [Next]_vars => RiskInv'
  <2> SUFFICES ASSUME RiskInv, [Next]_vars PROVE RiskInv'
    OBVIOUS
  <2>1. CASE \E quote \in Quotes : MoveBid(quote[1], quote[2])
    BY <2>1, MoveBidInv
  <2>2. CASE MoveAsk
    BY <2>2, MoveAskInv
  <2>3. CASE OnOrderUpdate
    BY <2>3, OnOrderUpdateInv
  <2>4. CASE RandomNew
    BY <2>4, RandomNewInv
  <2>5. CASE RandomCancel
    BY <2>5, RandomCancelInv
  <2>6. CASE Quiesce
    BY <2>6, QuiesceInv
  <2>7. CASE ExchangeRequest
    BY <2>7, ExchangeRequestInv
  <2>8. CASE ExchangeFill
    BY <2>8, ExchangeFillInv
  <2>9. CASE MarketChanges
    BY <2>9 DEF MarketChanges, RiskInv, Types, WithinLimits, GateClosed, QuiesceCoversAll,
                clientVars, mainVars, exchangeVars
  <2>10. CASE SessionLost
    BY <2>10 DEF SessionLost, RiskInv, Types, WithinLimits, GateClosed, QuiesceCoversAll,
                 clientVars, mainVars, exchangeVars
  <2>11. CASE UNCHANGED vars
    BY <2>11 DEF vars, RiskInv, Types, WithinLimits, GateClosed, QuiesceCoversAll, clientVars,
                 gateVars, mainVars, exchangeVars
  <2> QED
    BY <2>1, <2>2, <2>3, <2>4, <2>5, <2>6, <2>7, <2>8, <2>9, <2>10, <2>11 DEF Next
<1> QED
  BY <1>1, InitRiskInv, PTL DEF Spec

\* checkPreTradeRisk and the reservations keep position_ plus all open buys, and
\* minus all open sells, within max_position_, whatever order requests are
\* taken, rejected, filled, cancelled and answered in.
THEOREM LimitsHold == Spec => []WithinLimits
<1>1. RiskInv => WithinLimits
  BY DEF RiskInv
<1> QED
  BY <1>1, RiskInductive, PTL

\* After quiesce() has collected its cancellations, the engine thread and the
\* generator can add no order that is not among them.
THEOREM QuiesceIsComplete == Spec => []QuiesceCoversAll
<1>1. RiskInv => QuiesceCoversAll
  BY DEF RiskInv
<1> QED
  BY <1>1, RiskInductive, PTL
--------------------------------------------------------------------------------
(* The steps of the client, by what they do to its orders.                     *)

\* rollback() after reserve() restores the RiskManager exactly.
LEMMA RollbackRestores ==
    ASSUME NEW k \in RiskSet, NEW r \in NewSet, r.id \notin DOMAIN k.reservations
    PROVE  Rollback(Reserve(k, r), r) = k
<1> DEFINE v == [side |-> r.side, qty |-> r.qty]
<1>1. PICK f \in Orders : f = With(k.reservations, r.id, v)
  <2>1. v \in Order /\ r.id \in Nat /\ k.reservations \in Orders
    BY DEF NewSet, Order, RiskSet
  <2> HIDE DEF v
  <2> QED
    BY <2>1, WithType
<1>2. PICK g : g = [k.pending EXCEPT ![r.side] = @ + r.qty]
  OBVIOUS
<1>3. Reserve(k, r) = [reservations |-> f, pending |-> g]
  BY <1>1, <1>2 DEF Reserve, NewSet
<1>4. k.reservations \in Orders /\ k.pending \in [Sides -> Int]
  BY DEF RiskSet
<1>5. DOMAIN f = DOMAIN k.reservations \cup {r.id} /\ f[r.id] = v
  BY <1>1 DEF With
<1>6. Without(f, r.id) = k.reservations
  <2>1. DOMAIN Without(f, r.id) = DOMAIN k.reservations
    BY <1>5 DEF Without
  <2>2. \A x \in DOMAIN k.reservations : Without(f, r.id)[x] = k.reservations[x]
    BY <1>1, <1>5 DEF Without, With
  <2>3. k.reservations = [x \in DOMAIN k.reservations |-> k.reservations[x]]
    BY <1>4, OrdersElement
  <2>4. Without(f, r.id) = [x \in DOMAIN k.reservations |-> Without(f, r.id)[x]]
    BY <2>1 DEF Without
  <2> QED
    BY <2>2, <2>3, <2>4
<1>7. [g EXCEPT ![r.side] = @ - r.qty] = k.pending
  <2>1. r.side \in Sides /\ r.qty \in Int
    BY DEF NewSet
  <2>2. g \in [Sides -> Int] /\ \A s \in Sides :
           g[s] = IF s = r.side THEN k.pending[s] + r.qty ELSE k.pending[s]
    BY <1>2, <1>4, <2>1
  <2>3. [g EXCEPT ![r.side] = @ - r.qty] \in [Sides -> Int]
        /\ \A s \in Sides : [g EXCEPT ![r.side] = @ - r.qty][s] = k.pending[s]
    BY <1>4, <2>1, <2>2
  <2> QED
    BY <1>4, <2>3
<1>8. Rollback(Reserve(k, r), r) = [reservations |-> Without(f, r.id),
                                    pending |-> [g EXCEPT ![r.side] = @ - r.qty]]
  BY <1>3, <1>5 DEF Rollback, NewSet
<1> QED
  BY <1>6, <1>7, <1>8 DEF RiskSet

\* sendClientRequest, by its outcome.
Goes(r) ==
    /\ Len(requests) < RequestCapacity
    /\ requests' = Append(requests, r)
    /\ \/ r.type = "CANCEL" /\ risk' = risk
       \/ r \in NewSet /\ r.id \notin DOMAIN risk.reservations /\ risk' = Reserve(risk, r)

\* A request that is not sent leaves no trace.
LEMMA SendKinds ==
    ASSUME Types, NEW r \in RequestSet, NEW solvent, SendClientRequest(r, solvent)
    PROVE  \/ ~Sent(r, solvent) /\ UNCHANGED <<risk, requests>>
           \/ Sent(r, solvent) /\ Goes(r)
<1>0. risk \in RiskSet
  BY DEF Types
<1>1. CASE Sent(r, solvent)
  <2>1. risk' = Reserve(risk, r) /\ requests' = Append(requests, r) /\ Len(requests) < RequestCapacity
    BY <1>1 DEF SendClientRequest, Sent
  <2>2. CASE r.type = "CANCEL"
    BY <1>1, <2>1, <2>2 DEF Reserve, Goes
  <2>3. CASE r.type = "NEW"
    <3>1. r.id \notin DOMAIN risk.reservations /\ r \in NewSet
      BY <1>1, <2>3 DEF Sent, Admitted, RequestSet, CancelSet
    <3> QED
      BY <1>1, <2>1, <3>1 DEF Goes
  <2> QED
    BY <2>2, <2>3 DEF RequestSet, NewSet, CancelSet
<1>2. CASE ~Sent(r, solvent)
  <2>1. requests' = requests
    BY <1>2 DEF SendClientRequest
  <2>2. risk' = risk
    <3>1. CASE ~Admitted(r, solvent)
      BY <3>1 DEF SendClientRequest
    <3>2. CASE Admitted(r, solvent) /\ r.type = "CANCEL"
      BY <1>2, <3>2 DEF SendClientRequest, Reserve, Rollback
    <3>3. CASE Admitted(r, solvent) /\ r.type = "NEW"
      <4>1. r \in NewSet /\ r.id \notin DOMAIN risk.reservations
        BY <3>3 DEF Admitted, RequestSet, CancelSet
      <4>2. risk' = Rollback(Reserve(risk, r), r)
        BY <1>2, <3>3 DEF SendClientRequest
      <4> QED
        BY <1>0, <4>1, <4>2, RollbackRestores
    <3> QED
      BY <3>1, <3>2, <3>3 DEF RequestSet, NewSet, CancelSet
  <2> QED
    BY <1>2, <2>1, <2>2
<1> QED
  BY <1>1, <1>2

\* The main thread's sets, the flags and the algorithm.
MainInv ==
    /\ reconciled \in BOOLEAN /\ admitting \in BOOLEAN /\ ready \in BOOLEAN
    /\ session \in BOOLEAN /\ reordered \in BOOLEAN /\ algo \in Algos
    /\ phase \in {"running", "closing", "cancelling", "unknown", "done"}
    /\ sent \subseteq 1 .. nextId - 1 /\ cancels \subseteq 1 .. nextId - 1
    /\ cancels \subseteq listed
    /\ filled \in Int

\* Ids are given out once: no two orders have the same.
IdInv ==
    /\ nextId \in Nat \ {0}
    /\ \A s \in Sides : om[s].id < nextId
    /\ om["BUY"].id = om["SELL"].id => om["BUY"].id = 0
    /\ DOMAIN risk.reservations \subseteq 1 .. nextId - 1
    /\ Len(requests) <= RequestCapacity

Quiet == UNCHANGED <<om, risk, requests>> /\ nextId' \in {nextId, nextId + 1}

CancelSent(id) ==
    /\ id \in 0 .. nextId - 1 /\ Goes(Cancel(id)) /\ nextId' = nextId
    /\ \/ UNCHANGED om
       \/ \E s \in Sides : om[s].state = "LIVE" /\ om' = [om EXCEPT ![s].state = "PENDING_CANCEL"]

Pending(price, q) == [id |-> nextId, price |-> price, qty |-> q, state |-> "PENDING_NEW"]

OrderSent(s, q) ==
    /\ Goes(New(nextId, s, q)) /\ nextId' = nextId + 1
    /\ \/ algo = "RANDOM" /\ UNCHANGED om
       \/ /\ om[s].state \in {"INVALID", "DEAD"}
          /\ \E price \in Prices : om' = [om EXCEPT ![s] = Pending(price, q)]

\* Whatever the client does of its own accord.
ClientStep ==
    /\ \/ Quiet
       \/ \E id \in Nat : CancelSent(id)
       \/ \E s \in Sides, q \in Nat \ {0} : OrderSent(s, q)
    /\ UNCHANGED <<position, reconciled, lastId, algo, exchangeVars, responses>>

LEMMA MoveOrderKinds ==
    ASSUME Types, IdInv, NEW s \in Sides, NEW price \in Prices \cup {NoPrice},
           NEW solvent \in BOOLEAN, MoveOrder(s, price, solvent)
    PROVE  \/ Quiet
           \/ \E id \in Nat : CancelSent(id)
           \/ \E q \in Nat \ {0} : OrderSent(s, q)
<1>0. om[s] \in OMOrder /\ nextId \in Nat /\ om[s].id \in 0 .. nextId - 1
  BY DEF Types, IdInv, OMOrder
<1>1. New(nextId, s, Clip) \in RequestSet /\ Cancel(om[s].id) \in RequestSet
  BY <1>0, RequestTypes, TradeEngineAssumption
<1>2. CASE om[s].state = "LIVE" /\ CancelOrder(s, solvent)
  <2> DEFINE c == Cancel(om[s].id)
  <2>1. /\ SendClientRequest(c, solvent)
        /\ om' = IF Sent(c, solvent) THEN [om EXCEPT ![s].state = "PENDING_CANCEL"] ELSE om
        /\ nextId' = nextId
    BY <1>2 DEF CancelOrder
  <2>2. \/ ~Sent(c, solvent) /\ UNCHANGED <<risk, requests>>
        \/ Sent(c, solvent) /\ Goes(c)
    BY <1>1, <2>1, SendKinds
  <2>3. CASE ~Sent(c, solvent) /\ UNCHANGED <<risk, requests>>
    BY <2>1, <2>3 DEF Quiet
  <2>4. CASE Sent(c, solvent) /\ Goes(c)
    <3>1. CancelSent(om[s].id)
      BY <1>0, <1>2, <2>1, <2>4 DEF CancelSent
    <3> QED
      BY <1>0, <3>1
  <2> QED
    BY <2>2, <2>3, <2>4
<1>3. CASE om[s].state \in {"INVALID", "DEAD"} /\ price # NoPrice /\ NewOrder(s, price, solvent)
  <2> DEFINE n == New(nextId, s, Clip)
  <2>1. /\ SendClientRequest(n, solvent)
        /\ om' = IF Sent(n, solvent) THEN [om EXCEPT ![s] = Pending(price, Clip)] ELSE om
        /\ nextId' = IF Sent(n, solvent) THEN nextId + 1 ELSE nextId
    BY <1>3 DEF NewOrder, Pending
  <2>2. \/ ~Sent(n, solvent) /\ UNCHANGED <<risk, requests>>
        \/ Sent(n, solvent) /\ Goes(n)
    BY <1>1, <2>1, SendKinds
  <2>3. CASE ~Sent(n, solvent) /\ UNCHANGED <<risk, requests>>
    BY <2>1, <2>3 DEF Quiet
  <2>4. CASE Sent(n, solvent) /\ Goes(n)
    <3>1. OrderSent(s, Clip)
      BY <1>3, <2>1, <2>4 DEF OrderSent
    <3> QED
      BY <3>1, TradeEngineAssumption
  <2> QED
    BY <2>2, <2>3, <2>4
<1>4. CASE UNCHANGED <<om, nextId, risk, requests>>
  BY <1>4 DEF Quiet
<1> QED
  BY <1>2, <1>3, <1>4 DEF MoveOrder

\* Every step is the client's, an answer to it, or the exchange's.
LEMMA Kinds ==
    ASSUME Types, MainInv, IdInv, [Next]_vars
    PROVE  ClientStep \/ OnOrderUpdate \/ ExchangeRequest \/ ExchangeFill
<1>0. nextId \in Nat
  BY DEF Types
<1>1. ASSUME NEW quote \in Quotes, MoveBid(quote[1], quote[2]) PROVE ClientStep
  <2>1. quote[1] \in Prices \cup {NoPrice}
    BY DEF Quotes, MakerQuotes, TakerQuotes
  <2>2. PICK solvent \in BOOLEAN : MoveOrder("BUY", quote[1], solvent)
    BY <1>1 DEF MoveBid
  <2>3. \/ Quiet
        \/ \E id \in Nat : CancelSent(id)
        \/ \E q \in Nat \ {0} : OrderSent("BUY", q)
    BY <2>1, <2>2, MoveOrderKinds DEF Sides
  <2>4. UNCHANGED <<position, reconciled, lastId, algo, exchangeVars, responses>>
    BY <1>1 DEF MoveBid, gateVars
  <2> QED
    BY <2>3, <2>4 DEF ClientStep, Sides
<1>2. CASE MoveAsk
  <2>1. todo \in Prices \cup {NoPrice}
    BY <1>2 DEF MoveAsk, Types
  <2>2. PICK solvent \in BOOLEAN : MoveOrder("SELL", todo, solvent)
    BY <1>2 DEF MoveAsk
  <2>3. \/ Quiet
        \/ \E id \in Nat : CancelSent(id)
        \/ \E q \in Nat \ {0} : OrderSent("SELL", q)
    BY <2>1, <2>2, MoveOrderKinds DEF Sides
  <2>4. UNCHANGED <<position, reconciled, lastId, algo, exchangeVars, responses>>
    BY <1>2 DEF MoveAsk, gateVars
  <2> QED
    BY <2>3, <2>4 DEF ClientStep, Sides
<1>3. CASE RandomNew
  <2>1. PICK s \in Sides, q \in Quantities, solvent \in BOOLEAN :
           SendClientRequest(New(nextId, s, q), solvent)
    BY <1>3 DEF RandomNew
  <2>2. q \in Nat \ {0}
    BY TradeEngineAssumption
  <2>3. New(nextId, s, q) \in RequestSet
    BY <1>0, <2>2, RequestTypes
  <2>4. /\ algo = "RANDOM" /\ nextId' = nextId + 1
        /\ UNCHANGED <<om, position, reconciled, lastId, algo, exchangeVars, responses>>
    BY <1>3 DEF RandomNew, gateVars
  <2>5. CASE UNCHANGED <<risk, requests>>
    BY <2>4, <2>5 DEF ClientStep, Quiet
  <2>6. CASE Goes(New(nextId, s, q))
    <3>1. OrderSent(s, q)
      BY <2>4, <2>6 DEF OrderSent
    <3> QED
      BY <2>2, <2>4, <3>1 DEF ClientStep
  <2> QED
    BY <2>1, <2>3, <2>5, <2>6, SendKinds
<1>4. ASSUME NEW id \in 1 .. nextId - 1, SendClientRequest(Cancel(id), TRUE),
             UNCHANGED <<om, nextId, position, reconciled, lastId, algo, exchangeVars, responses>>
      PROVE  ClientStep
  <2>1. id \in Nat /\ Cancel(id) \in RequestSet
    BY <1>0, RequestTypes
  <2>2. CASE UNCHANGED <<risk, requests>>
    BY <1>4, <2>2 DEF ClientStep, Quiet
  <2>3. CASE Goes(Cancel(id))
    <3>1. CancelSent(id)
      BY <1>0, <1>4, <2>3 DEF CancelSent
    <3> QED
      BY <1>4, <2>1, <3>1 DEF ClientStep
  <2> QED
    BY <1>4, <2>1, <2>2, <2>3, SendKinds
<1>5. CASE RandomCancel
  <2>1. PICK id \in sent : SendClientRequest(Cancel(id), TRUE)
    BY <1>5 DEF RandomCancel
  <2>2. id \in 1 .. nextId - 1
    BY DEF MainInv
  <2>3. UNCHANGED <<om, nextId, position, reconciled, lastId, algo, exchangeVars, responses>>
    BY <1>5 DEF RandomCancel, gateVars
  <2> QED
    BY <1>4, <2>1, <2>2, <2>3
<1>6. CASE QuiesceCancel
  <2>1. SendClientRequest(Cancel(Min(cancels)), TRUE)
    BY <1>6 DEF QuiesceCancel
  <2>2. Min(cancels) \in cancels
    BY <1>6, MinOfIds DEF Types, QuiesceCancel
  <2>3. UNCHANGED <<om, nextId, position, reconciled, lastId, algo, exchangeVars, responses>>
    BY <1>6 DEF QuiesceCancel, gateVars
  <2>4. Min(cancels) \in 1 .. nextId - 1
    BY <2>2 DEF MainInv
  <2> QED
    BY <1>4, <2>1, <2>3, <2>4
<1>7. CASE \/ QuiesceClose \/ QuiesceCollect \/ QuiesceDone \/ QuiesceGiveUp
           \/ MarketChanges \/ SessionLost \/ UNCHANGED vars
  <2>1. UNCHANGED <<clientVars, algo, exchangeVars, requests, responses>>
    BY <1>7 DEF QuiesceClose, QuiesceCollect, QuiesceDone, QuiesceGiveUp, MarketChanges,
                SessionLost, vars, gateVars
  <2> QED
    BY <2>1 DEF ClientStep, Quiet, clientVars
<1> QED
  BY <1>1, <1>2, <1>3, <1>5, <1>6, <1>7 DEF Next, Quiesce
--------------------------------------------------------------------------------
(* The ids, the sets of the main thread and TypeOK.                            *)

\* The reservations after a new order is sent.
LEMMA PlacedFacts ==
    ASSUME Types, NEW s \in Sides, NEW q \in Nat \ {0}, Goes(New(nextId, s, q))
    PROVE  /\ nextId \notin DOMAIN risk.reservations
           /\ risk'.reservations = With(risk.reservations, nextId, [side |-> s, qty |-> q])
           /\ risk'.pending = [risk.pending EXCEPT ![s] = @ + q]
           /\ requests' = Append(requests, New(nextId, s, q))
           /\ New(nextId, s, q) \in NewSet
           /\ [side |-> s, qty |-> q] \in Order
BY DEF Types, Goes, New, Reserve, Order, NewSet

\* A cancellation changes no reservation.
LEMMA CanceledFacts ==
    ASSUME NEW id, Goes(Cancel(id))
    PROVE  risk' = risk /\ requests' = Append(requests, Cancel(id))
BY DEF Goes, Cancel, NewSet

\* Orders keep their ids.
LEMMA OrderUpdateId ==
    ASSUME NEW o \in OMOrder, NEW r \in ResponseSet
    PROVE  OrderUpdate(o, r).id = o.id
BY DEF OrderUpdate, OMOrder, ResponseSet, ResponseTypes

\* onOrderUpdate, by its outcome, with r the response.
Applied(r) ==
    /\ Agrees(risk, r)
    /\ lastId' = r.rid
    /\ risk' = Release(risk, r)
    /\ position' = IF r.type = "FILLED" THEN position + SideValue(r.side) * r.exec ELSE position
    /\ om' = [s \in Sides |-> IF om[s].id = r.id THEN OrderUpdate(om[s], r) ELSE om[s]]
    /\ UNCHANGED <<nextId, reconciled>>

Contradicts(r) ==
    /\ ~Agrees(risk, r)
    /\ lastId' = r.rid
    /\ reconciled' = FALSE
    /\ UNCHANGED <<om, nextId, risk, position>>

Answered(r) ==
    /\ r \in ResponseSet
    /\ responses # <<>> /\ r = Head(responses) /\ responses' \in {responses, Tail(responses)}
    /\ \/ r.rid <= lastId /\ UNCHANGED clientVars
       \/ r.rid > lastId /\ Contradicts(r)
       \/ r.rid > lastId /\ Applied(r)
    /\ UNCHANGED <<gateVars, mainVars, exchangeVars, todo, requests>>

LEMMA AnswerKinds ==
    ASSUME Types, OnOrderUpdate
    PROVE  \E r : Answered(r)
<1>1. Head(responses) \in ResponseSet /\ responses' \in {responses, Tail(responses)}
  <2>1. responses \in Seq(ResponseSet) /\ responses # <<>>
    BY DEF OnOrderUpdate, Types
  <2> QED
    BY <2>1, HeadTailProperties DEF OnOrderUpdate
<1>2. Answered(Head(responses))
  BY <1>1 DEF OnOrderUpdate, Answered, Contradicts, Applied
<1> QED
  BY <1>2

\* Ids are given out once.
LEMMA IdInvKept ==
    ASSUME Types, MainInv, IdInv, [Next]_vars
    PROVE  IdInv' /\ nextId' \in {nextId, nextId + 1}
<1>0. /\ nextId \in Nat \ {0} /\ om \in [Sides -> OMOrder] /\ requests \in Seq(RequestSet)
      /\ risk \in RiskSet /\ RequestCapacity \in Nat
  BY TradeEngineAssumption DEF Types, IdInv
<1>1. CASE ClientStep
  <2>1. CASE Quiet
    <3>1. \A s \in Sides : om[s].id \in Nat /\ om[s].id < nextId
      BY <1>0 DEF IdInv, OMOrder
    <3>2. UNCHANGED <<om, risk, requests>> /\ nextId' \in {nextId, nextId + 1}
      BY <2>1 DEF Quiet
    <3>3. \A s \in Sides : om'[s].id < nextId'
      BY <1>0, <3>1, <3>2
    <3>4. DOMAIN risk'.reservations \subseteq 1 .. nextId' - 1 /\ nextId' \in Nat \ {0}
      BY <1>0, <3>2 DEF IdInv
    <3> QED
      BY <3>2, <3>3, <3>4 DEF IdInv
  <2>2. ASSUME NEW id \in Nat, CancelSent(id) PROVE IdInv' /\ nextId' = nextId
    <3>1. risk' = risk /\ requests' = Append(requests, Cancel(id)) /\ Len(requests) < RequestCapacity
          /\ nextId' = nextId
      BY <2>2, CanceledFacts DEF CancelSent, Goes
    <3>2. Len(requests') <= RequestCapacity
      BY <1>0, <3>1, LenProperties
    <3>3. om' \in [Sides -> OMOrder] /\ \A s \in Sides : om'[s].id = om[s].id
      <4>1. CASE UNCHANGED om
        BY <1>0, <4>1
      <4>2. ASSUME NEW z \in Sides, om' = [om EXCEPT ![z].state = "PENDING_CANCEL"]
            PROVE  om' \in [Sides -> OMOrder] /\ \A s \in Sides : om'[s].id = om[s].id
        BY <1>0, <4>2 DEF OMOrder, States
      <4> QED
        BY <2>2, <4>1, <4>2 DEF CancelSent
    <3> QED
      BY <3>1, <3>2, <3>3 DEF IdInv, Sides
  <2>3. ASSUME NEW s \in Sides, NEW q \in Nat \ {0}, OrderSent(s, q)
        PROVE  IdInv' /\ nextId' = nextId + 1
    <3>1. /\ risk'.reservations = With(risk.reservations, nextId, [side |-> s, qty |-> q])
          /\ requests' = Append(requests, New(nextId, s, q)) /\ nextId' = nextId + 1
          /\ Len(requests) < RequestCapacity
      BY <2>3, PlacedFacts DEF OrderSent, Goes
    <3>2. Len(requests') <= RequestCapacity
      BY <1>0, <3>1, LenProperties
    <3>3. DOMAIN risk'.reservations \subseteq 1 .. nextId' - 1
      BY <1>0, <3>1 DEF With, IdInv
    <3>4. \/ om' = om
          \/ \A z \in Sides : om'[z].id = IF z = s THEN nextId ELSE om[z].id
      BY <1>0, <2>3 DEF OrderSent, Pending
    <3>5. \A z \in Sides : om[z].id \in Nat /\ om[z].id < nextId
      BY <1>0 DEF IdInv, OMOrder
    <3>6. /\ \A z \in Sides : om'[z].id < nextId'
          /\ om'["BUY"].id = om'["SELL"].id => om'["BUY"].id = 0
      BY <1>0, <3>1, <3>4, <3>5 DEF IdInv, Sides
    <3> QED
      BY <1>0, <3>1, <3>2, <3>3, <3>6 DEF IdInv
  <2> QED
    BY <1>0, <1>1, <2>1, <2>2, <2>3 DEF ClientStep, Quiet
<1>2. CASE OnOrderUpdate
  <2>1. PICK r : Answered(r)
    BY <1>2, AnswerKinds
  <2>2. r \in ResponseSet /\ nextId' = nextId /\ requests' = requests
    BY <2>1 DEF Answered, Applied, Contradicts, clientVars
  <2>3. CASE UNCHANGED <<om, risk>>
    BY <2>2, <2>3 DEF IdInv
  <2>4. CASE Applied(r)
    <3>1. DOMAIN risk'.reservations \subseteq DOMAIN risk.reservations
      BY <1>0, <2>2, <2>4, ReleaseLemma DEF Applied
    <3>2. \A s \in Sides : om'[s].id = om[s].id
      BY <1>0, <2>2, <2>4, OrderUpdateId DEF Applied
    <3> QED
      BY <2>2, <3>1, <3>2 DEF IdInv, Sides
  <2> QED
    BY <2>1, <2>2, <2>3, <2>4 DEF Answered, Contradicts, clientVars
<1>3. CASE ExchangeRequest
  <2>1. PICK i \in 1 .. Len(requests) : requests' = RemoveAt(requests, i)
    BY <1>0, <1>3, LenProperties DEF ExchangeRequest, Arrival, RemoveAt
  <2>2. Len(requests') = Len(requests) - 1
    BY <1>0, <2>1, RemoveAtLemma
  <2>5. Len(requests') <= RequestCapacity
    BY <1>0, <2>2, LenProperties DEF IdInv
  <2>6. UNCHANGED <<om, nextId, risk>>
    BY <1>3 DEF ExchangeRequest, clientVars
  <2> QED
    BY <2>5, <2>6 DEF IdInv
<1>4. CASE ExchangeFill
  BY <1>4 DEF ExchangeFill, IdInv, clientVars
<1> QED
  BY <1>1, <1>2, <1>3, <1>4, Kinds

\* The main thread only ever handles ids that were given out.
LEMMA MainInvKept ==
    ASSUME Types, MainInv, IdInv, [Next]_vars
    PROVE  MainInv'
<1>0. nextId \in Nat /\ nextId' \in {nextId, nextId + 1}
  BY IdInvKept DEF Types
<1>1. /\ sent \subseteq 1 .. nextId - 1 /\ cancels \subseteq 1 .. nextId - 1
      /\ cancels \subseteq listed /\ DOMAIN risk.reservations \subseteq 1 .. nextId - 1
  BY DEF MainInv, IdInv
<1>2. 1 .. nextId - 1 \subseteq 1 .. nextId' - 1
  <2>1. PICK k \in Nat : k = nextId
    BY <1>0
  <2>2. PICK m \in Nat : m = nextId'
    BY <1>0
  <2>3. k <= m
    BY <1>0, <2>1, <2>2
  <2>4. \A n \in Int : n \in 1 .. k - 1 => n \in 1 .. m - 1
    BY <2>3
  <2>5. 1 .. k - 1 \subseteq 1 .. m - 1
    BY <2>4
  <2> QED
    BY <2>1, <2>2, <2>5, Zenon
<1>3. sent' \subseteq 1 .. nextId' - 1 /\ cancels' \subseteq 1 .. nextId' - 1 /\ cancels' \subseteq listed'
  <2>1. CASE UNCHANGED <<sent, cancels, listed>>
    BY <1>1, <1>2, <2>1
  <2>2. CASE RandomNew
    <3>1. /\ nextId' = nextId + 1 /\ sent' \subseteq sent \cup {nextId}
          /\ UNCHANGED <<cancels, listed>>
      BY <2>2 DEF RandomNew
    <3>2. nextId \in 1 .. nextId' - 1
      BY <3>1 DEF IdInv
    <3> QED
      BY <1>1, <1>2, <3>1, <3>2
  <2>3. CASE QuiesceCollect
    BY <1>1, <1>2, <2>3 DEF QuiesceCollect
  <2>4. CASE QuiesceCancel
    <3>1. cancels' \subseteq cancels /\ UNCHANGED <<sent, listed>>
      BY <2>4 DEF QuiesceCancel
    <3> QED
      BY <1>1, <1>2, <3>1
  <2>5. CASE \/ \E quote \in Quotes : MoveBid(quote[1], quote[2])
             \/ MoveAsk \/ OnOrderUpdate \/ RandomCancel \/ QuiesceClose \/ QuiesceDone
             \/ QuiesceGiveUp \/ ExchangeRequest \/ ExchangeFill \/ MarketChanges
             \/ SessionLost \/ UNCHANGED vars
    <3>1. UNCHANGED <<sent, cancels, listed>>
      BY <2>5 DEF MoveBid, MoveAsk, OnOrderUpdate, RandomCancel, QuiesceClose, QuiesceDone,
                  QuiesceGiveUp, ExchangeRequest, ExchangeFill, MarketChanges, SessionLost,
                  vars, mainVars
    <3> QED
      BY <2>1, <3>1
  <2> QED
    BY <2>2, <2>3, <2>4, <2>5 DEF Next, Quiesce
<1>4. phase' \in {"running", "closing", "cancelling", "unknown", "done"} /\ algo' \in Algos
  <2>1. CASE UNCHANGED <<phase, algo>>
    BY <2>1 DEF MainInv
  <2>2. CASE Quiesce
    BY <2>2 DEF Quiesce, QuiesceClose, QuiesceCollect, QuiesceCancel, QuiesceDone, QuiesceGiveUp,
                MainInv, gateVars
  <2>3. CASE ~Quiesce
    <3>1. UNCHANGED <<phase, algo>>
      BY <2>3 DEF Next, MoveBid, MoveAsk, OnOrderUpdate, RandomNew, RandomCancel, ExchangeRequest,
                  ExchangeFill, MarketChanges, SessionLost, vars, mainVars, gateVars
    <3> QED
      BY <2>1, <3>1
  <2> QED
    BY <2>2, <2>3
<1>5. admitting' \in BOOLEAN /\ ready' \in BOOLEAN /\ session' \in BOOLEAN
  <2>1. CASE UNCHANGED <<admitting, ready, session>>
    BY <2>1 DEF MainInv
  <2>2. CASE MarketChanges
    BY <2>2, Zenon DEF MarketChanges, MainInv
  <2>3. CASE SessionLost
    BY <2>3, Zenon DEF SessionLost, MainInv
  <2>4. CASE QuiesceClose
    BY <2>4, Zenon DEF QuiesceClose, MainInv
  <2>5. CASE ~(MarketChanges \/ SessionLost \/ QuiesceClose)
    <3>1. UNCHANGED <<admitting, ready, session>>
      BY <2>5 DEF Next, Quiesce, MoveBid, MoveAsk, OnOrderUpdate, RandomNew, RandomCancel,
                  ExchangeRequest, ExchangeFill, QuiesceCollect, QuiesceCancel, QuiesceDone,
                  QuiesceGiveUp, vars, gateVars
    <3> QED
      BY <2>1, <3>1
  <2> QED
    BY <2>2, <2>3, <2>4, <2>5
<1>6. reconciled' \in BOOLEAN
  <2>1. CASE UNCHANGED reconciled
    BY <2>1 DEF MainInv
  <2>2. CASE OnOrderUpdate
    <3>1. reconciled' = reconciled \/ reconciled' = FALSE
      BY <2>2 DEF OnOrderUpdate, clientVars
    <3> QED
      BY <3>1, Zenon DEF MainInv
  <2>3. CASE ExchangeRequest \/ ExchangeFill \/ ClientStep
    BY <2>1, <2>3 DEF ExchangeRequest, ExchangeFill, ClientStep, clientVars
  <2> QED
    BY <2>2, <2>3, Kinds
<1>7. reordered' \in BOOLEAN /\ filled' \in Int
  <2>1. CASE ClientStep \/ OnOrderUpdate
    BY <2>1 DEF ClientStep, OnOrderUpdate, MainInv, exchangeVars
  <2>2. CASE ExchangeRequest
    <3>1. filled' = filled /\ \E i : reordered' = (reordered \/ i # 1)
      BY <2>2 DEF ExchangeRequest
    <3>2. filled' \in Int
      BY <3>1 DEF MainInv
    <3>3. reordered' \in BOOLEAN
      BY <3>1, Zenon
    <3> QED
      BY <3>2, <3>3
  <2>3. CASE ExchangeFill
    <3>a. PICK id \in DOMAIN book : \E q \in 1 .. book[id].qty :
             filled' = filled + SideValue(book[id].side) * q
      BY <2>3 DEF ExchangeFill
    <3>1. PICK q \in 1 .. book[id].qty : filled' = filled + SideValue(book[id].side) * q
      BY <3>a
    <3>2. book[id].qty \in Nat
      BY OrdersElement DEF Types, Order
    <3>3. SideValue(book[id].side) * q \in Int
      BY <3>2 DEF SideValue
    <3>4. UNCHANGED reordered
      BY <2>3 DEF ExchangeFill
    <3> QED
      BY <3>1, <3>3, <3>4 DEF MainInv
  <2> QED
    BY <2>1, <2>2, <2>3, Kinds
<1> QED
  BY <1>3, <1>4, <1>5, <1>6, <1>7 DEF MainInv
--------------------------------------------------------------------------------
(* Sums over tables of orders.                                                 *)

\* What an order contributes to the sum of a side.
Part(f, x, s) == IF x \in DOMAIN f /\ f[x].side = s THEN f[x].qty ELSE 0

\* The function that Total sums.
OfSide(f, s) == [x \in {y \in DOMAIN f : f[y].side = s} |-> f[x].qty]

\* A total, with one order taken apart.
LEMMA TotalPart ==
    ASSUME NEW f \in Orders, IsFiniteSet(DOMAIN f), NEW s, NEW x
    PROVE  /\ Total(f, s) \in Nat /\ Total(Without(f, x), s) \in Nat /\ Part(f, x, s) \in Nat
           /\ Total(f, s) = Part(f, x, s) + Total(Without(f, x), s)
<1>1. PICK D : D = {y \in DOMAIN f : f[y].side = s}
  OBVIOUS
<1>2. PICK E : E = D \ {x}
  OBVIOUS
<1>3. D \in SUBSET DOMAIN f /\ IsFiniteSet(D) /\ IsFiniteSet(E)
  BY <1>1, <1>2, FS_Subset
<1>4. \A y \in DOMAIN f : f[y] \in Order
  BY OrdersElement
<1>a. \A y \in D : f[y].qty \in Nat
  BY <1>1, <1>4 DEF Order
<1>5. PICK g \in [D -> Nat] : g = OfSide(f, s) /\ \A y \in D : g[y] = f[y].qty
  <2>1. OfSide(f, s) = [y \in D |-> f[y].qty]
    BY <1>1 DEF OfSide
  <2>2. [y \in D |-> f[y].qty] \in [D -> Nat]
    BY <1>a
  <2> QED
    BY <2>1, <2>2
<1>6. PICK h \in [E -> Nat] : h = OfSide(Without(f, x), s) /\ \A y \in E : h[y] = f[y].qty
  <2>1. E = {y \in DOMAIN Without(f, x) : Without(f, x)[y].side = s}
    BY <1>1, <1>2 DEF Without
  <2>2. \A y \in E : Without(f, x)[y].qty = f[y].qty /\ f[y].qty \in Nat
    BY <1>1, <1>2, <1>a DEF Without
  <2>3. OfSide(Without(f, x), s) = [y \in E |-> Without(f, x)[y].qty]
    BY <2>1 DEF OfSide
  <2>4. OfSide(Without(f, x), s) = [y \in E |-> f[y].qty]
    BY <2>2, <2>3
  <2>5. [y \in E |-> f[y].qty] \in [E -> Nat]
    BY <2>2
  <2> QED
    BY <2>4, <2>5
<1>7. Total(f, s) = SumFunction(g) /\ Total(Without(f, x), s) = SumFunction(h)
  BY <1>5, <1>6 DEF Total, OfSide
<1>8. SumFunction(g) \in Nat /\ SumFunction(h) \in Nat
  BY <1>3, <1>5, <1>6, SumNat
<1>9. CASE x \in D
  <2>1. \A y \in E : h[y] = g[y]
    BY <1>2, <1>5, <1>6
  <2>2. g \in [D -> Int] /\ h \in [E -> Int]
    OBVIOUS
  <2>3. SumFunction(g) = g[x] + SumFunction(h)
    BY <1>2, <1>3, <1>9, <2>1, <2>2, SumWithout
  <2>4. Part(f, x, s) = g[x] /\ g[x] \in Nat
    BY <1>1, <1>5, <1>9 DEF Part
  <2> QED
    BY <1>7, <1>8, <2>3, <2>4
<1>10. CASE x \notin D
  <2>1. E = D
    BY <1>2, <1>10
  <2>2. g = h
    BY <1>5, <1>6, <2>1
  <2>3. Part(f, x, s) = 0
    BY <1>1, <1>10 DEF Part
  <2> QED
    BY <1>7, <1>8, <2>2, <2>3
<1> QED
  BY <1>9, <1>10

\* The totals of two tables that differ in one order.
LEMMA TotalChange ==
    ASSUME NEW f \in Orders, IsFiniteSet(DOMAIN f), NEW g \in Orders, IsFiniteSet(DOMAIN g),
           NEW x, DOMAIN f \ {x} = DOMAIN g \ {x}, \A y \in DOMAIN f \ {x} : f[y] = g[y], NEW s
    PROVE  /\ Total(f, s) \in Nat /\ Total(g, s) \in Nat
           /\ Part(f, x, s) \in Nat /\ Part(g, x, s) \in Nat
           /\ Total(g, s) = Total(f, s) - Part(f, x, s) + Part(g, x, s)
<1>1. Without(f, x) = Without(g, x)
  BY DEF Without
<1>2. PICK n \in Nat : n = Total(Without(f, x), s)
  BY TotalPart
<1>3. Total(f, s) = Part(f, x, s) + n /\ Total(f, s) \in Nat /\ Part(f, x, s) \in Nat
  BY <1>2, TotalPart
<1>4. Total(g, s) = Part(g, x, s) + n /\ Total(g, s) \in Nat /\ Part(g, x, s) \in Nat
  BY <1>1, <1>2, TotalPart
<1> QED
  BY <1>3, <1>4

\* No order, no total.
LEMMA TotalEmpty == \A s : Total(<<>>, s) = 0
<1> SUFFICES ASSUME NEW s PROVE Total(<<>>, s) = 0
  OBVIOUS
<1>1. PICK g : g = OfSide(<<>>, s)
  OBVIOUS
<1>2. DOMAIN g = {} /\ g \in [{} -> Int]
  BY <1>1 DEF OfSide
<1> QED
  BY <1>1, <1>2, SumEmpty DEF Total, OfSide

\* onResponse, by its outcome: nothing is released ...
Ignores(k, r) ==
    /\ Release(k, r) = k
    /\ r.type # "FILLED"
    /\ r.type \in {"CANCELED", "REJECTED"} => r.id \notin DOMAIN k.reservations

\* ... or the whole reservation ...
Ends(k, r) ==
    LET v == k.reservations[r.id] IN
    /\ r.id \in DOMAIN k.reservations
    /\ \/ r.type \in {"CANCELED", "REJECTED"}
       \/ r.type = "FILLED" /\ r.exec = v.qty /\ r.leaves = 0 /\ r.side = v.side
    /\ Release(k, r).reservations = Without(k.reservations, r.id)
    /\ Release(k, r).pending = [k.pending EXCEPT ![v.side] = @ - v.qty]

\* ... or a part of it.
Reduces(k, r) ==
    LET v == k.reservations[r.id]
        f == Release(k, r).reservations
    IN  /\ r.id \in DOMAIN k.reservations
        /\ r.type = "FILLED" /\ r.exec \in Nat \ {0} /\ r.leaves \in Nat \ {0}
        /\ r.exec + r.leaves = v.qty /\ r.side = v.side
        /\ DOMAIN f = DOMAIN k.reservations
        /\ \A x \in DOMAIN f : f[x] = IF x = r.id THEN [side |-> v.side, qty |-> r.leaves]
                                      ELSE k.reservations[x]
        /\ Release(k, r).pending = [k.pending EXCEPT ![v.side] = @ - r.exec]

LEMMA ReleaseKinds ==
    ASSUME NEW k \in RiskSet, NEW r \in ResponseSet, Agrees(k, r)
    PROVE  Ignores(k, r) \/ Ends(k, r) \/ Reduces(k, r)
<1>0. k.reservations \in Orders
  BY DEF RiskSet
<1>1. CASE r.id \notin DOMAIN k.reservations
  BY <1>1 DEF Agrees, Release, Ignores
<1>2. CASE r.id \in DOMAIN k.reservations
  <2>1. PICK v \in Order : v = k.reservations[r.id]
    BY <1>0, <1>2, OrdersElement
  <2>2. CASE r.type \in {"CANCELED", "REJECTED"}
    BY <1>2, <2>2 DEF Release, Ends
  <2>3. CASE r.type = "FILLED"
    <3>1. r.side = v.side /\ r.exec \in 1 .. v.qty /\ r.exec + r.leaves = v.qty
      BY <1>2, <2>1, <2>3 DEF Agrees
    <3>2. v.qty \in Nat /\ r.exec \in Nat \ {0} /\ r.leaves \in Nat
      BY <2>1, <3>1 DEF Order, ResponseSet
    <3>3. CASE r.leaves = 0
      <4>1. r.exec = v.qty
        BY <3>1, <3>2, <3>3
      <4>2. Release(k, r) = [reservations |-> Without(k.reservations, r.id),
                             pending |-> [k.pending EXCEPT ![v.side] = @ - v.qty]]
        BY <1>2, <2>1, <2>3, <3>3 DEF Release
      <4> QED
        BY <1>2, <2>1, <2>3, <3>1, <3>3, <4>1, <4>2 DEF Ends
    <3>4. CASE r.leaves > 0
      <4>1. Release(k, r) = [reservations |-> [k.reservations EXCEPT ![r.id].qty = r.leaves],
                             pending |-> [k.pending EXCEPT ![v.side] = @ - r.exec]]
        BY <1>2, <2>1, <2>3, <3>2, <3>4 DEF Release
      <4>2. PICK f : f = [k.reservations EXCEPT ![r.id].qty = r.leaves]
        OBVIOUS
      <4>3. /\ DOMAIN f = DOMAIN k.reservations
            /\ f[r.id] = [v EXCEPT !.qty = r.leaves]
            /\ \A x \in DOMAIN k.reservations : x # r.id => f[x] = k.reservations[x]
        BY <1>2, <2>1, <4>2
      <4>4. [v EXCEPT !.qty = r.leaves] = [side |-> v.side, qty |-> r.leaves]
        BY DEF Order
      <4>5. /\ Release(k, r).reservations = f
            /\ Release(k, r).pending = [k.pending EXCEPT ![v.side] = @ - r.exec]
        BY <4>1, <4>2
      <4>6. r.leaves \in Nat \ {0}
        BY <3>2, <3>4
      <4> QED
        BY <1>2, <2>1, <2>3, <3>1, <3>2, <4>3, <4>4, <4>5, <4>6 DEF Reduces
    <3> QED
      BY <3>2, <3>3, <3>4
  <2>4. CASE r.type \notin {"CANCELED", "REJECTED", "FILLED"}
    BY <2>4 DEF Release, Ignores
  <2> QED
    BY <2>2, <2>3, <2>4
<1> QED
  BY <1>1, <1>2

\* Ids below a bound are finitely many.
LEMMA FiniteIds ==
    ASSUME NEW n \in Nat, NEW S, S \subseteq 1 .. n - 1
    PROVE  IsFiniteSet(S)
<1>1. IsFiniteSet(1 .. n - 1)
  BY FS_Interval
<1> QED
  BY <1>1, FS_Subset

\* pending_buy_ and pending_sell_ follow the reservations.
LEMMA PendingKept ==
    ASSUME Types, Types', MainInv, IdInv, IdInv', PendingIsSum, [Next]_vars
    PROVE  PendingIsSum'
<1>0. /\ risk \in RiskSet /\ risk' \in RiskSet
      /\ risk.reservations \in Orders /\ risk'.reservations \in Orders
      /\ risk.pending \in [Sides -> Int] /\ risk'.pending \in [Sides -> Int]
  BY DEF Types, RiskSet
<1>1. IsFiniteSet(DOMAIN risk.reservations) /\ IsFiniteSet(DOMAIN risk'.reservations)
  <2>1. nextId \in Nat /\ DOMAIN risk.reservations \subseteq 1 .. nextId - 1
    BY DEF IdInv
  <2>2. nextId' \in Nat /\ DOMAIN risk'.reservations \subseteq 1 .. nextId' - 1
    BY DEF IdInv
  <2> QED
    BY <2>1, <2>2, FiniteIds
<1>2. CASE risk' = risk
  BY <1>2 DEF PendingIsSum
<1>3. ASSUME NEW x, DOMAIN risk.reservations \ {x} = DOMAIN risk'.reservations \ {x},
             \A y \in DOMAIN risk.reservations \ {x} : risk.reservations[y] = risk'.reservations[y],
             \A s \in Sides : risk'.pending[s] = risk.pending[s] - Part(risk.reservations, x, s)
                                                   + Part(risk'.reservations, x, s)
      PROVE  PendingIsSum'
  <2> SUFFICES ASSUME NEW s \in Sides
               PROVE  risk'.pending[s] = Total(risk'.reservations, s)
    BY DEF PendingIsSum
  <2>1. Total(risk'.reservations, s) = Total(risk.reservations, s)
           - Part(risk.reservations, x, s) + Part(risk'.reservations, x, s)
    BY <1>0, <1>1, <1>3, TotalChange
  <2>2. risk.pending[s] = Total(risk.reservations, s)
    BY DEF PendingIsSum
  <2> QED
    BY <1>3, <2>1, <2>2
<1>4. ASSUME NEW s \in Sides, NEW q \in Nat \ {0}, OrderSent(s, q) PROVE PendingIsSum'
  <2>1. /\ nextId \notin DOMAIN risk.reservations
        /\ risk'.reservations = With(risk.reservations, nextId, [side |-> s, qty |-> q])
        /\ risk'.pending = [risk.pending EXCEPT ![s] = @ + q]
    BY <1>4, PlacedFacts DEF OrderSent
  <2>2. DOMAIN risk'.reservations = DOMAIN risk.reservations \cup {nextId}
        /\ \A y \in DOMAIN risk.reservations : risk'.reservations[y] = risk.reservations[y]
    BY <2>1 DEF With
  <2>3. \A z \in Sides : /\ Part(risk.reservations, nextId, z) = 0
                         /\ Part(risk'.reservations, nextId, z) = IF z = s THEN q ELSE 0
    BY <2>1 DEF Part, With
  <2>4. \A z \in Sides : risk'.pending[z] = risk.pending[z] + IF z = s THEN q ELSE 0
    BY <1>0, <2>1
  <2>5. \A z \in Sides : risk'.pending[z] = risk.pending[z] - Part(risk.reservations, nextId, z)
                                              + Part(risk'.reservations, nextId, z)
    BY <1>0, <2>3, <2>4
  <2>6. /\ DOMAIN risk.reservations \ {nextId} = DOMAIN risk'.reservations \ {nextId}
        /\ \A y \in DOMAIN risk.reservations \ {nextId} : risk.reservations[y] = risk'.reservations[y]
    BY <2>1, <2>2
  <2> QED
    BY <1>3, <2>5, <2>6
<1>5. ASSUME NEW r \in ResponseSet, Applied(r) PROVE PendingIsSum'
  <2>0. Agrees(risk, r) /\ risk' = Release(risk, r)
    BY <1>5 DEF Applied
  <2>1. CASE Ignores(risk, r)
    BY <1>2, <2>0, <2>1 DEF Ignores
  <2>2. CASE Ends(risk, r)
    <3>1. PICK v \in Order : v = risk.reservations[r.id]
      BY <1>0, <2>2, OrdersElement DEF Ends
    <3>2. /\ r.id \in DOMAIN risk.reservations
          /\ risk'.reservations = Without(risk.reservations, r.id)
          /\ risk'.pending = [risk.pending EXCEPT ![v.side] = @ - v.qty]
      BY <2>0, <2>2, <3>1 DEF Ends
    <3>3. \A z \in Sides : /\ Part(risk.reservations, r.id, z) = IF z = v.side THEN v.qty ELSE 0
                           /\ Part(risk'.reservations, r.id, z) = 0
      BY <3>1, <3>2 DEF Part, Without
    <3>4. \A z \in Sides : risk'.pending[z] = risk.pending[z] - IF z = v.side THEN v.qty ELSE 0
      BY <1>0, <3>1, <3>2 DEF Order
    <3>5. \A z \in Sides : risk'.pending[z] = risk.pending[z] - Part(risk.reservations, r.id, z)
                                                + Part(risk'.reservations, r.id, z)
      BY <1>0, <3>1, <3>3, <3>4 DEF Order
    <3>6. /\ DOMAIN risk.reservations \ {r.id} = DOMAIN risk'.reservations \ {r.id}
          /\ \A y \in DOMAIN risk.reservations \ {r.id} : risk.reservations[y] = risk'.reservations[y]
      BY <3>2 DEF Without
    <3> QED
      BY <1>3, <3>5, <3>6
  <2>3. CASE Reduces(risk, r)
    <3>1. PICK v \in Order : v = risk.reservations[r.id]
      BY <1>0, <2>3, OrdersElement DEF Reduces
    <3>2. /\ r.id \in DOMAIN risk.reservations
          /\ r.exec \in Nat /\ r.leaves \in Nat /\ r.exec + r.leaves = v.qty
          /\ DOMAIN risk'.reservations = DOMAIN risk.reservations
          /\ \A x \in DOMAIN risk.reservations : risk'.reservations[x] =
                 IF x = r.id THEN [side |-> v.side, qty |-> r.leaves] ELSE risk.reservations[x]
          /\ risk'.pending = [risk.pending EXCEPT ![v.side] = @ - r.exec]
      BY <2>0, <2>3, <3>1 DEF Reduces
    <3>3. \A z \in Sides :
             /\ Part(risk.reservations, r.id, z) = IF z = v.side THEN v.qty ELSE 0
             /\ Part(risk'.reservations, r.id, z) = IF z = v.side THEN r.leaves ELSE 0
      BY <3>1, <3>2 DEF Part
    <3>4. \A z \in Sides : risk'.pending[z] = risk.pending[z] - IF z = v.side THEN r.exec ELSE 0
      BY <1>0, <3>1, <3>2 DEF Order
    <3>5. \A z \in Sides : risk'.pending[z] = risk.pending[z] - Part(risk.reservations, r.id, z)
                                                + Part(risk'.reservations, r.id, z)
      <4>1. v.qty \in Nat /\ r.exec \in Nat /\ r.leaves \in Nat /\ r.exec + r.leaves = v.qty
        BY <3>1, <3>2 DEF Order
      <4>2. \A z \in Sides : risk.pending[z] \in Int
        BY <1>0
      <4> QED
        BY <3>3, <3>4, <4>1, <4>2
    <3>6. /\ DOMAIN risk.reservations \ {r.id} = DOMAIN risk'.reservations \ {r.id}
          /\ \A y \in DOMAIN risk.reservations \ {r.id} : risk.reservations[y] = risk'.reservations[y]
      BY <3>2
    <3> QED
      BY <1>3, <3>5, <3>6
  <2> QED
    BY <1>0, <2>0, <2>1, <2>2, <2>3, ReleaseKinds
<1>6. CASE ClientStep
  <2>1. CASE Quiet
    BY <1>2, <2>1 DEF Quiet
  <2>2. ASSUME NEW id \in Nat, CancelSent(id) PROVE PendingIsSum'
    BY <1>2, <2>2, CanceledFacts DEF CancelSent
  <2> QED
    BY <1>4, <1>6, <2>1, <2>2 DEF ClientStep
<1>7. CASE OnOrderUpdate
  <2>1. PICK r : Answered(r)
    BY <1>7, AnswerKinds
  <2> QED
    BY <1>2, <1>5, <2>1 DEF Answered, Contradicts, clientVars
<1>8. CASE ExchangeRequest \/ ExchangeFill
  BY <1>2, <1>8 DEF ExchangeRequest, ExchangeFill, clientVars
<1> QED
  BY <1>6, <1>7, <1>8, Kinds
--------------------------------------------------------------------------------
(* The OrderManager and the reservations.                                      *)

\* NoOrphans of a strategy's client.
Owned ==
    /\ \A id \in DOMAIN risk.reservations :
          LET v == risk.reservations[id] IN
          om[v.side].id = id /\ om[v.side].state \in Live /\ om[v.side].qty = v.qty
    /\ \A s \in Sides : om[s].state \in Live => om[s].id \in DOMAIN risk.reservations

\* The smaller of two quantities.
LEMMA MinOfTwo ==
    ASSUME NEW a \in Nat, NEW b \in Nat
    PROVE  Min({a, b}) = IF a <= b THEN a ELSE b
<1>1. PICK m : m = Min({a, b})
  OBVIOUS
<1>2. \E x \in {a, b} : \A y \in {a, b} : x <= y
  OBVIOUS
<1>3. m \in {a, b} /\ \A y \in {a, b} : m <= y
  BY <1>1, <1>2 DEF Min
<1> QED
  BY <1>1, <1>3

\* A new order takes the place of a dead one.
LEMMA OwnedPlaced ==
    ASSUME Types, IdInv, Owned, algo # "RANDOM",
           NEW s \in Sides, NEW q \in Nat \ {0}, OrderSent(s, q)
    PROVE  Owned'
<1>0. om \in [Sides -> OMOrder] /\ risk.reservations \in Orders
  BY DEF Types, RiskSet
<1>1. /\ nextId \notin DOMAIN risk.reservations
      /\ risk'.reservations = With(risk.reservations, nextId, [side |-> s, qty |-> q])
  BY PlacedFacts DEF OrderSent
<1>2. PICK price \in Prices : om' = [om EXCEPT ![s] = Pending(price, q)]
  BY DEF OrderSent
<1>3. om[s].state \notin Live
  BY DEF OrderSent, Live
<1>4. \A id \in DOMAIN risk.reservations : risk.reservations[id].side \in Sides \ {s}
  BY <1>0, <1>3, OrdersElement DEF Owned, Order
<1>5. /\ om'[s].id = nextId /\ om'[s].qty = q /\ om'[s].state \in Live
      /\ \A z \in Sides \ {s} : om'[z] = om[z]
  BY <1>0, <1>2 DEF Pending, Live
<1>6. DOMAIN risk'.reservations = DOMAIN risk.reservations \cup {nextId}
  BY <1>1 DEF With
<1>7. risk'.reservations[nextId] = [side |-> s, qty |-> q]
  BY <1>1 DEF With
<1>8. \A id \in DOMAIN risk.reservations : risk'.reservations[id] = risk.reservations[id]
  BY <1>1 DEF With
<1>9. ASSUME NEW id \in DOMAIN risk'.reservations
      PROVE  LET v == risk'.reservations[id] IN
             om'[v.side].id = id /\ om'[v.side].state \in Live /\ om'[v.side].qty = v.qty
  <2>1. CASE id = nextId
    BY <1>5, <1>7, <2>1
  <2>2. CASE id \in DOMAIN risk.reservations
    BY <1>4, <1>5, <1>8, <2>2 DEF Owned
  <2> QED
    BY <1>6, <2>1, <2>2
<1>10. ASSUME NEW z \in Sides, om'[z].state \in Live PROVE om'[z].id \in DOMAIN risk'.reservations
  BY <1>5, <1>6, <1>10 DEF Owned
<1> QED
  BY <1>9, <1>10 DEF Owned

\* An answer changes the order and its reservation together.
LEMMA OwnedApplied ==
    ASSUME Types, IdInv, Owned, NEW r \in ResponseSet, Applied(r)
    PROVE  Owned'
<1>0. /\ om \in [Sides -> OMOrder] /\ risk.reservations \in Orders /\ risk \in RiskSet
      /\ Agrees(risk, r) /\ risk' = Release(risk, r)
      /\ \A s \in Sides : om'[s] = IF om[s].id = r.id THEN OrderUpdate(om[s], r) ELSE om[s]
  BY DEF Types, RiskSet, Applied
<1>1. \A s \in Sides : OrderUpdate(om[s], r).id = om[s].id
  BY <1>0, OrderUpdateId
<1>2. CASE Ignores(risk, r)
  <2>1. risk' = risk
    BY <1>0, <1>2 DEF Ignores
  <2>2. ASSUME NEW s \in Sides, om[s].id = r.id
        PROVE  /\ OrderUpdate(om[s], r).state \in Live <=> om[s].state \in Live
               /\ om[s].state \in Live => OrderUpdate(om[s], r).qty = om[s].qty
    <3>0. om[s] \in OMOrder /\ r.type \in ResponseTypes
      BY <1>0 DEF ResponseSet
    <3>1. CASE r.type \in {"CANCELED", "REJECTED"}
      <4>1. om[s].state \notin Live
        BY <1>2, <2>2, <3>1 DEF Ignores, Owned
      <4>2. OrderUpdate(om[s], r).state = "DEAD"
        BY <3>0, <3>1 DEF OrderUpdate, OMOrder
      <4> QED
        BY <4>1, <4>2 DEF Live
    <3>2. CASE r.type = "ACCEPTED"
      BY <3>0, <3>2 DEF OrderUpdate, OMOrder, Live
    <3>3. CASE r.type = "CANCEL_REJECTED"
      <4>1. CASE om[s].state = "PENDING_CANCEL"
        <5>1. r.id \in DOMAIN risk.reservations
          BY <2>2, <4>1 DEF Owned, Live
        <5>2. r.leaves = risk.reservations[r.id].qty /\ risk.reservations[r.id] \in Order
          BY <1>0, <3>3, <5>1, OrdersElement DEF Agrees
        <5>3. r.leaves > 0
          BY <5>2 DEF Order
        <5>4. OrderUpdate(om[s], r) = [om[s] EXCEPT !.state = "LIVE"]
          BY <3>3, <4>1, <5>3 DEF OrderUpdate
        <5> QED
          BY <3>0, <4>1, <5>4 DEF OMOrder, Live
      <4>2. CASE om[s].state # "PENDING_CANCEL"
        BY <3>3, <4>2 DEF OrderUpdate
      <4> QED
        BY <4>1, <4>2
    <3> QED
      BY <1>2, <3>0, <3>1, <3>2, <3>3 DEF ResponseTypes, Ignores
  <2>3. \A s \in Sides : /\ om'[s].id = om[s].id
                         /\ om'[s].state \in Live <=> om[s].state \in Live
                         /\ om[s].state \in Live => om'[s].qty = om[s].qty
    BY <1>0, <1>1, <2>2
  <2>4. \A id \in DOMAIN risk.reservations : risk.reservations[id].side \in Sides
    BY <1>0, OrdersElement DEF Order
  <2> QED
    BY <2>1, <2>3, <2>4 DEF Owned
<1>3. ASSUME r.id \in DOMAIN risk.reservations,
             NEW v, v = risk.reservations[r.id]
      PROVE  /\ v \in Order /\ om[v.side].id = r.id /\ om[v.side].state \in Live
             /\ om[v.side].qty = v.qty
             /\ om'[v.side] = OrderUpdate(om[v.side], r)
             /\ \A z \in Sides \ {v.side} : om'[z] = om[z] /\ om[z].id # r.id
             /\ \A id \in DOMAIN risk.reservations \ {r.id} :
                   risk.reservations[id].side \in Sides \ {v.side}
  <2>1. /\ v \in Order /\ om[v.side].id = r.id /\ om[v.side].state \in Live
        /\ om[v.side].qty = v.qty /\ v.side \in Sides
    BY <1>0, <1>3, OrdersElement DEF Owned, Order
  <2>2. r.id # 0
    BY <1>3 DEF IdInv
  <2>3. \A z \in Sides \ {v.side} : om[z].id # r.id
    BY <2>1, <2>2 DEF IdInv, Sides
  <2>4. \A id \in DOMAIN risk.reservations \ {r.id} : risk.reservations[id].side # v.side
    BY <2>1 DEF Owned
  <2>5. \A id \in DOMAIN risk.reservations : risk.reservations[id].side \in Sides
    BY <1>0, OrdersElement DEF Order
  <2> QED
    BY <1>0, <2>1, <2>3, <2>4, <2>5
<1>4. CASE Ends(risk, r)
  <2>1. PICK v : v = risk.reservations[r.id]
    OBVIOUS
  <2>2. /\ r.id \in DOMAIN risk.reservations
        /\ risk'.reservations = Without(risk.reservations, r.id)
        /\ r.type \in {"CANCELED", "REJECTED"} \/ (r.type = "FILLED" /\ r.leaves = 0)
    <3>1. risk' = Release(risk, r)
      BY DEF Applied
    <3>2. r.type \in {"CANCELED", "REJECTED"} \/ (r.type = "FILLED" /\ r.leaves = 0)
      BY <1>4 DEF Ends
    <3> QED
      BY <1>4, <3>1, <3>2 DEF Ends
  <2>3. /\ v \in Order /\ om[v.side].id = r.id
        /\ om'[v.side] = OrderUpdate(om[v.side], r)
        /\ \A z \in Sides \ {v.side} : om'[z] = om[z] /\ om[z].id # r.id
        /\ \A id \in DOMAIN risk.reservations \ {r.id} :
              risk.reservations[id].side \in Sides \ {v.side}
    BY <1>3, <2>1, <2>2
  <2>4. om'[v.side].state = "DEAD"
    <3>0. om[v.side] \in OMOrder
      BY <1>0, <2>3 DEF Order
    <3>1. CASE r.type \in {"CANCELED", "REJECTED"}
      BY <2>3, <3>0, <3>1 DEF OrderUpdate, OMOrder
    <3>2. CASE r.type = "FILLED" /\ r.leaves = 0
      <4>1. PICK n \in Nat : n = om[v.side].qty
        BY <3>0 DEF OMOrder
      <4>2. Min({n, 0}) = 0
        BY MinOfTwo
      <4>3. OrderUpdate(om[v.side], r) = [om[v.side] EXCEPT !.qty = 0, !.state = "DEAD"]
        BY <3>2, <4>1, <4>2 DEF OrderUpdate
      <4> QED
        BY <2>3, <3>0, <4>3 DEF OMOrder
    <3> QED
      BY <2>2, <3>1, <3>2
  <2>5. DOMAIN risk'.reservations = DOMAIN risk.reservations \ {r.id}
        /\ \A id \in DOMAIN risk'.reservations : risk'.reservations[id] = risk.reservations[id]
    BY <2>2 DEF Without
  <2>6. ASSUME NEW id \in DOMAIN risk'.reservations
        PROVE  LET w == risk'.reservations[id] IN
               om'[w.side].id = id /\ om'[w.side].state \in Live /\ om'[w.side].qty = w.qty
    <3>1. PICK w : w = risk.reservations[id] /\ w = risk'.reservations[id]
      BY <2>5
    <3>2. id \in DOMAIN risk.reservations \ {r.id}
      BY <2>5
    <3>3. w.side \in Sides \ {v.side}
      BY <2>3, <3>1, <3>2
    <3>4. om'[w.side] = om[w.side]
      BY <2>3, <3>3
    <3>5. om[w.side].id = id /\ om[w.side].state \in Live /\ om[w.side].qty = w.qty
      BY <3>1, <3>2 DEF Owned
    <3> QED
      BY <3>1, <3>4, <3>5
  <2>7. ASSUME NEW z \in Sides, om'[z].state \in Live PROVE om'[z].id \in DOMAIN risk'.reservations
    <3>1. z # v.side
      BY <2>4, <2>7 DEF Live
    <3>2. om'[z] = om[z] /\ om[z].id # r.id
      BY <2>3, <3>1
    <3>3. om[z].id \in DOMAIN risk.reservations
      BY <2>7, <3>2 DEF Owned
    <3> QED
      BY <2>5, <3>2, <3>3
  <2> QED
    BY <2>6, <2>7 DEF Owned
<1>5. CASE Reduces(risk, r)
  <2>1. PICK v : v = risk.reservations[r.id]
    OBVIOUS
  <2>2. /\ r.id \in DOMAIN risk.reservations
        /\ r.type = "FILLED" /\ r.exec \in Nat \ {0} /\ r.leaves \in Nat \ {0}
        /\ r.exec + r.leaves = v.qty
        /\ DOMAIN risk'.reservations = DOMAIN risk.reservations
        /\ \A x \in DOMAIN risk.reservations : risk'.reservations[x] =
              IF x = r.id THEN [side |-> v.side, qty |-> r.leaves] ELSE risk.reservations[x]
    BY <1>0, <1>5, <2>1 DEF Reduces
  <2>3. /\ v \in Order /\ om[v.side].id = r.id /\ om[v.side].state \in Live
        /\ om[v.side].qty = v.qty
        /\ om'[v.side] = OrderUpdate(om[v.side], r)
        /\ \A z \in Sides \ {v.side} : om'[z] = om[z] /\ om[z].id # r.id
        /\ \A id \in DOMAIN risk.reservations \ {r.id} :
              risk.reservations[id].side \in Sides \ {v.side}
    BY <1>3, <2>1, <2>2
  <2>4. /\ om'[v.side].id = r.id /\ om'[v.side].state = om[v.side].state
        /\ om'[v.side].qty = r.leaves
    <3>0. om[v.side] \in OMOrder
      BY <1>0, <2>3 DEF Order
    <3>1. PICK n \in Nat, m \in Nat \ {0} : n = om[v.side].qty /\ m = r.leaves /\ m <= n
      BY <2>2, <2>3 DEF Order
    <3>2. Min({n, m}) = m
      BY <3>1, MinOfTwo
    <3>3. OrderUpdate(om[v.side], r) = [om[v.side] EXCEPT !.qty = m, !.state = om[v.side].state]
      BY <2>2, <3>1, <3>2 DEF OrderUpdate
    <3> QED
      BY <2>3, <3>0, <3>1, <3>3 DEF OMOrder
  <2>6. ASSUME NEW id \in DOMAIN risk'.reservations
        PROVE  LET w == risk'.reservations[id] IN
               om'[w.side].id = id /\ om'[w.side].state \in Live /\ om'[w.side].qty = w.qty
    <3>1. CASE id = r.id
      BY <2>2, <2>3, <2>4, <3>1
    <3>2. CASE id # r.id
      BY <2>2, <2>3, <3>2 DEF Owned
    <3> QED
      BY <3>1, <3>2
  <2>7. ASSUME NEW z \in Sides, om'[z].state \in Live PROVE om'[z].id \in DOMAIN risk'.reservations
    BY <2>2, <2>3, <2>4, <2>7 DEF Owned
  <2> QED
    BY <2>6, <2>7 DEF Owned
<1> QED
  BY <1>0, <1>2, <1>4, <1>5, ReleaseKinds

\* No step of a strategy's client loses an order.
LEMMA OrphansKept ==
    ASSUME Types, MainInv, IdInv, NoOrphans, [Next]_vars
    PROVE  NoOrphans'
<1>0. (algo # "RANDOM" => Owned) /\ om \in [Sides -> OMOrder]
  BY DEF NoOrphans, Owned, Types
<1>1. algo' = algo
  <2>1. CASE ClientStep \/ ExchangeRequest \/ ExchangeFill
    BY <2>1 DEF ClientStep, ExchangeRequest, ExchangeFill, gateVars
  <2>2. CASE OnOrderUpdate
    BY <2>2 DEF OnOrderUpdate, gateVars
  <2> QED
    BY <2>1, <2>2, Kinds
<1> SUFFICES ASSUME algo # "RANDOM" PROVE Owned'
  BY <1>1 DEF NoOrphans, Owned
<1>2. CASE UNCHANGED <<om, risk>>
  BY <1>0, <1>2 DEF Owned
<1>3. ASSUME NEW id \in Nat, CancelSent(id) PROVE Owned'
  <2>1. risk' = risk
    BY <1>3, CanceledFacts DEF CancelSent
  <2>2. ASSUME NEW s \in Sides, om[s].state = "LIVE", om' = [om EXCEPT ![s].state = "PENDING_CANCEL"]
        PROVE  Owned'
    <3>1. \A z \in Sides : /\ om'[z].id = om[z].id /\ om'[z].qty = om[z].qty
                           /\ om'[z].state \in Live <=> om[z].state \in Live
      BY <1>0, <2>2 DEF OMOrder, Live
    <3>2. \A x \in DOMAIN risk.reservations : risk.reservations[x].side \in Sides
      BY OrdersElement DEF Order, Types, RiskSet
    <3> QED
      BY <1>0, <2>1, <3>1, <3>2 DEF Owned
  <2> QED
    BY <1>2, <1>3, <2>1, <2>2 DEF CancelSent
<1>4. CASE ClientStep
  <2>1. CASE Quiet
    BY <1>2, <2>1 DEF Quiet
  <2> QED
    BY <1>0, <1>3, <1>4, <2>1, OwnedPlaced DEF ClientStep
<1>5. CASE OnOrderUpdate
  <2>1. PICK r : Answered(r)
    BY <1>5, AnswerKinds
  <2> QED
    BY <1>0, <1>2, <2>1, OwnedApplied DEF Answered, Contradicts, clientVars
<1>6. CASE ExchangeRequest \/ ExchangeFill
  BY <1>2, <1>6 DEF ExchangeRequest, ExchangeFill, clientVars
<1> QED
  BY <1>4, <1>5, <1>6, Kinds
--------------------------------------------------------------------------------
(* The queues between the client and the exchange.                             *)

\* The new orders on their way.
News == {r \in Range(requests) : r.type = "NEW"}

\* Each request is for an order that was given its id; no order is asked for
\* twice, nor, unless requests overtake one another, cancelled before it is
\* asked for.
QueueInv ==
    /\ \A i \in 1 .. Len(requests) : requests[i].id < nextId
    /\ \A i, j \in 1 .. Len(requests) :
          requests[i].type = "NEW" /\ requests[i].id = requests[j].id =>
             /\ requests[j].type = "NEW" => i = j
             /\ requests[j].type = "CANCEL" /\ ~Reorders => i < j

\* The responses in the queue are numbered in order, up to the last one issued.
Numbering ==
    /\ lastId \in Nat /\ lastId <= issued
    /\ Len(responses) <= issued /\ issued - Len(responses) <= lastId
    /\ \A i \in 1 .. Len(responses) : responses[i].rid = issued - Len(responses) + i

\* The responses that the client has still to apply, by their number.
Answers == [k \in lastId + 1 .. issued |-> responses[k - issued + Len(responses)]]

\* Range of a sequence, by index.
LEMMA RangeSeq ==
    ASSUME NEW T, NEW s \in Seq(T)
    PROVE  \A x : x \in Range(s) <=> \E i \in 1 .. Len(s) : x = s[i]
BY DEF Range

\* The client asks for an order: it alone is added.
LEMMA QueuePlaced ==
    ASSUME Types, QueueInv, NEW r \in NewSet, r.id = nextId, nextId' = nextId + 1,
           requests' = Append(requests, r)
    PROVE  QueueInv' /\ News' = News \cup {r}
<1>0. requests \in Seq(RequestSet) /\ r \in RequestSet /\ nextId \in Nat
  BY DEF Types, RequestSet
<1>1. /\ Len(requests') = Len(requests) + 1 /\ requests'[Len(requests) + 1] = r
      /\ \A i \in 1 .. Len(requests) : requests'[i] = requests[i]
      /\ requests' \in Seq(RequestSet)
  BY <1>0
<1>2. PICK L \in Nat : L = Len(requests)
  BY <1>0
<1>3. \A i \in 1 .. L : requests[i].id < nextId /\ requests[i].id \in Nat
  BY <1>0, <1>2 DEF QueueInv, RequestSet, NewSet, CancelSet
<1>4. News' = News \cup {r}
  <2>1. \A x : x \in Range(requests') <=> \E i \in 1 .. L + 1 : x = requests'[i]
    <3>1. PICK t \in Seq(RequestSet) : t = requests' /\ Len(t) = L + 1
      BY <1>1, <1>2
    <3>2. \A x : x \in Range(t) <=> \E i \in 1 .. Len(t) : x = t[i]
      BY DEF Range
    <3> QED
      BY <3>1, <3>2
  <2>4. \A x : x \in Range(requests) <=> \E i \in 1 .. L : x = requests[i]
    BY <1>0, <1>2, RangeSeq
  <2>2. \A x : x \in Range(requests') <=> x \in Range(requests) \/ x = r
    BY <1>1, <1>2, <2>1, <2>4
  <2>3. r.type = "NEW"
    BY DEF NewSet
  <2> QED
    BY <2>2, <2>3 DEF News
<1>5. \A i \in 1 .. L + 1 : requests'[i].id < nextId'
  BY <1>0, <1>1, <1>2, <1>3
<1>6. ASSUME NEW i \in 1 .. L + 1, NEW j \in 1 .. L + 1,
             requests'[i].type = "NEW", requests'[i].id = requests'[j].id
      PROVE  /\ requests'[j].type = "NEW" => i = j
             /\ requests'[j].type = "CANCEL" /\ ~Reorders => i < j
  <2>0. (i \in 1 .. L \/ i = L + 1) /\ (j \in 1 .. L \/ j = L + 1)
    OBVIOUS
  <2>1. CASE i \in 1 .. L /\ j \in 1 .. L
    BY <1>1, <1>2, <1>6, <2>1 DEF QueueInv
  <2>2. CASE i = L + 1 /\ j = L + 1
    <3>1. requests'[j].type = "NEW"
      BY <1>1, <1>2, <2>2 DEF NewSet
    <3> QED
      BY <2>2, <3>1
  <2>3. CASE (i = L + 1 /\ j \in 1 .. L) \/ (j = L + 1 /\ i \in 1 .. L)
    <3>1. FALSE
      BY <1>0, <1>1, <1>2, <1>3, <1>6, <2>3
    <3> QED
      BY <3>1
  <2> QED
    BY <2>0, <2>1, <2>2, <2>3
<1> QED
  BY <1>1, <1>2, <1>4, <1>5, <1>6 DEF QueueInv

\* A cancellation joins the queue behind what it cancels.
LEMMA QueueCanceled ==
    ASSUME Types, QueueInv, NEW id \in 0 .. nextId - 1, nextId' = nextId,
           requests' = Append(requests, Cancel(id))
    PROVE  QueueInv' /\ News' = News
<1> DEFINE r == Cancel(id)
<1>0. requests \in Seq(RequestSet) /\ r \in RequestSet /\ nextId \in Nat
      /\ r.id = id /\ r.type = "CANCEL"
  BY RequestTypes DEF Types, Cancel
<1> HIDE DEF r
<1>1. /\ Len(requests') = Len(requests) + 1 /\ requests'[Len(requests) + 1] = r
      /\ \A i \in 1 .. Len(requests) : requests'[i] = requests[i]
      /\ requests' \in Seq(RequestSet)
  BY <1>0 DEF r
<1>2. PICK L \in Nat : L = Len(requests)
  BY <1>0
<1>4. News' = News
  <2>1. \A x : x \in Range(requests') <=> \E i \in 1 .. L + 1 : x = requests'[i]
    <3>1. PICK t \in Seq(RequestSet) : t = requests' /\ Len(t) = L + 1
      BY <1>1, <1>2
    <3>2. \A x : x \in Range(t) <=> \E i \in 1 .. Len(t) : x = t[i]
      BY DEF Range
    <3> QED
      BY <3>1, <3>2
  <2>4. \A x : x \in Range(requests) <=> \E i \in 1 .. L : x = requests[i]
    BY <1>0, <1>2, RangeSeq
  <2>2. \A x : x \in Range(requests') <=> x \in Range(requests) \/ x = r
    BY <1>1, <1>2, <2>1, <2>4
  <2> QED
    BY <1>0, <2>2 DEF News
<1>5. \A i \in 1 .. L + 1 : requests'[i].id < nextId'
  BY <1>0, <1>1, <1>2 DEF QueueInv
<1>6. ASSUME NEW i \in 1 .. L + 1, NEW j \in 1 .. L + 1,
             requests'[i].type = "NEW", requests'[i].id = requests'[j].id
      PROVE  /\ requests'[j].type = "NEW" => i = j
             /\ requests'[j].type = "CANCEL" /\ ~Reorders => i < j
  <2>0. i \in 1 .. L
    BY <1>0, <1>1, <1>2, <1>6
  <2>1. CASE j \in 1 .. L
    BY <1>1, <1>2, <1>6, <2>0, <2>1 DEF QueueInv
  <2>2. CASE j = L + 1
    BY <1>0, <1>1, <1>2, <2>0, <2>2
  <2>3. j \in 1 .. L \/ j = L + 1
    OBVIOUS
  <2> QED
    BY <2>1, <2>2, <2>3
<1> QED
  BY <1>1, <1>2, <1>4, <1>5, <1>6 DEF QueueInv

\* The exchange takes a request out of the queue.
LEMMA QueueTaken ==
    ASSUME Types, QueueInv, NEW i \in 1 .. Len(requests), nextId' = nextId,
           requests' = RemoveAt(requests, i)
    PROVE  /\ QueueInv'
           /\ requests[i].type = "NEW" => News' = News \ {requests[i]}
           /\ requests[i].type = "CANCEL" => News' = News
<1>0. requests \in Seq(RequestSet)
  BY DEF Types
<1>1. /\ requests' \in Seq(RequestSet) /\ Len(requests') = Len(requests) - 1
      /\ \A j \in 1 .. Len(requests) - 1 :
            requests'[j] = IF j < i THEN requests[j] ELSE requests[j + 1]
  BY <1>0, RemoveAtLemma
<1>2. PICK L \in Nat : L = Len(requests)
  BY <1>0
<1>3. /\ \A x : x \in Range(requests) <=> \E k \in 1 .. L : x = requests[k]
      /\ \A x : x \in Range(requests') <=> \E k \in 1 .. L - 1 : x = requests'[k]
  <2>1. PICK t \in Seq(RequestSet) : t = requests' /\ Len(t) = L - 1
    BY <1>1, <1>2
  <2>2. \A x : x \in Range(t) <=> \E i_1 \in 1 .. L - 1 : x = t[i_1]
    BY <2>1, RangeSeq
  <2>3. \A x : x \in Range(requests) <=> \E k \in 1 .. L : x = requests[k]
    BY <1>0, <1>2, RangeSeq
  <2> QED
    BY <2>1, <2>2, <2>3
<1>4. \A j \in 1 .. L - 1 : \E k \in 1 .. L : k # i /\ requests'[j] = requests[k]
  <2> SUFFICES ASSUME NEW j \in 1 .. L - 1
               PROVE  \E k \in 1 .. L : k # i /\ requests'[j] = requests[k]
    OBVIOUS
  <2>1. CASE j < i
    BY <1>1, <1>2, <2>1
  <2>2. CASE ~(j < i)
    <3>1. j + 1 \in 1 .. L /\ j + 1 # i /\ requests'[j] = requests[j + 1]
      BY <1>1, <1>2, <2>2
    <3> QED
      BY <3>1
  <2> QED
    BY <2>1, <2>2
<1>5. \A k \in 1 .. L : k # i => \E j \in 1 .. L - 1 : requests'[j] = requests[k]
  <2> SUFFICES ASSUME NEW k \in 1 .. L, k # i PROVE \E j \in 1 .. L - 1 : requests'[j] = requests[k]
    OBVIOUS
  <2>1. CASE k < i
    <3>1. k \in 1 .. L - 1 /\ requests'[k] = requests[k]
      BY <1>1, <1>2, <2>1
    <3> QED
      BY <3>1
  <2>2. CASE k > i
    <3>1. k - 1 \in 1 .. L - 1 /\ requests'[k - 1] = requests[k]
      BY <1>1, <1>2, <2>2
    <3> QED
      BY <3>1
  <2> QED
    BY <1>2, <2>1, <2>2
<1>6. QueueInv'
  <2>1. \A j \in 1 .. L - 1 : requests'[j].id < nextId'
    BY <1>2, <1>4 DEF QueueInv
  <2>2. ASSUME NEW j \in 1 .. L - 1, NEW k \in 1 .. L - 1,
               requests'[j].type = "NEW", requests'[j].id = requests'[k].id
        PROVE  /\ requests'[k].type = "NEW" => j = k
               /\ requests'[k].type = "CANCEL" /\ ~Reorders => j < k
    <3>1. PICK a \in 1 .. L : requests'[j] = requests[a] /\ a = IF j < i THEN j ELSE j + 1
      BY <1>1, <1>2
    <3>2. PICK b \in 1 .. L : requests'[k] = requests[b] /\ b = IF k < i THEN k ELSE k + 1
      BY <1>1, <1>2
    <3>3. /\ requests[b].type = "NEW" => a = b
          /\ requests[b].type = "CANCEL" /\ ~Reorders => a < b
      BY <1>2, <2>2, <3>1, <3>2 DEF QueueInv
    <3>4. (a = b => j = k) /\ (a < b => j < k)
      BY <1>2, <3>1, <3>2
    <3> QED
      BY <3>2, <3>3, <3>4
  <2> QED
    BY <1>1, <1>2, <2>1, <2>2 DEF QueueInv
<1>7. \A x : x \in Range(requests') <=> \E k \in 1 .. L : k # i /\ x = requests[k]
  <2>1. ASSUME NEW x \in Range(requests') PROVE \E k \in 1 .. L : k # i /\ x = requests[k]
    <3>1. PICK j \in 1 .. L - 1 : x = requests'[j]
      BY <1>3
    <3> QED
      BY <1>4, <3>1
  <2>2. ASSUME NEW k \in 1 .. L, k # i PROVE requests[k] \in Range(requests')
    <3>1. PICK j \in 1 .. L - 1 : requests'[j] = requests[k]
      BY <1>5, <2>2
    <3> QED
      BY <1>3, <3>1
  <2> QED
    BY <2>1, <2>2
<1>8. \A x : x \in Range(requests) <=> \E k \in 1 .. L : x = requests[k]
  BY <1>3
<1>9. ASSUME requests[i].type = "NEW" PROVE News' = News \ {requests[i]}
  <2>1. \A k \in 1 .. L : k # i => requests[k] # requests[i]
    BY <1>2, <1>9 DEF QueueInv
  <2>2. \A x : x \in Range(requests') <=> x \in Range(requests) /\ x # requests[i]
    BY <1>7, <1>8, <2>1
  <2> QED
    BY <2>2 DEF News
<1>10. ASSUME requests[i].type = "CANCEL" PROVE News' = News
  BY <1>2, <1>7, <1>8, <1>10 DEF News
<1> QED
  BY <1>6, <1>9, <1>10

\* Nothing is issued and nothing applied.
LEMMA AnswersSame ==
    ASSUME Numbering, UNCHANGED <<lastId, issued, responses>>
    PROVE  Numbering' /\ Answers' = Answers
BY DEF Numbering, Answers

\* A repeated response is dropped from the head of the queue, or stays there.
LEMMA AnswersStale ==
    ASSUME Types, Numbering, NEW r, Answered(r), r.rid <= lastId
    PROVE  /\ Numbering' /\ Answers' = Answers
           /\ UNCHANGED <<lastId, issued>>
<1>a. r \in ResponseSet /\ lastId \in Nat /\ r.rid \in Nat
  BY DEF Answered, Numbering, ResponseSet
<1>b. ~(r.rid > lastId)
  BY <1>a
<1>0. /\ responses \in Seq(ResponseSet) /\ responses # <<>> /\ r = Head(responses)
      /\ r \in ResponseSet /\ issued \in Nat /\ lastId \in Nat
      /\ responses' \in {responses, Tail(responses)}
      /\ UNCHANGED <<lastId, issued>>
  BY <1>a, <1>b DEF Types, Answered, clientVars, exchangeVars
<1>1. CASE responses' = responses
  BY <1>0, <1>1, AnswersSame
<1>2. CASE responses' = Tail(responses)
  <2>1. PICK L \in Nat \ {0} : L = Len(responses)
    BY <1>0
  <2>2. /\ Len(responses') = L - 1
        /\ \A i \in 1 .. L - 1 : responses'[i] = responses[i + 1]
    BY <1>0, <1>2, <2>1
  <2>3. r = responses[1] /\ r.rid = issued - L + 1
    BY <1>0, <2>1 DEF Numbering
  <2>4. \A i \in 1 .. L : responses[i].rid = issued - L + i
    BY <2>1 DEF Numbering
  <2>5. Numbering'
    <3>1. issued - (L - 1) <= lastId /\ L - 1 <= issued
      BY <1>0, <2>1, <2>3 DEF Numbering
    <3>2. ASSUME NEW i \in 1 .. L - 1 PROVE responses'[i].rid = issued - (L - 1) + i
      <4>1. i + 1 \in 1 .. L
        OBVIOUS
      <4>2. responses'[i].rid = issued - L + (i + 1)
        BY <2>2, <2>4, <4>1
      <4> QED
        BY <1>0, <4>2
    <3> QED
      BY <1>0, <2>2, <3>1, <3>2 DEF Numbering
  <2>6. Answers' = Answers
    <3>1. \A k \in lastId + 1 .. issued : k - issued + L \in 2 .. L
      BY <1>0, <2>1, <2>3
    <3>2. ASSUME NEW k \in lastId + 1 .. issued
          PROVE  responses'[k - issued + (L - 1)] = responses[k - issued + L]
      <4>a. PICK m \in 2 .. L : m = k - issued + L
        BY <3>1
      <4>b. m - 1 \in 1 .. L - 1 /\ m - 1 = k - issued + (L - 1)
        BY <1>0, <4>a
      <4>1. PICK j \in 1 .. L - 1 : j = k - issued + (L - 1)
        BY <4>b
      <4>2. j + 1 = k - issued + L
        BY <1>0, <4>1
      <4> QED
        BY <2>2, <4>1, <4>2
    <3> QED
      BY <1>0, <2>1, <2>2, <3>2 DEF Answers
  <2> QED
    BY <1>0, <2>5, <2>6
<1> QED
  BY <1>0, <1>1, <1>2

\* The client applies the next response, and only that.
LEMMA AnswersTaken ==
    ASSUME Types, Numbering, NEW r, Answered(r), r.rid > lastId
    PROVE  /\ Numbering' /\ issued' = issued
           /\ lastId' = lastId + 1 /\ lastId + 1 \in 1 .. issued
           /\ r = Answers[lastId + 1]
           /\ Answers' = [k \in lastId + 2 .. issued |-> Answers[k]]
<1>0. /\ responses \in Seq(ResponseSet) /\ responses # <<>> /\ r = Head(responses)
      /\ r \in ResponseSet /\ issued \in Nat /\ lastId \in Nat /\ r.rid \in Nat
      /\ responses' \in {responses, Tail(responses)}
      /\ issued' = issued
  BY DEF Types, Answered, Numbering, Contradicts, Applied, clientVars, exchangeVars, ResponseSet
<1>1. lastId' = r.rid
  <2>1. Contradicts(r) \/ Applied(r)
    BY <1>0 DEF Answered
  <2> QED
    BY <2>1 DEF Contradicts, Applied
<1>2. PICK L \in Nat \ {0} : L = Len(responses)
  BY <1>0
<1>3. \A i \in 1 .. L : responses[i].rid = issued - L + i
  BY <1>2 DEF Numbering
<1>4. r = responses[1] /\ r.rid = issued - L + 1
  BY <1>0, <1>2, <1>3
<1>a. issued - L <= lastId /\ L <= issued
  BY <1>2 DEF Numbering
<1>b. PICK n \in Nat : n = r.rid /\ n = issued - L + 1 /\ n > lastId
  BY <1>0, <1>4
<1>5. r.rid = lastId + 1 /\ issued - L = lastId /\ L <= issued
  BY <1>0, <1>a, <1>b
<1>6. lastId + 1 \in 1 .. issued
  BY <1>0, <1>5
<1>7. r = Answers[lastId + 1]
  <2>1. lastId + 1 - issued + L = 1
    BY <1>0, <1>5
  <2> QED
    BY <1>0, <1>2, <1>4, <1>6, <2>1 DEF Answers
<1>8. \A k \in lastId + 2 .. issued : Answers[k] = responses[k - issued + L] /\ k - issued + L \in 2 .. L
  BY <1>0, <1>2, <1>5 DEF Answers
<1>9. CASE responses' = responses
  <2>1. Numbering'
    BY <1>0, <1>1, <1>2, <1>3, <1>5, <1>6, <1>9 DEF Numbering
  <2>2. Answers' = [k \in lastId + 2 .. issued |-> responses[k - issued + L]]
    BY <1>0, <1>1, <1>2, <1>5, <1>9 DEF Answers
  <2> QED
    BY <1>0, <1>1, <1>5, <1>6, <1>7, <1>8, <2>1, <2>2
<1>10. CASE responses' = Tail(responses)
  <2>2. /\ Len(responses') = L - 1
        /\ \A i \in 1 .. L - 1 : responses'[i] = responses[i + 1]
    BY <1>0, <1>2, <1>10
  <2>5. Numbering'
    <3>1. issued - (L - 1) <= lastId + 1 /\ L - 1 <= issued /\ lastId + 1 <= issued /\ lastId + 1 \in Nat
      BY <1>0, <1>5, <1>6
    <3>2. ASSUME NEW i \in 1 .. L - 1 PROVE responses'[i].rid = issued - (L - 1) + i
      <4>1. i + 1 \in 1 .. L
        OBVIOUS
      <4>2. responses'[i].rid = issued - L + (i + 1)
        BY <1>3, <2>2, <4>1
      <4> QED
        BY <1>0, <4>2
    <3> QED
      BY <1>0, <1>1, <1>5, <2>2, <3>1, <3>2 DEF Numbering
  <2>6. Answers' = [k \in lastId + 2 .. issued |-> responses'[k - issued + (L - 1)]]
    BY <1>0, <1>1, <1>5, <2>2 DEF Answers
  <2>7. ASSUME NEW k \in lastId + 2 .. issued
        PROVE  responses'[k - issued + (L - 1)] = Answers[k]
    <3>a. PICK m \in 2 .. L : m = k - issued + L
      BY <1>8
    <3>b. m - 1 \in 1 .. L - 1 /\ m - 1 = k - issued + (L - 1)
      BY <1>0, <3>a
    <3>1. PICK j \in 1 .. L - 1 : j = k - issued + (L - 1)
      BY <3>b
    <3>2. j + 1 = k - issued + L
      BY <1>0, <3>1
    <3> QED
      BY <1>8, <2>2, <3>1, <3>2
  <2> QED
    BY <1>0, <1>1, <1>5, <1>6, <1>7, <2>5, <2>6, <2>7
<1> QED
  BY <1>0, <1>9, <1>10

\* The exchange issues the next response.
LEMMA AnswersGiven ==
    ASSUME Types, Numbering, NEW type \in ResponseTypes, NEW r, r.id \in Nat, r.side \in Sides,
           NEW exec \in Nat, NEW leaves \in Nat, Reply(type, r, exec, leaves), lastId' = lastId
    PROVE  /\ Numbering' /\ issued' = issued + 1
           /\ DOMAIN Answers' = lastId + 1 .. issued + 1
           /\ Answers'[issued + 1] = Response(type, r, exec, leaves)
           /\ \A k \in lastId + 1 .. issued : Answers'[k] = Answers[k]
<1>0. /\ responses \in Seq(ResponseSet) /\ issued \in Nat /\ lastId \in Nat /\ issued' = issued + 1
  BY DEF Types, Numbering, Reply
<1>1. PICK x \in ResponseSet : x = Response(type, r, exec, leaves) /\ x.rid = issued + 1
  <2>1. PICK n \in Nat : n = issued + 1
    BY <1>0
  <2>2. Response(type, r, exec, leaves) = [type |-> type, rid |-> n, id |-> r.id, side |-> r.side,
                                           exec |-> exec, leaves |-> leaves]
    BY <2>1 DEF Response
  <2>3. Response(type, r, exec, leaves) \in ResponseSet /\ Response(type, r, exec, leaves).rid = n
    BY <2>2 DEF ResponseSet
  <2> QED
    BY <2>1, <2>3
<1>2. responses' = Append(responses, x)
  BY <1>1 DEF Reply
<1>3. PICK L \in Nat : L = Len(responses)
  BY <1>0
<1>4. /\ Len(responses') = L + 1 /\ responses'[L + 1] = x
      /\ \A i \in 1 .. L : responses'[i] = responses[i]
  BY <1>0, <1>2, <1>3
<1>5. \A i \in 1 .. L : responses[i].rid = issued - L + i
  BY <1>3 DEF Numbering
<1>6. lastId <= issued /\ L <= issued /\ issued - L <= lastId
  BY <1>3 DEF Numbering
<1>7. Numbering'
  <2>1. \A i \in 1 .. L + 1 : responses'[i].rid = issued + 1 - (L + 1) + i
    <3> SUFFICES ASSUME NEW i \in 1 .. L + 1 PROVE responses'[i].rid = issued + 1 - (L + 1) + i
      OBVIOUS
    <3>1. CASE i \in 1 .. L
      BY <1>0, <1>4, <1>5, <3>1
    <3>2. CASE i = L + 1
      BY <1>0, <1>1, <1>4, <3>2
    <3> QED
      BY <3>1, <3>2
  <2>2. lastId <= issued + 1 /\ L + 1 <= issued + 1 /\ issued + 1 - (L + 1) <= lastId
    BY <1>0, <1>6
  <2>3. PICK m \in Nat : m = issued + 1
    BY <1>0
  <2>4. PICK n \in Nat : n = L + 1
    OBVIOUS
  <2>5. /\ issued' = m /\ Len(responses') = n /\ lastId' = lastId /\ lastId \in Nat
        /\ lastId <= m /\ n <= m /\ m - n <= lastId
    BY <1>0, <1>4, <2>2, <2>3, <2>4
  <2>6. ASSUME NEW i \in 1 .. n PROVE responses'[i].rid = m - n + i
    <3>1. i \in 1 .. L + 1 /\ i \in Nat
      BY <2>4
    <3>2. issued + 1 - (L + 1) + i = m - n + i
      BY <1>0, <2>3, <2>4, <3>1
    <3> QED
      BY <2>1, <3>1, <3>2
  <2> QED
    BY <2>5, <2>6 DEF Numbering
<1>8. Answers' = [k \in lastId + 1 .. issued + 1 |-> responses'[k - (issued + 1) + (L + 1)]]
  BY <1>0, <1>4 DEF Answers
<1>9. issued + 1 \in lastId + 1 .. issued + 1 /\ issued + 1 - (issued + 1) + (L + 1) = L + 1
  BY <1>0, <1>6
<1>10. ASSUME NEW k \in lastId + 1 .. issued PROVE Answers'[k] = Answers[k]
  <2>1. PICK j \in 1 .. L : j = k - issued + L /\ j = k - (issued + 1) + (L + 1)
    BY <1>0, <1>6
  <2>2. k \in lastId + 1 .. issued + 1
    BY <1>0
  <2>3. Answers'[k] = responses'[j]
    BY <1>8, <2>1, <2>2
  <2>4. Answers[k] = responses[j]
    BY <1>3, <2>1 DEF Answers
  <2> QED
    BY <1>4, <2>1, <2>3, <2>4
<1>11. Answers'[issued + 1] = x
  <2>1. Answers'[issued + 1] = responses'[issued + 1 - (issued + 1) + (L + 1)]
    BY <1>8, <1>9
  <2> QED
    BY <1>4, <1>9, <2>1
<1>12. DOMAIN Answers' = lastId + 1 .. issued + 1
  BY <1>8
<1> QED
  BY <1>0, <1>1, <1>7, <1>10, <1>11, <1>12
--------------------------------------------------------------------------------
(* The open quantity of an order, from the client's view to the exchange's.    *)

\* What response r makes of the open quantity a of order id: it leaves b.
Change(r, id, a, b) ==
    IF r.id # id THEN b = a
    ELSE CASE r.type = "FILLED" -> r.exec > 0 /\ a = r.exec + r.leaves /\ b = r.leaves
           [] r.type = "CANCELED" -> a > 0 /\ a = r.leaves /\ b = 0
           [] r.type = "REJECTED" -> a > 0 /\ b = 0
           [] r.type = "CANCEL_REJECTED" -> b = a /\ r.leaves = 0 /\ (~Reorders => a = 0)
           [] OTHER -> b = a

\* q is the open quantity of order id after each of the responses A, which are
\* numbered a + 1 .. b; the first of them is the only one that may refuse it.
Chain(q, A, a, b, id) ==
    /\ q \in [a .. b -> Nat]
    /\ \A j, k \in a .. b : j <= k => q[k] <= q[j]
    /\ \A k \in a + 1 .. b :
          /\ Change(A[k], id, q[k - 1], q[k])
          /\ A[k].id = id /\ A[k].type = "REJECTED" => q[k - 1] = q[a]

\* What the client holds reserved for it ...
Known(id) == IF id \in DOMAIN risk.reservations THEN risk.reservations[id].qty ELSE 0

\* ... and what the exchange can still fill.
AtExchange(id, n) ==
    /\ id \in DOMAIN book => n = book[id].qty
    /\ \A r \in News : r.id = id => n = r.qty
    /\ n # 0 => id \in DOMAIN book \/ \E r \in News : r.id = id

NewsInv ==
    \A r \in News : /\ r.id \in DOMAIN risk.reservations /\ r.id \notin DOMAIN book
                    /\ risk.reservations[r.id] = [side |-> r.side, qty |-> r.qty]

\* The client and the exchange agree on the sides.
SideInv ==
    /\ \A id \in DOMAIN book : /\ id \in DOMAIN risk.reservations
                               /\ book[id].side = risk.reservations[id].side
    /\ \A k \in lastId + 1 .. issued :
          /\ Answers[k] \in ResponseSet /\ Answers[k].id < nextId
          /\ Answers[k].type = "FILLED" => Answers[k].side = risk.reservations[Answers[k].id].side

\* The responses in flight lead from the one to the other.
Explains(q, id) ==
    /\ Chain(q, Answers, lastId, issued, id)
    /\ q[lastId] = Known(id) /\ AtExchange(id, q[issued])

ChainInv == \A id \in Nat : \E q : Explains(q, id)

Ledger == QueueInv /\ Numbering /\ NewsInv /\ SideInv /\ ChainInv

\* A chain, and the responses along it, without the first response.
LaterPart(p, B, q, A, a, b) ==
    p = [k \in a + 1 .. b |-> q[k]] /\ B = [k \in a + 2 .. b |-> A[k]]

\* The client applies the first response.
LEMMA ChainTake ==
    ASSUME NEW a \in Nat, NEW b \in Nat, a < b, NEW A, NEW q, NEW id, Chain(q, A, a, b, id),
           NEW p, NEW B, LaterPart(p, B, q, A, a, b)
    PROVE  /\ Chain(p, B, a + 1, b, id) /\ p[a + 1] = q[a + 1] /\ p[b] = q[b]
           /\ Change(A[a + 1], id, q[a], q[a + 1])
           /\ q[a] \in Nat /\ q[a + 1] \in Nat /\ q[b] \in Nat
           /\ q[a + 1] <= q[a] /\ q[b] <= q[a + 1]
<1>1. p = [k \in a + 1 .. b |-> q[k]]
  BY DEF LaterPart
<1>2. B = [k \in a + 2 .. b |-> A[k]]
  BY DEF LaterPart
<1>3. a \in a .. b /\ a + 1 \in a .. b /\ b \in a .. b /\ a + 1 \in a + 1 .. b /\ b \in a + 1 .. b
  OBVIOUS
<1>4. /\ q \in [a .. b -> Nat]
      /\ \A j, k \in a .. b : j <= k => q[k] <= q[j]
      /\ \A k \in a + 1 .. b : /\ Change(A[k], id, q[k - 1], q[k])
                               /\ A[k].id = id /\ A[k].type = "REJECTED" => q[k - 1] = q[a]
  BY DEF Chain
<1>5. Change(A[a + 1], id, q[a], q[a + 1])
  <2>1. Change(A[a + 1], id, q[a + 1 - 1], q[a + 1])
    BY <1>3, <1>4
  <2>2. a + 1 - 1 = a
    OBVIOUS
  <2> QED
    BY <2>1, <2>2
<1>6. q[a] \in Nat /\ q[a + 1] \in Nat /\ q[b] \in Nat /\ q[a + 1] <= q[a] /\ q[b] <= q[a + 1]
  <2>1. q[a] \in Nat /\ q[a + 1] \in Nat /\ q[b] \in Nat
    BY <1>3, <1>4
  <2>2. a <= a + 1 /\ a + 1 <= b
    OBVIOUS
  <2> QED
    BY <1>3, <1>4, <2>1, <2>2
<1>7. p \in [a + 1 .. b -> Nat] /\ \A k \in a + 1 .. b : p[k] = q[k] /\ k \in a .. b
  BY <1>1, <1>4
<1>8. \A j, k \in a + 1 .. b : j <= k => p[k] <= p[j]
  BY <1>4, <1>7
<1>9. ASSUME NEW k \in (a + 1) + 1 .. b
      PROVE  /\ Change(B[k], id, p[k - 1], p[k])
             /\ B[k].id = id /\ B[k].type = "REJECTED" => p[k - 1] = p[a + 1]
  <2>1. k \in a + 2 .. b /\ k \in a + 1 .. b /\ k - 1 \in a + 1 .. b /\ k - 1 \in a .. b
    OBVIOUS
  <2>2. B[k] = A[k] /\ p[k] = q[k] /\ p[k - 1] = q[k - 1] /\ p[a + 1] = q[a + 1]
    BY <1>2, <1>3, <1>7, <2>1
  <2>3. Change(A[k], id, q[k - 1], q[k])
    BY <1>4, <2>1
  <2>4. ASSUME A[k].id = id, A[k].type = "REJECTED" PROVE q[k - 1] = q[a + 1]
    <3>1. q[k - 1] = q[a]
      BY <1>4, <2>1, <2>4
    <3>2. a + 1 <= k - 1
      OBVIOUS
    <3>3. q[k - 1] <= q[a + 1]
      BY <1>3, <1>4, <2>1, <3>2
    <3> QED
      BY <1>6, <3>1, <3>3
  <2> QED
    BY <2>2, <2>3, <2>4
<1>10. Chain(p, B, a + 1, b, id)
  BY <1>7, <1>8, <1>9 DEF Chain
<1> QED
  BY <1>1, <1>2, <1>3, <1>5, <1>6, <1>7, <1>10

\* The exchange issues one more.
LEMMA ChainGive ==
    ASSUME NEW a \in Nat, NEW b \in Nat, a <= b, NEW A, NEW q, NEW id, Chain(q, A, a, b, id),
           NEW B, \A k \in a + 1 .. b : B[k] = A[k],
           NEW n \in Nat, n <= q[b], Change(B[b + 1], id, q[b], n),
           B[b + 1].id = id /\ B[b + 1].type = "REJECTED" => q[b] = q[a]
    PROVE  \E p : Chain(p, B, a, b + 1, id) /\ p[a] = q[a] /\ p[b + 1] = n
<1>1. PICK p : p = [k \in a .. b + 1 |-> IF k = b + 1 THEN n ELSE q[k]]
  OBVIOUS
<1>2. /\ q \in [a .. b -> Nat]
      /\ \A j, k \in a .. b : j <= k => q[k] <= q[j]
      /\ \A k \in a + 1 .. b : /\ Change(A[k], id, q[k - 1], q[k])
                               /\ A[k].id = id /\ A[k].type = "REJECTED" => q[k - 1] = q[a]
  BY DEF Chain
<1>3. p \in [a .. b + 1 -> Nat] /\ p[b + 1] = n /\ \A k \in a .. b : p[k] = q[k]
  <2>1. \A k \in a .. b + 1 : k # b + 1 => k \in a .. b
    OBVIOUS
  <2>2. b + 1 \in a .. b + 1 /\ \A k \in a .. b : k \in a .. b + 1 /\ k # b + 1
    OBVIOUS
  <2> QED
    BY <1>1, <1>2, <2>1, <2>2
<1>4. ASSUME NEW j \in a .. b + 1, NEW k \in a .. b + 1, j <= k PROVE p[k] <= p[j]
  <2>1. CASE k \in a .. b
    <3>1. j \in a .. b
      BY <1>4, <2>1
    <3> QED
      BY <1>2, <1>3, <1>4, <2>1, <3>1
  <2>2. CASE k = b + 1 /\ j \in a .. b
    <3>1. q[b] <= q[j] /\ q[b] \in Nat /\ q[j] \in Nat
      BY <1>2, <2>2
    <3> QED
      BY <1>3, <2>2, <3>1
  <2>3. CASE k = b + 1 /\ j = b + 1
    BY <1>3, <2>3
  <2>4. (k \in a .. b \/ k = b + 1) /\ (j \in a .. b \/ j = b + 1)
    OBVIOUS
  <2> QED
    BY <2>1, <2>2, <2>3, <2>4
<1>5. ASSUME NEW k \in a + 1 .. b + 1
      PROVE  /\ Change(B[k], id, p[k - 1], p[k])
             /\ B[k].id = id /\ B[k].type = "REJECTED" => p[k - 1] = p[a]
  <2>0. a \in a .. b /\ p[a] = q[a]
    BY <1>3
  <2>1. CASE k \in a + 1 .. b
    <3>1. k \in a .. b /\ k - 1 \in a .. b
      BY <2>1
    <3>2. p[k] = q[k] /\ p[k - 1] = q[k - 1] /\ B[k] = A[k]
      BY <1>3, <2>1, <3>1
    <3> QED
      BY <1>2, <2>0, <2>1, <3>2
  <2>2. CASE k = b + 1
    <3>1. k - 1 = b /\ b \in a .. b
      BY <2>2
    <3>2. p[k - 1] = q[b] /\ p[k] = n
      BY <1>3, <2>2, <3>1
    <3> QED
      BY <2>0, <2>2, <3>2
  <2> QED
    BY <2>1, <2>2
<1>6. Chain(p, B, a, b + 1, id)
  BY <1>3, <1>4, <1>5 DEF Chain
<1>7. p[a] = q[a]
  BY <1>3
<1> QED
  BY <1>3, <1>6, <1>7

\* No response is about an id that was never given out.
NoneAbout(A, a, b, id) == \A k \in a + 1 .. b : A[k].id # id

LEMMA ChainFresh ==
    ASSUME NEW a \in Nat, NEW b \in Nat, a <= b, NEW A, NEW id, NEW n \in Nat,
           NoneAbout(A, a, b, id)
    PROVE  \E p : Chain(p, A, a, b, id) /\ p[a] = n /\ p[b] = n
<1>1. PICK p : p = [k \in a .. b |-> n]
  OBVIOUS
<1>2. p \in [a .. b -> Nat] /\ \A k \in a .. b : p[k] = n
  BY <1>1
<1>3. ASSUME NEW k \in a + 1 .. b PROVE Change(A[k], id, p[k - 1], p[k])
  <2>1. k \in a .. b /\ k - 1 \in a .. b
    OBVIOUS
  <2> QED
    BY <1>2, <2>1 DEF Change, NoneAbout
<1>4. Chain(p, A, a, b, id)
  BY <1>2, <1>3 DEF Chain
<1> QED
  BY <1>1, <1>2, <1>4

\* The ends of a chain.
LEMMA ChainEnds ==
    ASSUME NEW a \in Nat, NEW b \in Nat, a <= b, NEW A, NEW q, NEW id, Chain(q, A, a, b, id)
    PROVE  /\ q[a] \in Nat /\ q[b] \in Nat /\ q[b] <= q[a]
           /\ \A k \in a + 1 .. b : /\ Change(A[k], id, q[k - 1], q[k])
                                    /\ q[k - 1] \in Nat /\ q[k] \in Nat
                                    /\ q[k - 1] <= q[a] /\ q[b] <= q[k]
<1>1. /\ q \in [a .. b -> Nat]
      /\ \A j, k \in a .. b : j <= k => q[k] <= q[j]
      /\ \A k \in a + 1 .. b : Change(A[k], id, q[k - 1], q[k])
  BY DEF Chain
<1>2. a \in a .. b /\ b \in a .. b
  OBVIOUS
<1>3. ASSUME NEW k \in a + 1 .. b
      PROVE  q[k - 1] \in Nat /\ q[k] \in Nat /\ q[k - 1] <= q[a] /\ q[b] <= q[k]
  <2>1. k \in a .. b /\ k - 1 \in a .. b /\ a <= k - 1 /\ k <= b
    OBVIOUS
  <2> QED
    BY <1>1, <1>2, <2>1
<1> QED
  BY <1>1, <1>2, <1>3

\* Neither the client nor the exchange changes an order.
LEMMA LedgerSame ==
    ASSUME Types, Ledger, QueueInv', Numbering', Answers' = Answers, News' = News,
           UNCHANGED <<risk, book, lastId, issued>>, nextId' \in {nextId, nextId + 1}
    PROVE  Ledger'
<1>1. NewsInv'
  <2>1. ASSUME NEW r \in News'
        PROVE  /\ r.id \in DOMAIN risk'.reservations /\ r.id \notin DOMAIN book'
               /\ risk'.reservations[r.id] = [side |-> r.side, qty |-> r.qty]
    BY <2>1 DEF Ledger, NewsInv
  <2> QED
    BY <2>1 DEF NewsInv
<1>2. SideInv'
  <2>1. ASSUME NEW k \in lastId + 1 .. issued PROVE Answers[k].id < nextId'
    <3>1. Answers[k].id \in Nat /\ Answers[k].id < nextId /\ nextId \in Nat
      BY DEF Ledger, SideInv, Types, ResponseSet
    <3> QED
      BY <3>1
  <2> QED
    BY <2>1 DEF Ledger, SideInv
<1>3. ASSUME NEW id \in Nat PROVE \E q : Explains(q, id)'
  <2>1. PICK q : Explains(q, id)
    BY DEF Ledger, ChainInv
  <2>2. Explains(q, id)'
    BY <2>1 DEF Explains, Known, AtExchange
  <2> QED
    BY <2>2
<1> QED
  BY <1>1, <1>2, <1>3 DEF Ledger, ChainInv

\* No request, order or response is known by an id not given out yet.
LEMMA FreshId ==
    ASSUME Types, IdInv, Ledger
    PROVE  /\ nextId \notin DOMAIN risk.reservations /\ nextId \notin DOMAIN book
           /\ \A r \in News : r.id # nextId
           /\ \A k \in lastId + 1 .. issued : Answers[k].id # nextId
<1>1. nextId \notin DOMAIN risk.reservations
  BY DEF IdInv
<1>2. ASSUME NEW k \in lastId + 1 .. issued PROVE Answers[k].id # nextId
  <2>1. Answers[k].id \in Nat /\ Answers[k].id < nextId /\ nextId \in Nat
    BY DEF Ledger, SideInv, Types, ResponseSet
  <2> QED
    BY <2>1
<1> QED
  BY <1>1, <1>2 DEF Ledger, NewsInv, SideInv

\* Before a response that uses an order up in whole or in part, it is open.
LEMMA OpenBefore ==
    ASSUME NEW a \in Nat, NEW b \in Nat, a <= b, NEW A, NEW q, NEW id, Chain(q, A, a, b, id),
           NEW k \in a + 1 .. b, A[k] \in ResponseSet, A[k].id = id,
           A[k].type \in {"FILLED", "CANCELED", "REJECTED"}
    PROVE  q[a] # 0
<1>1. /\ Change(A[k], id, q[k - 1], q[k]) /\ q[k - 1] \in Nat /\ q[k] \in Nat
      /\ q[k - 1] <= q[a] /\ q[a] \in Nat
  BY ChainEnds
<1>2. A[k].exec \in Nat /\ A[k].leaves \in Nat
  BY DEF ResponseSet
<1>3. q[k - 1] > 0
  BY <1>1, <1>2 DEF Change
<1> QED
  BY <1>1, <1>3

\* The order of such a response in flight is still reserved.
LEMMA StillReserved ==
    ASSUME Types, Ledger, NEW k \in lastId + 1 .. issued,
           Answers[k].type \in {"FILLED", "CANCELED", "REJECTED"}
    PROVE  Answers[k].id \in DOMAIN risk.reservations
<1>1. Answers[k] \in ResponseSet /\ Answers[k].id \in Nat
  BY DEF Ledger, SideInv, ResponseSet
<1>2. PICK p : Explains(p, Answers[k].id)
  BY <1>1 DEF Ledger, ChainInv
<1>3. lastId \in Nat /\ issued \in Nat /\ lastId <= issued
  BY DEF Ledger, Numbering, Types
<1>4. Chain(p, Answers, lastId, issued, Answers[k].id) /\ p[lastId] = Known(Answers[k].id)
  BY <1>2 DEF Explains
<1>5. p[lastId] # 0
  BY <1>1, <1>3, <1>4, OpenBefore
<1> QED
  BY <1>4, <1>5 DEF Known

\* The client asks for an order.
LEMMA LedgerPlaced ==
    ASSUME Types, IdInv, Ledger, NEW s \in Sides, NEW q \in Nat \ {0}, Goes(New(nextId, s, q)),
           nextId' = nextId + 1, UNCHANGED <<book, lastId, issued, responses>>
    PROVE  Ledger'
<1>0. nextId \in Nat /\ risk.reservations \in Orders /\ book \in Orders /\ issued \in Nat
  BY DEF Types, RiskSet
<1>1. PICK r : r = New(nextId, s, q)
  OBVIOUS
<1>2. r \in NewSet /\ r.id = nextId /\ r.side = s /\ r.qty = q /\ r.type = "NEW"
  BY <1>1, PlacedFacts DEF New
<1>3. requests' = Append(requests, r)
  BY <1>1, PlacedFacts
<1>4. QueueInv' /\ News' = News \cup {r}
  BY <1>2, <1>3, QueuePlaced DEF Ledger
<1>5. Numbering' /\ Answers' = Answers /\ Numbering
  BY AnswersSame DEF Ledger
<1>6. PICK v : v = [side |-> s, qty |-> q]
  OBVIOUS
<1>7. /\ risk'.reservations = With(risk.reservations, nextId, v)
      /\ v \in Order /\ v.side = s /\ v.qty = q
  BY <1>6, PlacedFacts
<1>8. /\ DOMAIN risk'.reservations = DOMAIN risk.reservations \cup {nextId}
      /\ risk'.reservations[nextId] = v
      /\ \A x \in DOMAIN risk.reservations : x # nextId => risk'.reservations[x] = risk.reservations[x]
  BY <1>7 DEF With
<1>9. NewsInv'
  <2>1. ASSUME NEW x \in News'
        PROVE  /\ x.id \in DOMAIN risk'.reservations /\ x.id \notin DOMAIN book
               /\ risk'.reservations[x.id] = [side |-> x.side, qty |-> x.qty]
    <3>1. CASE x = r
      BY <1>2, <1>6, <1>8, <3>1, FreshId
    <3>2. CASE x \in News
      BY <1>8, <3>2, FreshId DEF Ledger, NewsInv
    <3> QED
      BY <1>4, <3>1, <3>2
  <2> QED
    BY <2>1 DEF NewsInv
<1>10. SideInv'
  <2>1. \A k \in lastId + 1 .. issued : Answers[k].id < nextId'
    BY <1>0 DEF Ledger, SideInv, ResponseSet
  <2>2. ASSUME NEW k \in lastId + 1 .. issued, Answers[k].type = "FILLED"
        PROVE  Answers[k].side = risk'.reservations[Answers[k].id].side
    <3>1. Answers[k].id \in DOMAIN risk.reservations
      BY <2>2, StillReserved
    <3>2. risk'.reservations[Answers[k].id] = risk.reservations[Answers[k].id]
      BY <1>8, <3>1, FreshId
    <3> QED
      BY <2>2, <3>2 DEF Ledger, SideInv
  <2>3. ASSUME NEW id \in DOMAIN book
        PROVE  id \in DOMAIN risk'.reservations /\ book[id].side = risk'.reservations[id].side
    BY <1>8, <2>3, FreshId DEF Ledger, SideInv
  <2> QED
    BY <1>5, <2>1, <2>2, <2>3 DEF Ledger, SideInv
<1>11. ASSUME NEW id \in Nat PROVE \E p : Explains(p, id)'
  <2>1. CASE id # nextId
    <3>1. PICK p : Explains(p, id)
      BY DEF Ledger, ChainInv
    <3>2. Known(id)' = Known(id)
      BY <1>8, <2>1 DEF Known
    <3>3. AtExchange(id, p[issued])'
      BY <1>2, <1>4, <2>1, <3>1 DEF Explains, AtExchange
    <3>4. Explains(p, id)'
      BY <1>5, <3>1, <3>2, <3>3 DEF Explains
    <3> QED
      BY <3>4
  <2>2. CASE id = nextId
    <3>a. lastId \in Nat /\ lastId <= issued /\ q \in Nat
      BY <1>5 DEF Numbering
    <3>b. NoneAbout(Answers, lastId, issued, id)
      BY <2>2, FreshId DEF NoneAbout
    <3>2. PICK p : Chain(p, Answers, lastId, issued, id) /\ p[lastId] = q /\ p[issued] = q
      BY <1>0, <3>a, <3>b, ChainFresh
    <3>3. Known(id)' = q
      BY <1>7, <1>8, <2>2 DEF Known
    <3>4. AtExchange(id, q)'
      BY <1>2, <1>4, <2>2, FreshId DEF AtExchange
    <3>5. Explains(p, id)'
      BY <1>5, <3>2, <3>3, <3>4 DEF Explains
    <3> QED
      BY <3>5
  <2> QED
    BY <2>1, <2>2
<1> QED
  BY <1>4, <1>5, <1>9, <1>10, <1>11 DEF Ledger, ChainInv

\* The responses left after the client has taken r explain order id, p being its
\* open quantity after each of them.
Left(p, r, id) ==
    /\ Chain(p, Answers', lastId', issued', id)
    /\ Change(r, id, Known(id), p[lastId']) /\ AtExchange(id, p[issued'])
    /\ Known(id) \in Nat /\ p[lastId'] \in Nat /\ p[issued'] \in Nat
    /\ p[lastId'] <= Known(id) /\ p[issued'] <= p[lastId']
    /\ \A k \in lastId' + 1 .. issued' :
          Answers'[k].id = id /\ Answers'[k].type = "REJECTED" => p[lastId'] = Known(id)

LEMMA LeftExplains ==
    ASSUME Types, Ledger, NEW r, Answered(r), r.rid > lastId, NEW id \in Nat
    PROVE  \E p : Left(p, r, id)
<1>1. PICK q : Explains(q, id)
  BY DEF Ledger, ChainInv
<1>2. /\ Chain(q, Answers, lastId, issued, id)
      /\ q[lastId] = Known(id) /\ AtExchange(id, q[issued])
  BY <1>1 DEF Explains
<1>3. PICK a \in Nat : a = lastId
  BY DEF Ledger, Numbering
<1>4. PICK b \in Nat : b = issued
  BY DEF Types
<1>5. PICK A : A = Answers
  OBVIOUS
<1>6. PICK B : B = Answers'
  OBVIOUS
<1>7. /\ issued' = issued /\ lastId' = lastId + 1 /\ lastId + 1 \in 1 .. issued
      /\ r = Answers[lastId + 1] /\ Answers' = [k \in lastId + 2 .. issued |-> Answers[k]]
  BY AnswersTaken DEF Ledger
<1>8. /\ lastId' = a + 1 /\ issued' = b /\ a < b /\ r = A[a + 1]
      /\ B = [k \in a + 2 .. b |-> A[k]] /\ Chain(q, A, a, b, id)
  BY <1>2, <1>3, <1>4, <1>5, <1>6, <1>7
<1>9. PICK p : p = [k \in a + 1 .. b |-> q[k]]
  OBVIOUS
<1>10. /\ Chain(p, B, a + 1, b, id) /\ p[a + 1] = q[a + 1] /\ p[b] = q[b]
       /\ Change(A[a + 1], id, q[a], q[a + 1])
       /\ q[a] \in Nat /\ q[a + 1] \in Nat /\ q[b] \in Nat
       /\ q[a + 1] <= q[a] /\ q[b] <= q[a + 1]
  <2>1. LaterPart(p, B, q, A, a, b)
    BY <1>8, <1>9 DEF LaterPart
  <2> QED
    BY <1>8, <2>1, ChainTake
<1>11. ASSUME NEW k \in a + 2 .. b, B[k].id = id, B[k].type = "REJECTED" PROVE q[a + 1] = q[a]
  <2>1. k \in a + 1 .. b /\ k - 1 \in a .. b /\ a + 1 \in a .. b /\ a + 1 <= k - 1
    OBVIOUS
  <2>2. A[k] = B[k]
    BY <1>8
  <2>3. q[k - 1] = q[a] /\ q[k - 1] <= q[a + 1]
    BY <1>8, <1>11, <2>1, <2>2 DEF Chain
  <2> QED
    BY <1>10, <2>3
<1>12. \A k \in lastId' + 1 .. issued' :
          Answers'[k].id = id /\ Answers'[k].type = "REJECTED" => p[lastId'] = Known(id)
  <2>1. \A k \in a + 2 .. b : B[k].id = id /\ B[k].type = "REJECTED" => p[a + 1] = q[a]
    BY <1>10, <1>11
  <2>2. (a + 1) + 1 .. b = a + 2 .. b
    OBVIOUS
  <2> QED
    BY <1>2, <1>3, <1>6, <1>8, <2>1, <2>2
<1>13. Left(p, r, id)
  BY <1>2, <1>3, <1>4, <1>6, <1>8, <1>10, <1>12 DEF Left
<1> QED
  BY <1>13

\* A response that contradicts the reservations changes nothing at the exchange.
LEMMA ContradictionIsCancel ==
    ASSUME Types, Ledger, NEW r, Answered(r), r.rid > lastId, ~Agrees(risk, r)
    PROVE  r.type = "CANCEL_REJECTED" /\ r.id \in DOMAIN risk.reservations
<1>1. r \in ResponseSet
  BY DEF Answered
<1>2. CASE r.type = "FILLED"
  <2>1. r = Answers[lastId + 1] /\ lastId + 1 \in lastId + 1 .. issued
    <3>1. lastId \in Nat /\ issued \in Nat
      BY DEF Ledger, Numbering, Types
    <3>2. r = Answers[lastId + 1] /\ lastId + 1 \in 1 .. issued
      BY AnswersTaken DEF Ledger
    <3> QED
      BY <3>1, <3>2
  <2>2. r.id \in DOMAIN risk.reservations /\ r.side = risk.reservations[r.id].side
    BY <1>2, <2>1, StillReserved DEF Ledger, SideInv
  <2>3. PICK id \in Nat : id = r.id
    BY <1>1 DEF ResponseSet
  <2>4. PICK p : Left(p, r, id)
    BY <2>3, LeftExplains
  <2>5. PICK n \in Nat : n = Known(id)
    BY <2>4 DEF Left
  <2>6. n = r.exec + r.leaves /\ r.exec > 0 /\ n = risk.reservations[r.id].qty
    BY <1>2, <2>2, <2>3, <2>4, <2>5 DEF Left, Change, Known
  <2>7. r.exec \in Nat /\ r.leaves \in Nat
    BY <1>1 DEF ResponseSet
  <2>8. r.exec \in 1 .. n
    BY <2>6, <2>7
  <2> QED
    BY <1>2, <2>2, <2>6, <2>8 DEF Agrees
<1>3. CASE r.type # "FILLED"
  BY <1>3 DEF Agrees
<1> QED
  BY <1>2, <1>3

\* What the client holds reserved after it has taken r.
LEMMA KnownAfter ==
    ASSUME Types, Ledger, NEW r, Answered(r), r.rid > lastId, NEW id \in Nat, NEW p, Left(p, r, id)
    PROVE  Known(id)' = p[lastId']
<1>0. r \in ResponseSet /\ r.rid \in Nat /\ lastId \in Nat
  BY DEF Answered, Ledger, Numbering, ResponseSet
<1>1. (Contradicts(r) \/ Applied(r)) /\ risk \in RiskSet /\ risk.reservations \in Orders
  <2>1. ~(r.rid <= lastId)
    BY <1>0
  <2> QED
    BY <2>1 DEF Answered, Types, RiskSet
<1>2. PICK a \in Nat : a = Known(id)
  BY DEF Left
<1>3. PICK b \in Nat : b = p[lastId']
  BY DEF Left
<1>4. Change(r, id, a, b)
  BY <1>2, <1>3 DEF Left
<1>5. CASE risk' = risk /\ b = a
  BY <1>2, <1>3, <1>5 DEF Known
<1>6. CASE Contradicts(r)
  <2>1. r.type = "CANCEL_REJECTED" /\ risk' = risk
    BY <1>6, ContradictionIsCancel DEF Contradicts
  <2> QED
    BY <1>4, <1>5, <2>1 DEF Change
<1>7. CASE Applied(r)
  <2>1. Agrees(risk, r) /\ risk' = Release(risk, r)
    BY <1>7 DEF Applied
  <2>2. CASE Ignores(risk, r)
    <3>1. risk' = risk
      BY <2>1, <2>2 DEF Ignores
    <3>2. b = a
      BY <1>2, <1>4, <2>2 DEF Ignores, Change, Known
    <3> QED
      BY <1>5, <3>1, <3>2
  <2>3. CASE Ends(risk, r)
    <3>1. risk'.reservations = Without(risk.reservations, r.id)
      BY <2>1, <2>3 DEF Ends
    <3>2. CASE id = r.id
      <4>1. b = 0
        BY <1>4, <2>3, <3>2 DEF Ends, Change
      <4>2. Known(id)' = 0
        BY <3>1, <3>2 DEF Known, Without
      <4> QED
        BY <1>3, <4>1, <4>2
    <3>3. CASE id # r.id
      <4>1. b = a
        BY <1>4, <3>3 DEF Change
      <4>2. Known(id)' = Known(id)
        BY <3>1, <3>3 DEF Known, Without
      <4> QED
        BY <1>2, <1>3, <4>1, <4>2
    <3> QED
      BY <3>2, <3>3
  <2>4. CASE Reduces(risk, r)
    <3>1. /\ DOMAIN risk'.reservations = DOMAIN risk.reservations
          /\ \A x \in DOMAIN risk.reservations :
                risk'.reservations[x] = IF x = r.id
                                        THEN [side |-> risk.reservations[r.id].side, qty |-> r.leaves]
                                        ELSE risk.reservations[x]
      BY <2>1, <2>4 DEF Reduces
    <3>2. CASE id = r.id
      <4>1. b = r.leaves
        BY <1>4, <2>4, <3>2 DEF Reduces, Change
      <4>2. Known(id)' = r.leaves
        BY <2>4, <3>1, <3>2 DEF Known, Reduces
      <4> QED
        BY <1>3, <4>1, <4>2
    <3>3. CASE id # r.id
      <4>1. b = a
        BY <1>4, <3>3 DEF Change
      <4>2. Known(id)' = Known(id)
        BY <3>1, <3>3 DEF Known
      <4> QED
        BY <1>2, <1>3, <4>1, <4>2
    <3> QED
      BY <3>2, <3>3
  <2> QED
    BY <1>0, <1>1, <2>1, <2>2, <2>3, <2>4, ReleaseKinds
<1> QED
  BY <1>1, <1>6, <1>7

\* The reservations after r, by domain and side: only the order of r can go.
LEMMA ReservationsAfter ==
    ASSUME Types, Ledger, NEW r, Answered(r), r.rid > lastId
    PROVE  /\ DOMAIN risk'.reservations \subseteq DOMAIN risk.reservations
           /\ \A x \in DOMAIN risk.reservations :
                 /\ x # r.id => /\ x \in DOMAIN risk'.reservations
                                /\ risk'.reservations[x] = risk.reservations[x]
                 /\ x \in DOMAIN risk'.reservations =>
                       risk'.reservations[x].side = risk.reservations[x].side
<1>0. r \in ResponseSet /\ r.rid \in Nat /\ lastId \in Nat
  BY DEF Answered, Ledger, Numbering, ResponseSet
<1>1. (Contradicts(r) \/ Applied(r)) /\ risk \in RiskSet
  <2>1. ~(r.rid <= lastId)
    BY <1>0
  <2> QED
    BY <2>1 DEF Answered, Types
<1>2. CASE risk' = risk
  BY <1>2
<1>3. CASE Applied(r)
  <2>1. Agrees(risk, r) /\ risk' = Release(risk, r)
    BY <1>3 DEF Applied
  <2>2. CASE Ignores(risk, r)
    BY <1>2, <2>1, <2>2 DEF Ignores
  <2>3. CASE Ends(risk, r)
    BY <2>1, <2>3 DEF Ends, Without
  <2>4. CASE Reduces(risk, r)
    <3>1. /\ DOMAIN risk'.reservations = DOMAIN risk.reservations
          /\ \A x \in DOMAIN risk.reservations :
                risk'.reservations[x] = IF x = r.id
                                        THEN [side |-> risk.reservations[r.id].side, qty |-> r.leaves]
                                        ELSE risk.reservations[x]
      BY <2>1, <2>4 DEF Reduces
    <3> QED
      BY <3>1
  <2> QED
    BY <1>0, <1>1, <2>1, <2>2, <2>3, <2>4, ReleaseKinds
<1> QED
  BY <1>1, <1>2, <1>3 DEF Contradicts

\* The client takes a response.
LEMMA LedgerTaken ==
    ASSUME Types, Types', Ledger, NEW r, Answered(r), r.rid > lastId
    PROVE  Ledger'
<1>0. /\ issued' = issued /\ lastId' = lastId + 1 /\ lastId + 1 \in 1 .. issued /\ Numbering'
      /\ r = Answers[lastId + 1] /\ Answers' = [k \in lastId + 2 .. issued |-> Answers[k]]
  BY AnswersTaken DEF Ledger
<1>1. lastId \in Nat /\ issued \in Nat
  BY DEF Types, Ledger, Numbering
<1>2. UNCHANGED <<requests, book, nextId>> /\ News' = News /\ QueueInv'
  <2>1. requests' = requests /\ book' = book
    BY DEF Answered, exchangeVars
  <2>2. nextId' = nextId
    BY DEF Answered, Contradicts, Applied, clientVars
  <2>3. News' = News
    BY <2>1 DEF News
  <2>4. QueueInv'
    BY <2>1, <2>2 DEF QueueInv, Ledger
  <2> QED
    BY <2>1, <2>2, <2>3, <2>4
<1>3. ASSUME NEW id \in Nat PROVE \E p : Explains(p, id)' /\ Left(p, r, id)
  <2>1. PICK p : Left(p, r, id)
    BY LeftExplains
  <2>2. p[lastId'] = Known(id)'
    BY <2>1, KnownAfter
  <2>3. AtExchange(id, p[issued])'
    BY <1>2, <2>1 DEF Left, AtExchange
  <2>4. Explains(p, id)'
    BY <2>1, <2>2, <2>3 DEF Left, Explains
  <2> QED
    BY <2>1, <2>4
<1>4. ASSUME NEW x \in News
      PROVE  /\ x.id \in DOMAIN risk'.reservations
             /\ risk'.reservations[x.id] = [side |-> x.side, qty |-> x.qty]
  <2>1. x.id \in DOMAIN risk.reservations /\ risk.reservations[x.id] = [side |-> x.side, qty |-> x.qty]
    BY DEF Ledger, NewsInv
  <2>2. x \in NewSet
    BY RangeSeq DEF News, Types, RequestSet, CancelSet
  <2>3. PICK id \in Nat : id = x.id
    BY <2>2 DEF NewSet
  <2>4. PICK p : Explains(p, id)' /\ Left(p, r, id)
    BY <1>3
  <2>5. PICK n \in Nat \ {0} : n = x.qty /\ x.side \in Sides
    BY <2>2 DEF NewSet
  <2>6. Known(id) = n /\ p[issued'] = n /\ p[lastId'] \in Nat /\ p[lastId'] <= n /\ n <= p[lastId']
    BY <2>1, <2>3, <2>4, <2>5 DEF Left, Known, AtExchange
  <2>7. Known(id)' = n
    BY <2>4, <2>6 DEF Explains
  <2>8. id \in DOMAIN risk'.reservations /\ risk'.reservations[id].qty = n
    BY <2>5, <2>7 DEF Known
  <2>9. risk'.reservations[id].side = x.side
    BY <2>1, <2>3, <2>8, ReservationsAfter
  <2>10. risk'.reservations[id] \in Order
    BY <2>8, OrdersElement DEF Types, RiskSet
  <2> QED
    BY <2>3, <2>5, <2>8, <2>9, <2>10 DEF Order
<1>5. NewsInv'
  <2>1. ASSUME NEW x \in News'
        PROVE  /\ x.id \in DOMAIN risk'.reservations /\ x.id \notin DOMAIN book'
               /\ risk'.reservations[x.id] = [side |-> x.side, qty |-> x.qty]
    BY <1>2, <1>4 DEF Ledger, NewsInv
  <2> QED
    BY <2>1 DEF NewsInv
<1>6. ASSUME NEW id \in DOMAIN book
      PROVE  id \in DOMAIN risk'.reservations /\ book[id].side = risk'.reservations[id].side
  <2>1. id \in DOMAIN risk.reservations /\ book[id].side = risk.reservations[id].side
    BY DEF Ledger, SideInv
  <2>2. id \in Nat /\ book[id] \in Order
    BY OrdersElement DEF Types
  <2>3. PICK p : Explains(p, id)' /\ Left(p, r, id)
    BY <1>3, <2>2
  <2>4. p[issued'] = book[id].qty /\ p[issued'] <= p[lastId'] /\ p[lastId'] \in Nat
    BY <1>6, <2>3 DEF Left, AtExchange
  <2>5. Known(id)' # 0
    BY <2>2, <2>3, <2>4 DEF Explains, Order
  <2>6. id \in DOMAIN risk'.reservations
    BY <2>5 DEF Known
  <2> QED
    BY <2>1, <2>6, ReservationsAfter
<1>7. ASSUME NEW k \in lastId' + 1 .. issued'
      PROVE  /\ Answers'[k] \in ResponseSet /\ Answers'[k].id < nextId'
             /\ Answers'[k].type = "FILLED" => Answers'[k].side = risk'.reservations[Answers'[k].id].side
  <2>1. k \in lastId + 1 .. issued /\ k \in lastId + 2 .. issued
    BY <1>0, <1>1
  <2>2. Answers'[k] = Answers[k]
    BY <1>0, <2>1
  <2>3. Answers[k] \in ResponseSet /\ Answers[k].id < nextId
    BY <2>1 DEF Ledger, SideInv
  <2>4. ASSUME Answers[k].type = "FILLED"
        PROVE  Answers[k].side = risk'.reservations[Answers[k].id].side
    <3>1. PICK id \in Nat : id = Answers[k].id
      BY <2>3 DEF ResponseSet
    <3>2. Answers[k].side = risk.reservations[id].side /\ id \in DOMAIN risk.reservations
      BY <2>1, <2>4, <3>1, StillReserved DEF Ledger, SideInv
    <3>3. PICK p : Explains(p, id)' /\ Left(p, r, id)
      BY <1>3
    <3>4. PICK a \in Nat : a = lastId'
      BY <1>0, <1>1
    <3>5. PICK b \in Nat : b = issued' /\ a <= b
      BY <1>0, <1>1, <3>4
    <3>6. Chain(p, Answers', a, b, id) /\ k \in a + 1 .. b
      BY <3>3, <3>4, <3>5 DEF Left
    <3>8. p[a] # 0
      BY <2>2, <2>3, <2>4, <3>1, <3>5, <3>6, OpenBefore
    <3>9. Known(id)' # 0
      BY <3>3, <3>4, <3>8 DEF Explains
    <3>10. id \in DOMAIN risk'.reservations
      BY <3>9 DEF Known
    <3> QED
      BY <3>1, <3>2, <3>10, ReservationsAfter
  <2> QED
    BY <1>2, <2>2, <2>3, <2>4
<1>8. SideInv'
  BY <1>2, <1>6, <1>7 DEF SideInv
<1> QED
  BY <1>0, <1>2, <1>3, <1>5, <1>8 DEF Ledger, ChainInv

\* The exchange changes the order of response x alone, and x says how: an open
\* quantity of a becomes n.
Moves(x, a, n) ==
    /\ n \in Nat /\ n <= a /\ Change(x, x.id, a, n)
    /\ x.type = "REJECTED" => a = Known(x.id)
    /\ AtExchange(x.id, n)'

Gives(x) ==
    /\ x \in ResponseSet /\ x.id < nextId
    /\ x.type = "FILLED" => x.side = risk.reservations[x.id].side
    /\ UNCHANGED <<risk, lastId, nextId>> /\ issued' = issued + 1
    /\ Answers'[issued + 1] = x /\ \A k \in lastId + 1 .. issued : Answers'[k] = Answers[k]
    /\ News' \subseteq News /\ \A r \in News : r.id # x.id => r \in News'
    /\ \A id : id # x.id => /\ id \in DOMAIN book' <=> id \in DOMAIN book
                            /\ id \in DOMAIN book => book'[id] = book[id]
    /\ x.id \in DOMAIN book' => /\ x.id \in DOMAIN risk.reservations
                                /\ book'[x.id].side = risk.reservations[x.id].side
                                /\ \A r \in News' : r.id # x.id

\* The exchange answers.
LEMMA LedgerGiven ==
    ASSUME Types, Ledger, QueueInv', Numbering', NEW x, Gives(x),
           \A a \in Nat : AtExchange(x.id, a) => \E n : Moves(x, a, n)
    PROVE  Ledger'
<1>0. lastId \in Nat /\ issued \in Nat /\ lastId <= issued /\ UNCHANGED <<risk, lastId, nextId>>
      /\ issued' = issued + 1 /\ x \in ResponseSet
  BY DEF Types, Ledger, Numbering, Gives
<1>1. NewsInv'
  <2>1. ASSUME NEW r \in News'
        PROVE  /\ r.id \in DOMAIN risk'.reservations /\ r.id \notin DOMAIN book'
               /\ risk'.reservations[r.id] = [side |-> r.side, qty |-> r.qty]
    <3>1. r \in News
      BY DEF Gives
    <3> QED
      BY <1>0, <3>1 DEF Ledger, NewsInv, Gives
  <2> QED
    BY <2>1 DEF NewsInv
<1>2. ASSUME NEW id \in DOMAIN book'
      PROVE  id \in DOMAIN risk'.reservations /\ book'[id].side = risk'.reservations[id].side
  BY <1>0, <1>2 DEF Ledger, SideInv, Gives
<1>3. ASSUME NEW k \in lastId' + 1 .. issued'
      PROVE  /\ Answers'[k] \in ResponseSet /\ Answers'[k].id < nextId'
             /\ Answers'[k].type = "FILLED" => Answers'[k].side = risk'.reservations[Answers'[k].id].side
  <2>1. CASE k = issued + 1
    BY <1>0, <2>1 DEF Gives
  <2>2. CASE k \in lastId + 1 .. issued
    BY <1>0, <2>2 DEF Gives, Ledger, SideInv
  <2> QED
    BY <1>0, <2>1, <2>2
<1>4. SideInv'
  BY <1>2, <1>3 DEF SideInv
<1>5. ASSUME NEW id \in Nat PROVE \E p : Explains(p, id)'
  <2>1. PICK q : Explains(q, id)
    BY DEF Ledger, ChainInv
  <2>2. /\ Chain(q, Answers, lastId, issued, id)
        /\ q[lastId] = Known(id) /\ AtExchange(id, q[issued]) /\ q[issued] \in Nat
    BY <1>0, <2>1, ChainEnds DEF Explains
  <2>3. PICK n \in Nat : /\ n <= q[issued] /\ Change(x, id, q[issued], n) /\ AtExchange(id, n)'
                         /\ x.id = id /\ x.type = "REJECTED" => q[issued] = q[lastId]
    <3>1. CASE id = x.id
      <4>1. PICK n : Moves(x, q[issued], n)
        BY <2>2, <3>1
      <4> QED
        BY <2>2, <3>1, <4>1 DEF Moves
    <3>2. CASE id # x.id
      <4>2. PICK n \in Nat : n = q[issued]
        BY <2>2
      <4>3. AtExchange(id, n)'
        BY <2>2, <3>2, <4>2 DEF AtExchange, Gives
      <4>4. Change(x, id, q[issued], n)
        BY <3>2, <4>2 DEF Change
      <4> QED
        BY <3>2, <4>2, <4>3, <4>4
    <3> QED
      BY <3>1, <3>2
  <2>4. PICK a \in Nat : a = lastId
    BY <1>0
  <2>5. PICK b \in Nat : b = issued
    BY <1>0
  <2>6. PICK A : A = Answers
    OBVIOUS
  <2>7. PICK B : B = Answers'
    OBVIOUS
  <2>8. /\ a <= b /\ Chain(q, A, a, b, id) /\ \A k \in a + 1 .. b : B[k] = A[k]
        /\ B[b + 1] = x
    BY <1>0, <2>2, <2>4, <2>5, <2>6, <2>7 DEF Gives
  <2>9. PICK p : Chain(p, B, a, b + 1, id) /\ p[a] = q[a] /\ p[b + 1] = n
    BY <2>3, <2>4, <2>5, <2>8, ChainGive
  <2>10. /\ Chain(p, Answers', lastId', issued', id)
         /\ p[lastId'] = q[lastId] /\ p[issued'] = n
    BY <1>0, <2>4, <2>5, <2>7, <2>9
  <2>11. Known(id)' = Known(id)
    BY <1>0 DEF Known
  <2>12. Explains(p, id)'
    BY <2>2, <2>3, <2>10, <2>11 DEF Explains
  <2> QED
    BY <2>12
<1> QED
  BY <1>1, <1>4, <1>5 DEF Ledger, ChainInv

\* A new order at the exchange's door: known to both, not resting yet, asked for once.
LEMMA NewAtDoor ==
    ASSUME Types, Ledger, NEW i \in 1 .. Len(requests), requests[i].type = "NEW"
    PROVE  LET r == requests[i] IN
           /\ r \in News /\ r \in NewSet /\ r.id \notin DOMAIN book
           /\ r.id \in DOMAIN risk.reservations
           /\ risk.reservations[r.id] = [side |-> r.side, qty |-> r.qty]
           /\ \A y \in News : y.id = r.id => y = r
<1>0. requests \in Seq(RequestSet)
  BY DEF Types
<1>1. PICK r : r = requests[i]
  OBVIOUS
<1>2. r \in News
  BY <1>0, <1>1, RangeSeq DEF News
<1>3. r \in NewSet
  BY <1>0, <1>1 DEF RequestSet, CancelSet
<1>4. ASSUME NEW y \in News, y.id = r.id PROVE y = r
  <2>1. PICK j \in 1 .. Len(requests) : y = requests[j]
    BY <1>0, RangeSeq DEF News
  <2>2. y.type = "NEW"
    BY DEF News
  <2> QED
    BY <1>1, <1>4, <2>1, <2>2 DEF Ledger, QueueInv
<1> QED
  BY <1>1, <1>2, <1>3, <1>4 DEF Ledger, NewsInv

\* The order book after a new order has come to rest ...
LEMMA BookWith ==
    ASSUME NEW f, NEW x, NEW v
    PROVE  LET g == With(f, x, v) IN
           /\ x \in DOMAIN g /\ g[x] = v
           /\ \A y : y # x => /\ y \in DOMAIN g <=> y \in DOMAIN f
                              /\ y \in DOMAIN f => g[y] = f[y]
BY DEF With

\* ... and after one has left.
LEMMA BookWithout ==
    ASSUME NEW f, NEW x
    PROVE  LET g == Without(f, x) IN
           /\ x \notin DOMAIN g
           /\ \A y : y # x => /\ y \in DOMAIN g <=> y \in DOMAIN f
                              /\ y \in DOMAIN f => g[y] = f[y]
BY DEF Without

\* How the exchange answers a request with x: a new order comes to rest or is
\* refused, a resting one is taken out, or there is none to take out.
Decides(x) ==
    \/ /\ x.type = "ACCEPTED"
       /\ \E r \in News : /\ x.id = r.id /\ x.id \notin DOMAIN book /\ News' = News \ {r}
                         /\ book' = With(book, x.id, [side |-> r.side, qty |-> r.qty])
    \/ /\ x.type = "REJECTED" /\ x.id \in DOMAIN risk.reservations
       /\ \E r \in News : /\ risk.reservations[x.id] = [side |-> r.side, qty |-> r.qty]
                         /\ x.id = r.id /\ News' = News \ {r} /\ book' = book
    \/ /\ x.type = "CANCELED" /\ x.id \in DOMAIN book /\ x.leaves = book[x.id].qty
       /\ book' = Without(book, x.id) /\ News' = News
    \/ x.type = "CANCEL_REJECTED" /\ book' = book /\ News' = News

\* The exchange takes a request.
LEMMA LedgerRequest ==
    ASSUME Types, Ledger, ExchangeRequest
    PROVE  Ledger' /\ \E x : Gives(x) /\ Decides(x)
<1>0. /\ requests \in Seq(RequestSet) /\ issued \in Nat /\ lastId \in Nat
      /\ UNCHANGED <<risk, lastId, nextId>> /\ book \in Orders
  BY DEF Types, Ledger, Numbering, ExchangeRequest, clientVars
<1>1. PICK i \in Arrival :
         /\ requests' = RemoveAt(requests, i)
         /\ LET r == requests[i] IN
            \/ /\ r.type = "NEW"
               /\ book' = With(book, r.id, [side |-> r.side, qty |-> r.qty])
               /\ Reply("ACCEPTED", r, 0, r.qty)
            \/ r.type = "NEW" /\ Reply("REJECTED", r, 0, 0) /\ book' = book
            \/ /\ r.type = "CANCEL" /\ r.id \in DOMAIN book /\ book' = Without(book, r.id)
               /\ Reply("CANCELED", r, 0, book[r.id].qty)
            \/ /\ r.type = "CANCEL" /\ r.id \notin DOMAIN book /\ book' = book
               /\ Reply("CANCEL_REJECTED", r, 0, 0)
  BY DEF ExchangeRequest, RemoveAt
<1>2. i \in 1 .. Len(requests) /\ (~Reorders => i = 1)
  BY <1>0 DEF Arrival
<1>3. PICK r \in RequestSet : r = requests[i]
  BY <1>0, <1>2
<1>4. r.id \in Nat /\ r.side \in Sides /\ r.qty \in Nat /\ r.id < nextId
  BY <1>2, <1>3 DEF RequestSet, NewSet, CancelSet, Ledger, QueueInv
<1>5. /\ QueueInv'
      /\ r.type = "NEW" => News' = News \ {r}
      /\ r.type = "CANCEL" => News' = News
  BY <1>0, <1>1, <1>2, <1>3, QueueTaken DEF Ledger
<1>6. ASSUME NEW type \in ResponseTypes \ {"FILLED"}, NEW leaves \in Nat, Reply(type, r, 0, leaves)
      PROVE  LET x == Response(type, r, 0, leaves) IN
             /\ Numbering' /\ issued' = issued + 1 /\ x \in ResponseSet
             /\ Answers'[issued + 1] = x /\ \A k \in lastId + 1 .. issued : Answers'[k] = Answers[k]
             /\ x.type = type /\ x.id = r.id /\ x.leaves = leaves
  <2>1. PICK x : x = Response(type, r, 0, leaves)
    OBVIOUS
  <2>2. x \in ResponseSet /\ x.type = type /\ x.id = r.id /\ x.leaves = leaves
    BY <1>0, <1>4, <2>1 DEF Response, ResponseSet
  <2>3. /\ Numbering' /\ issued' = issued + 1
        /\ Answers'[issued + 1] = Response(type, r, 0, leaves)
        /\ \A k \in lastId + 1 .. issued : Answers'[k] = Answers[k]
    BY <1>0, <1>4, <1>6, AnswersGiven DEF Ledger
  <2> QED
    BY <2>1, <2>2, <2>3
<1>7. CASE r.type = "NEW"
  <2>0. /\ r \in News /\ r \in NewSet /\ r.id \notin DOMAIN book
        /\ r.id \in DOMAIN risk.reservations
        /\ risk.reservations[r.id] = [side |-> r.side, qty |-> r.qty]
        /\ \A y \in News : y.id = r.id => y = r
    BY <1>2, <1>3, <1>7, NewAtDoor
  <2>a. News' \subseteq News /\ (\A y \in News : y.id # r.id => y \in News') /\ \A y \in News' : y.id # r.id
    BY <1>5, <1>7, <2>0
  <2>b. \A a \in Nat : AtExchange(r.id, a) => a = r.qty
    BY <2>0 DEF AtExchange
  <2>c. r.qty \in Nat \ {0}
    BY <2>0 DEF NewSet
  <2>1. CASE book' = With(book, r.id, [side |-> r.side, qty |-> r.qty]) /\ Reply("ACCEPTED", r, 0, r.qty)
    <3>1. PICK x : x = Response("ACCEPTED", r, 0, r.qty)
      OBVIOUS
    <3>2. /\ Numbering' /\ issued' = issued + 1 /\ x \in ResponseSet
          /\ Answers'[issued + 1] = x /\ \A k \in lastId + 1 .. issued : Answers'[k] = Answers[k]
          /\ x.type = "ACCEPTED" /\ x.id = r.id
      BY <1>4, <1>6, <2>1, <3>1 DEF ResponseTypes
    <3>3. PICK v : v = [side |-> r.side, qty |-> r.qty]
      OBVIOUS
    <3>4. /\ r.id \in DOMAIN book' /\ book'[r.id] = v /\ v.side = r.side /\ v.qty = r.qty
          /\ \A y : y # r.id => /\ y \in DOMAIN book' <=> y \in DOMAIN book
                                /\ y \in DOMAIN book => book'[y] = book[y]
      BY <2>1, <3>3, BookWith
    <3>5. Gives(x)
      BY <1>0, <1>4, <2>0, <2>a, <3>2, <3>3, <3>4 DEF Gives
    <3>6. AtExchange(r.id, r.qty)'
      BY <2>a, <3>4 DEF AtExchange
    <3>7. \A a \in Nat : AtExchange(x.id, a) => Moves(x, a, r.qty)
      BY <2>b, <2>c, <3>2, <3>6 DEF Moves, Change
    <3>8. Decides(x)
      BY <1>5, <1>7, <2>0, <2>1, <3>2 DEF Decides
    <3> QED
      BY <1>5, <3>2, <3>5, <3>7, <3>8, LedgerGiven
  <2>2. CASE Reply("REJECTED", r, 0, 0) /\ book' = book
    <3>1. PICK x : x = Response("REJECTED", r, 0, 0)
      OBVIOUS
    <3>2. /\ Numbering' /\ issued' = issued + 1 /\ x \in ResponseSet
          /\ Answers'[issued + 1] = x /\ \A k \in lastId + 1 .. issued : Answers'[k] = Answers[k]
          /\ x.type = "REJECTED" /\ x.id = r.id
      BY <1>4, <1>6, <2>2, <3>1 DEF ResponseTypes
    <3>3. Gives(x)
      BY <1>0, <1>4, <2>0, <2>2, <2>a, <3>2 DEF Gives
    <3>4. AtExchange(r.id, 0)'
      BY <2>0, <2>2, <2>a DEF AtExchange
    <3>5. Known(r.id) = r.qty
      BY <2>0 DEF Known
    <3>6. \A a \in Nat : AtExchange(x.id, a) => Moves(x, a, 0)
      BY <2>b, <2>c, <3>2, <3>4, <3>5 DEF Moves, Change
    <3>7. Decides(x)
      BY <1>5, <1>7, <2>0, <2>2, <3>2 DEF Decides
    <3> QED
      BY <1>5, <3>2, <3>3, <3>6, <3>7, LedgerGiven
  <2> QED
    BY <1>1, <1>3, <1>7, <2>1, <2>2
<1>8. CASE r.type = "CANCEL"
  <2>1. CASE r.id \in DOMAIN book /\ book' = Without(book, r.id) /\ Reply("CANCELED", r, 0, book[r.id].qty)
    <3>0. book[r.id].qty \in Nat \ {0}
      BY <1>0, <2>1, OrdersElement DEF Order
    <3>1. PICK x : x = Response("CANCELED", r, 0, book[r.id].qty)
      OBVIOUS
    <3>2. /\ Numbering' /\ issued' = issued + 1 /\ x \in ResponseSet
          /\ Answers'[issued + 1] = x /\ \A k \in lastId + 1 .. issued : Answers'[k] = Answers[k]
          /\ x.type = "CANCELED" /\ x.id = r.id /\ x.leaves = book[r.id].qty
      BY <1>4, <1>6, <2>1, <3>0, <3>1 DEF ResponseTypes
    <3>3. /\ r.id \notin DOMAIN book'
          /\ \A y : y # r.id => /\ y \in DOMAIN book' <=> y \in DOMAIN book
                                /\ y \in DOMAIN book => book'[y] = book[y]
      BY <2>1, BookWithout
    <3>4. Gives(x)
      BY <1>0, <1>4, <1>5, <1>8, <3>2, <3>3 DEF Gives
    <3>5. \A y \in News' : y.id # r.id
      BY <1>5, <1>8, <2>1 DEF Ledger, NewsInv
    <3>6. AtExchange(r.id, 0)'
      BY <3>3, <3>5 DEF AtExchange
    <3>7. \A a \in Nat : AtExchange(x.id, a) => a = book[r.id].qty
      BY <2>1, <3>2 DEF AtExchange
    <3>8. \A a \in Nat : AtExchange(x.id, a) => Moves(x, a, 0)
      BY <3>0, <3>2, <3>6, <3>7 DEF Moves, Change
    <3>9. Decides(x)
      BY <1>5, <1>8, <2>1, <3>2 DEF Decides
    <3> QED
      BY <1>5, <3>2, <3>4, <3>8, <3>9, LedgerGiven
  <2>2. CASE r.id \notin DOMAIN book /\ book' = book /\ Reply("CANCEL_REJECTED", r, 0, 0)
    <3>1. PICK x : x = Response("CANCEL_REJECTED", r, 0, 0)
      OBVIOUS
    <3>2. /\ Numbering' /\ issued' = issued + 1 /\ x \in ResponseSet
          /\ Answers'[issued + 1] = x /\ \A k \in lastId + 1 .. issued : Answers'[k] = Answers[k]
          /\ x.type = "CANCEL_REJECTED" /\ x.id = r.id /\ x.leaves = 0
      BY <1>4, <1>6, <2>2, <3>1 DEF ResponseTypes
    <3>3. Gives(x)
      BY <1>0, <1>4, <1>5, <1>8, <2>2, <3>2 DEF Gives
    <3>4. ASSUME ~Reorders, NEW y \in News PROVE y.id # r.id
      <4>1. PICK j \in 1 .. Len(requests) : y = requests[j] /\ y.type = "NEW"
        BY <1>0, RangeSeq DEF News
      <4>2. i = 1
        BY <1>2, <3>4
      <4>3. y.id = r.id => j < i
        BY <1>2, <1>3, <1>8, <3>4, <4>1 DEF Ledger, QueueInv
      <4> QED
        BY <4>1, <4>2, <4>3
    <3>5. ASSUME NEW a \in Nat, AtExchange(x.id, a) PROVE Moves(x, a, a)
      <4>1. AtExchange(x.id, a)'
        BY <1>5, <1>8, <2>2, <3>5 DEF AtExchange
      <4>2. ~Reorders => a = 0
        BY <2>2, <3>2, <3>4, <3>5 DEF AtExchange
      <4> QED
        BY <3>2, <4>1, <4>2 DEF Moves, Change
    <3>6. Decides(x)
      BY <1>5, <1>8, <2>2, <3>2 DEF Decides
    <3> QED
      BY <1>5, <3>2, <3>3, <3>5, <3>6, LedgerGiven
  <2> QED
    BY <1>1, <1>3, <1>8, <2>1, <2>2
<1> QED
  BY <1>1, <1>3, <1>7, <1>8

\* How the exchange fills a resting order, as x says.
Fills(x) ==
    /\ x.type = "FILLED" /\ x.id \in DOMAIN book /\ x.side = book[x.id].side /\ News' = News
    /\ x.exec \in Nat \ {0} /\ x.leaves \in Nat /\ book[x.id].qty = x.exec + x.leaves
    /\ x.leaves = 0 => x.id \notin DOMAIN book'
    /\ x.leaves # 0 => /\ x.id \in DOMAIN book'
                       /\ book'[x.id].qty = x.leaves /\ book'[x.id].side = x.side
    /\ filled' = filled + SideValue(x.side) * x.exec

\* The exchange fills an order.
LEMMA LedgerFill ==
    ASSUME Types, IdInv, Ledger, ExchangeFill
    PROVE  Ledger' /\ \E x : Gives(x) /\ Fills(x)
<1>0. /\ issued \in Nat /\ lastId \in Nat /\ UNCHANGED <<risk, lastId, nextId, requests>>
      /\ book \in Orders
  BY DEF Types, Ledger, Numbering, ExchangeFill, clientVars
<1>1. PICK id \in DOMAIN book : \E q \in 1 .. book[id].qty :
         /\ book' = IF q = book[id].qty THEN Without(book, id) ELSE [book EXCEPT ![id].qty = @ - q]
         /\ Reply("FILLED", [id |-> id, side |-> book[id].side], q, book[id].qty - q)
         /\ filled' = filled + SideValue(book[id].side) * q
  BY DEF ExchangeFill
<1>2. PICK o \in Order : o = book[id] /\ id \in Nat
  BY <1>0, OrdersElement
<1>3. PICK q \in 1 .. o.qty :
         /\ book' = IF q = o.qty THEN Without(book, id) ELSE [book EXCEPT ![id].qty = @ - q]
         /\ Reply("FILLED", [id |-> id, side |-> o.side], q, o.qty - q)
         /\ filled' = filled + SideValue(o.side) * q
  BY <1>1, <1>2
<1>4. PICK n \in Nat : n = o.qty - q
  BY <1>2 DEF Order
<1>5. q \in Nat \ {0} /\ o.qty \in Nat /\ o.qty = q + n /\ o.side \in Sides
  BY <1>2, <1>4 DEF Order
<1>6. PICK x : x = Response("FILLED", [id |-> id, side |-> o.side], q, n)
  OBVIOUS
<1>7. x \in ResponseSet /\ x.type = "FILLED" /\ x.id = id /\ x.exec = q /\ x.leaves = n /\ x.side = o.side
  BY <1>0, <1>2, <1>5, <1>6 DEF Response, ResponseSet, ResponseTypes
<1>8. /\ Numbering' /\ issued' = issued + 1
      /\ Answers'[issued + 1] = x /\ \A k \in lastId + 1 .. issued : Answers'[k] = Answers[k]
  <2>1. PICK r : r = [id |-> id, side |-> o.side]
    OBVIOUS
  <2>2. r.id \in Nat /\ r.side \in Sides /\ "FILLED" \in ResponseTypes
    BY <1>2, <1>5, <2>1 DEF ResponseTypes
  <2>3. Reply("FILLED", r, q, n) /\ x = Response("FILLED", r, q, n)
    BY <1>3, <1>4, <1>6, <2>1
  <2>4. Types /\ Numbering /\ lastId' = lastId /\ q \in Nat
    BY <1>0, <1>5 DEF Ledger
  <2> QED
    BY <2>2, <2>3, <2>4, AnswersGiven
<1>9. News' = News /\ QueueInv'
  <2>1. requests' = requests /\ nextId' = nextId
    BY <1>0
  <2> QED
    BY <2>1 DEF News, QueueInv, Ledger
<1>10. /\ \A y : y # id => /\ y \in DOMAIN book' <=> y \in DOMAIN book
                           /\ y \in DOMAIN book => book'[y] = book[y]
       /\ n = 0 => id \notin DOMAIN book'
       /\ n # 0 => id \in DOMAIN book' /\ book'[id].qty = n /\ book'[id].side = o.side
  <2>1. CASE q = o.qty
    <3>1. n = 0 /\ book' = Without(book, id)
      BY <1>3, <1>5, <2>1
    <3> QED
      BY <3>1, BookWithout
  <2>2. CASE q # o.qty
    <3>1. n # 0 /\ book' = [book EXCEPT ![id].qty = @ - q]
      BY <1>3, <1>5, <2>2
    <3>2. book'[id] = [o EXCEPT !.qty = o.qty - q] /\ DOMAIN book' = DOMAIN book
          /\ \A y : y # id /\ y \in DOMAIN book => book'[y] = book[y]
      BY <1>2, <3>1
    <3>3. book'[id].qty = n /\ book'[id].side = o.side
      BY <1>4, <3>2 DEF Order
    <3> QED
      BY <1>1, <3>1, <3>2, <3>3
  <2> QED
    BY <2>1, <2>2
<1>11. /\ id \in DOMAIN risk.reservations /\ o.side = risk.reservations[id].side
       /\ \A y \in News : y.id # id
  BY <1>1, <1>2 DEF Ledger, SideInv, NewsInv
<1>12. id < nextId
  BY <1>11 DEF IdInv
<1>13. Gives(x)
  BY <1>0, <1>7, <1>8, <1>9, <1>10, <1>11, <1>12 DEF Gives
<1>14. AtExchange(id, n)'
  BY <1>9, <1>10, <1>11 DEF AtExchange
<1>15. \A a \in Nat : AtExchange(x.id, a) => a = o.qty
  BY <1>1, <1>2, <1>7 DEF AtExchange
<1>16. \A a \in Nat : AtExchange(x.id, a) => Moves(x, a, n)
  BY <1>5, <1>7, <1>14, <1>15 DEF Moves, Change
<1>17. Fills(x)
  BY <1>1, <1>2, <1>3, <1>5, <1>7, <1>9, <1>10 DEF Fills
<1> QED
  BY <1>8, <1>9, <1>13, <1>16, <1>17, LedgerGiven

\* Every step keeps the books of the client and the exchange in agreement.
LEMMA LedgerKept ==
    ASSUME Types, Types', MainInv, IdInv, Ledger, [Next]_vars
    PROVE  Ledger'
<1>0. nextId \in Nat /\ nextId' \in {nextId, nextId + 1}
  BY IdInvKept DEF Types
<1>1. CASE ClientStep
  <2>0. UNCHANGED <<book, lastId, issued, responses>>
    BY <1>1 DEF ClientStep, exchangeVars
  <2>a. Numbering' /\ Answers' = Answers
    BY <2>0, AnswersSame DEF Ledger
  <2>1. CASE Quiet
    <3>1. requests' = requests /\ risk' = risk
      BY <2>1 DEF Quiet
    <3>2. News' = News
      BY <3>1 DEF News
    <3>3. QueueInv'
      <4>1. ASSUME NEW i \in 1 .. Len(requests) PROVE requests[i].id < nextId'
        <5>1. requests[i].id \in Nat /\ requests[i].id < nextId
          BY DEF Types, Ledger, QueueInv, RequestSet, NewSet, CancelSet
        <5> QED
          BY <1>0, <5>1
      <4> QED
        BY <3>1, <4>1 DEF Ledger, QueueInv
    <3> QED
      BY <1>0, <2>0, <2>a, <3>1, <3>2, <3>3, LedgerSame
  <2>2. ASSUME NEW id \in Nat, CancelSent(id) PROVE Ledger'
    <3>1. /\ id \in 0 .. nextId - 1 /\ nextId' = nextId /\ risk' = risk
          /\ requests' = Append(requests, Cancel(id))
      BY <2>2, CanceledFacts DEF CancelSent
    <3>2. QueueInv' /\ News' = News
      BY <3>1, QueueCanceled DEF Ledger
    <3> QED
      BY <1>0, <2>0, <2>a, <3>1, <3>2, LedgerSame
  <2>3. ASSUME NEW s \in Sides, NEW q \in Nat \ {0}, OrderSent(s, q) PROVE Ledger'
    BY <2>0, <2>3, LedgerPlaced DEF OrderSent
  <2> QED
    BY <1>1, <2>1, <2>2, <2>3 DEF ClientStep
<1>2. CASE OnOrderUpdate
  <2>1. PICK r : Answered(r)
    BY <1>2, AnswerKinds
  <2>2. r.rid \in Nat /\ lastId \in Nat
    BY <2>1 DEF Answered, ResponseSet, Ledger, Numbering
  <2>3. CASE r.rid <= lastId
    <3>1. UNCHANGED <<risk, book, requests, nextId>>
      <4>1. ~(r.rid > lastId)
        BY <2>2, <2>3
      <4> QED
        BY <2>1, <4>1 DEF Answered, clientVars, exchangeVars
    <3>2. News' = News /\ QueueInv'
      <4>1. requests' = requests /\ nextId' = nextId
        BY <3>1
      <4> QED
        BY <4>1 DEF News, QueueInv, Ledger
    <3>3. Numbering' /\ Answers' = Answers /\ UNCHANGED <<lastId, issued>>
      BY <2>1, <2>3, AnswersStale DEF Ledger
    <3> QED
      BY <1>0, <3>1, <3>2, <3>3, LedgerSame
  <2>4. CASE r.rid > lastId
    BY <2>1, <2>4, LedgerTaken
  <2> QED
    BY <2>2, <2>3, <2>4
<1> QED
  BY <1>1, <1>2, Kinds, LedgerRequest, LedgerFill

\* A cancellation is refused only after its order is gone, unless requests
\* overtake one another.
LEMMA ReconciledKept ==
    ASSUME Types, MainInv, IdInv, Ledger, ~Reorders, reconciled = TRUE, [Next]_vars
    PROVE  reconciled' = TRUE
<1>1. CASE ClientStep \/ ExchangeRequest \/ ExchangeFill
  BY <1>1 DEF ClientStep, ExchangeRequest, ExchangeFill, clientVars
<1>2. CASE OnOrderUpdate
  <2>1. PICK r : Answered(r)
    BY <1>2, AnswerKinds
  <2>2. ASSUME r.rid > lastId, Contradicts(r) PROVE FALSE
    <3>1. r.type = "CANCEL_REJECTED" /\ r.id \in DOMAIN risk.reservations
      BY <2>1, <2>2, ContradictionIsCancel DEF Contradicts
    <3>2. PICK id \in Nat : id = r.id
      BY <2>1 DEF Answered, ResponseSet
    <3>3. PICK p : Left(p, r, id)
      BY <2>1, <2>2, LeftExplains
    <3>4. Known(id) = 0
      BY <3>1, <3>2, <3>3 DEF Left, Change
    <3>5. risk.reservations[id].qty \in Nat \ {0}
      BY <3>1, <3>2, OrdersElement DEF Types, RiskSet, Order
    <3> QED
      BY <3>1, <3>2, <3>4, <3>5 DEF Known
  <2> QED
    BY <2>1, <2>2 DEF Answered, Applied, clientVars
<1> QED
  BY <1>1, <1>2, Kinds

\* The inductive invariant of the client and the exchange together.
OrderInv ==
    /\ MainInv /\ IdInv /\ PendingIsSum /\ NoOrphans /\ Ledger
    /\ ~Reorders => reconciled

LEMMA InitOrderInv == Init => OrderInv
<1> SUFFICES ASSUME Init PROVE OrderInv
  OBVIOUS
<1> USE TradeEngineAssumption
<1>1. MainInv
  <2>1. /\ reconciled \in BOOLEAN /\ admitting \in BOOLEAN /\ ready \in BOOLEAN
        /\ session \in BOOLEAN /\ reordered \in BOOLEAN /\ algo \in Algos
    BY Zenon DEF Init
  <2>2. /\ phase \in {"running", "closing", "cancelling", "unknown", "done"}
        /\ sent \subseteq 1 .. nextId - 1 /\ cancels \subseteq 1 .. nextId - 1
        /\ cancels \subseteq listed /\ filled \in Int
    BY DEF Init
  <2> QED
    BY <2>1, <2>2, Zenon DEF MainInv
<1>2. IdInv
  BY DEF Init, IdInv, Sides
<1>3. PendingIsSum
  BY TotalEmpty DEF Init, PendingIsSum
<1>4. NoOrphans
  BY DEF Init, NoOrphans, Live
<1>5. /\ DOMAIN risk.reservations = {} /\ DOMAIN book = {} /\ Len(requests) = 0 /\ News = {}
      /\ lastId = 0 /\ issued = 0 /\ Len(responses) = 0
  BY DEF Init, News, Range
<1>6. QueueInv /\ Numbering /\ NewsInv /\ SideInv
  BY <1>5 DEF QueueInv, Numbering, NewsInv, SideInv
<1>7. ASSUME NEW id \in Nat PROVE \E q : Explains(q, id)
  <2>1. NoneAbout(Answers, 0, 0, id)
    BY DEF NoneAbout
  <2>2. PICK p : Chain(p, Answers, 0, 0, id) /\ p[0] = 0
    BY <2>1, ChainFresh
  <2>3. Known(id) = 0 /\ AtExchange(id, 0)
    BY <1>5 DEF Known, AtExchange
  <2> QED
    BY <1>5, <2>2, <2>3 DEF Explains
<1>8. ~Reorders => reconciled
  BY DEF Init
<1> QED
  BY <1>1, <1>2, <1>3, <1>4, <1>6, <1>7, <1>8 DEF OrderInv, Ledger, ChainInv

\* From any state a client can be in, every step keeps ids, reservations, orders
\* and what is in flight in agreement.
THEOREM OrderInductive == Spec => [](RiskInv /\ OrderInv)
<1>1. Init => OrderInv
  BY InitOrderInv
<1>2. RiskInv /\ RiskInv' /\ OrderInv /\ [Next]_vars => OrderInv'
  <2> SUFFICES ASSUME RiskInv, RiskInv', OrderInv, [Next]_vars PROVE OrderInv'
    OBVIOUS
  <2>0. Types /\ Types' /\ MainInv /\ IdInv /\ PendingIsSum /\ NoOrphans /\ Ledger
    BY DEF RiskInv, OrderInv
  <2>1. MainInv' /\ IdInv'
    BY <2>0, MainInvKept, IdInvKept
  <2>2. PendingIsSum' /\ NoOrphans' /\ Ledger'
    BY <2>0, <2>1, PendingKept, OrphansKept, LedgerKept
  <2>3. ~Reorders => reconciled' = TRUE
    <3>1. ~Reorders => reconciled = TRUE
      BY <2>0, Zenon DEF OrderInv, MainInv
    <3> QED
      BY <2>0, <3>1, ReconciledKept
  <2> QED
    BY <2>1, <2>2, <2>3, Zenon DEF OrderInv
<1> QED
  BY <1>1, <1>2, RiskInductive, PTL DEF Spec

\* Every variable keeps its type: in particular pending_buy_ and pending_sell_
\* never go below zero.
THEOREM TypeCorrect == Spec => []TypeOK
<1>1. RiskInv /\ OrderInv => TypeOK
  <2> SUFFICES ASSUME RiskInv, OrderInv PROVE TypeOK
    OBVIOUS
  <2>0. Types /\ MainInv /\ IdInv /\ PendingIsSum /\ Ledger
    BY DEF RiskInv, OrderInv
  <2>1. om \in [Sides -> [id : 0 .. nextId - 1, price : Prices \cup {NoPrice}, qty : Nat,
                          state : Live \cup {"INVALID", "DEAD"}]]
    <3>1. ASSUME NEW s \in Sides
          PROVE  om[s] \in [id : 0 .. nextId - 1, price : Prices \cup {NoPrice}, qty : Nat,
                            state : Live \cup {"INVALID", "DEAD"}]
      <4>1. om[s] \in OMOrder /\ om[s].id < nextId /\ nextId \in Nat
        BY <2>0 DEF Types, IdInv
      <4>2. om[s].id \in 0 .. nextId - 1
        BY <4>1 DEF OMOrder
      <4> QED
        BY <4>1, <4>2 DEF OMOrder, States, Live
    <3> QED
      BY <2>0, <3>1 DEF Types
  <2>2. risk.pending \in [Sides -> Nat]
    <3>1. risk.reservations \in Orders /\ risk.pending \in [Sides -> Int]
      BY <2>0 DEF Types, RiskSet
    <3>2. IsFiniteSet(DOMAIN risk.reservations)
      BY <2>0, FiniteIds DEF IdInv
    <3>3. \A s \in Sides : risk.pending[s] \in Nat
      BY <2>0, <3>1, <3>2, TotalPart DEF PendingIsSum
    <3> QED
      BY <3>1, <3>3
  <2>3. \A id \in DOMAIN risk.reservations :
           id \in 1 .. nextId - 1 /\ risk.reservations[id] \in [side : Sides, qty : Nat \ {0}]
    BY <2>0, OrdersElement DEF Types, RiskSet, IdInv, Order
  <2>4. /\ nextId \in Nat \ {0} /\ position \in Int /\ filled \in Int
        /\ lastId \in 0 .. issued /\ todo \in Prices \cup {NoPrice, Idle}
        /\ Len(requests) <= RequestCapacity
    BY <2>0 DEF Types, MainInv, IdInv, Ledger, Numbering
  <2>5. /\ reconciled \in BOOLEAN /\ admitting \in BOOLEAN /\ ready \in BOOLEAN
        /\ session \in BOOLEAN /\ reordered \in BOOLEAN /\ algo \in Algos
        /\ phase \in {"running", "closing", "cancelling", "unknown", "done"}
        /\ cancels \subseteq listed /\ sent \subseteq 1 .. nextId - 1
    BY <2>0, Zenon DEF MainInv
  <2> QED
    BY <2>1, <2>2, <2>3, <2>4, <2>5, Zenon DEF TypeOK
<1> QED
  BY <1>1, OrderInductive, PTL

\* pending_buy_ and pending_sell_ are the sums of the reservations, whatever is
\* reserved, rolled back, filled, released and in whatever order.
THEOREM PendingIsTheSum == Spec => []PendingIsSum
<1>1. RiskInv /\ OrderInv => PendingIsSum
  BY DEF OrderInv
<1> QED
  BY <1>1, OrderInductive, PTL

\* OrderManager keeps every order of a strategy that can still trade.
THEOREM OrdersAreKept == Spec => []NoOrphans
<1>1. RiskInv /\ OrderInv => NoOrphans
  BY DEF OrderInv
<1> QED
  BY <1>1, OrderInductive, PTL

\* When requests keep their order on the way to the exchange, no response ever
\* contradicts the client's reservations.
THEOREM NeverLosesTrack == ~Reorders => (Spec => []NeverUnreconciled)
<1> SUFFICES ASSUME ~Reorders PROVE Spec => []NeverUnreconciled
  OBVIOUS
<1>1. RiskInv /\ OrderInv => NeverUnreconciled
  BY DEF OrderInv, NeverUnreconciled
<1> QED
  BY <1>1, OrderInductive, PTL
--------------------------------------------------------------------------------
(* The exposure, from the client's view to the exchange's.                     *)

\* h goes from number a to number b in steps of size D.
Flow(h, D, a, b) ==
    /\ h \in [a .. b -> Int] /\ D \in [a + 1 .. b -> Int]
    /\ \A k \in a + 1 .. b : h[k] = h[k - 1] + D[k]

\* The steps D, numbered a + 1 .. b, lead from m to n.
Leads(D, a, b, m, n) == \E h : Flow(h, D, a, b) /\ h[a] = m /\ h[b] = n

\* The first step is done.
LEMMA FlowTake ==
    ASSUME NEW a \in Nat, NEW b \in Nat, a < b, NEW D, NEW m, NEW n, Leads(D, a, b, m, n),
           NEW E \in [(a + 1) + 1 .. b -> Int], \A k \in (a + 1) + 1 .. b : E[k] = D[k]
    PROVE  Leads(E, a + 1, b, m + D[a + 1], n)
<1>0. PICK h : Flow(h, D, a, b) /\ h[a] = m /\ h[b] = n
  BY DEF Leads
<1>1. PICK p : p = [k \in a + 1 .. b |-> h[k]]
  OBVIOUS
<1>2. a + 1 \in a + 1 .. b /\ b \in a + 1 .. b /\ a + 1 - 1 = a
  OBVIOUS
<1>3. h \in [a .. b -> Int] /\ \A k \in a + 1 .. b : h[k] = h[k - 1] + D[k]
  BY <1>0 DEF Flow
<1>4. p \in [a + 1 .. b -> Int] /\ \A k \in a + 1 .. b : p[k] = h[k] /\ k \in a .. b
  BY <1>1, <1>3
<1>5. h[a + 1] = h[a] + D[a + 1]
  BY <1>2, <1>3
<1>6. ASSUME NEW k \in (a + 1) + 1 .. b PROVE p[k] = p[k - 1] + E[k]
  <2>1. k \in a + 1 .. b /\ k - 1 \in a + 1 .. b
    OBVIOUS
  <2> QED
    BY <1>3, <1>4, <2>1
<1>7. Flow(p, E, a + 1, b)
  BY <1>4, <1>6 DEF Flow
<1> QED
  BY <1>0, <1>2, <1>4, <1>5, <1>7 DEF Leads

\* One more step follows.
LEMMA FlowGive ==
    ASSUME NEW a \in Nat, NEW b \in Nat, a <= b, NEW D, NEW m, NEW n, Leads(D, a, b, m, n),
           NEW E \in [a + 1 .. b + 1 -> Int], \A k \in a + 1 .. b : E[k] = D[k]
    PROVE  Leads(E, a, b + 1, m, n + E[b + 1])
<1>0. PICK h : Flow(h, D, a, b) /\ h[a] = m /\ h[b] = n
  BY DEF Leads
<1>1. PICK p : p = [k \in a .. b + 1 |-> IF k = b + 1 THEN h[b] + E[b + 1] ELSE h[k]]
  OBVIOUS
<1>2. a \in a .. b /\ b \in a .. b /\ b + 1 \in a + 1 .. b + 1 /\ b + 1 - 1 = b /\ b + 1 \in a .. b + 1
  OBVIOUS
<1>3. h \in [a .. b -> Int] /\ \A k \in a + 1 .. b : h[k] = h[k - 1] + D[k]
  BY <1>0 DEF Flow
<1>4. p \in [a .. b + 1 -> Int] /\ p[b + 1] = h[b] + E[b + 1] /\ \A k \in a .. b : p[k] = h[k]
  <2>1. \A k \in a .. b + 1 : k # b + 1 => k \in a .. b
    OBVIOUS
  <2>2. \A k \in a .. b : k \in a .. b + 1 /\ k # b + 1
    OBVIOUS
  <2>3. h[b] \in Int /\ E[b + 1] \in Int
    BY <1>2, <1>3
  <2> QED
    BY <1>1, <1>2, <1>3, <2>1, <2>2, <2>3
<1>5. ASSUME NEW k \in a + 1 .. b + 1 PROVE p[k] = p[k - 1] + E[k]
  <2>1. CASE k \in a + 1 .. b
    <3>1. k \in a .. b /\ k - 1 \in a .. b
      BY <2>1
    <3> QED
      BY <1>3, <1>4, <2>1, <3>1
  <2>2. CASE k = b + 1
    BY <1>2, <1>4, <2>2
  <2> QED
    BY <2>1, <2>2
<1>6. Flow(p, E, a, b + 1)
  BY <1>4, <1>5 DEF Flow
<1> QED
  BY <1>0, <1>2, <1>4, <1>6 DEF Leads

\* The same steps from elsewhere.
LEMMA FlowShift ==
    ASSUME NEW a \in Nat, NEW b \in Nat, a <= b, NEW D, NEW m, NEW n, Leads(D, a, b, m, n),
           NEW c \in Int
    PROVE  Leads(D, a, b, m + c, n + c)
<1>0. PICK h : Flow(h, D, a, b) /\ h[a] = m /\ h[b] = n
  BY DEF Leads
<1>1. PICK p : p = [k \in a .. b |-> h[k] + c]
  OBVIOUS
<1>2. h \in [a .. b -> Int] /\ D \in [a + 1 .. b -> Int] /\ \A k \in a + 1 .. b : h[k] = h[k - 1] + D[k]
  BY <1>0 DEF Flow
<1>3. p \in [a .. b -> Int] /\ \A k \in a .. b : p[k] = h[k] + c
  BY <1>1, <1>2
<1>4. ASSUME NEW k \in a + 1 .. b PROVE p[k] = p[k - 1] + D[k]
  <2>1. k \in a .. b /\ k - 1 \in a .. b
    OBVIOUS
  <2>2. h[k - 1] \in Int /\ D[k] \in Int
    BY <1>2, <2>1
  <2> QED
    BY <1>2, <1>3, <2>1, <2>2
<1>5. a \in a .. b /\ b \in a .. b
  OBVIOUS
<1>6. Flow(p, D, a, b)
  BY <1>2, <1>3, <1>4 DEF Flow
<1> QED
  BY <1>0, <1>3, <1>5, <1>6 DEF Leads

\* The same steps turned round.
LEMMA FlowTurned ==
    ASSUME NEW a \in Nat, NEW b \in Nat, a <= b, NEW D, NEW m, NEW n, Leads(D, a, b, m, n)
    PROVE  Leads([k \in a + 1 .. b |-> -D[k]], a, b, -m, -n)
<1>0. PICK h : Flow(h, D, a, b) /\ h[a] = m /\ h[b] = n
  BY DEF Leads
<1>1. PICK p : p = [k \in a .. b |-> -h[k]]
  OBVIOUS
<1>2. PICK E : E = [k \in a + 1 .. b |-> -D[k]]
  OBVIOUS
<1>3. h \in [a .. b -> Int] /\ D \in [a + 1 .. b -> Int] /\ \A k \in a + 1 .. b : h[k] = h[k - 1] + D[k]
  BY <1>0 DEF Flow
<1>4. /\ p \in [a .. b -> Int] /\ \A k \in a .. b : p[k] = -h[k]
      /\ E \in [a + 1 .. b -> Int] /\ \A k \in a + 1 .. b : E[k] = -D[k]
  <2>1. \A k \in a .. b : -h[k] \in Int
    BY <1>3
  <2>2. \A k \in a + 1 .. b : -D[k] \in Int
    BY <1>3
  <2>3. p \in [a .. b -> Int]
    BY <1>1, <2>1
  <2>4. E \in [a + 1 .. b -> Int]
    BY <1>2, <2>2
  <2> QED
    BY <1>1, <1>2, <2>3, <2>4
<1>5. ASSUME NEW k \in a + 1 .. b PROVE p[k] = p[k - 1] + E[k]
  <2>1. k \in a .. b /\ k - 1 \in a .. b
    OBVIOUS
  <2>2. h[k - 1] \in Int /\ D[k] \in Int
    BY <1>3, <2>1
  <2> QED
    BY <1>3, <1>4, <2>1, <2>2
<1>6. a \in a .. b /\ b \in a .. b
  OBVIOUS
<1>7. Flow(p, E, a, b)
  BY <1>4, <1>5 DEF Flow
<1>8. p[a] = -m /\ p[b] = -n
  BY <1>0, <1>4, <1>6
<1>9. Leads(E, a, b, -m, -n)
  BY <1>7, <1>8 DEF Leads
<1> QED
  BY <1>2, <1>9

\* Two flows that never rise together.
LEMMA FlowFalls ==
    ASSUME NEW a \in Nat, NEW b \in Nat, a <= b, NEW D, NEW m, NEW w, Leads(D, a, b, m, w),
           NEW E, NEW u, NEW v, Leads(E, a, b, u, v), \A k \in a + 1 .. b : D[k] + E[k] <= 0
    PROVE  w + v <= m + u
<1>0. PICK h : Flow(h, D, a, b) /\ h[a] = m /\ h[b] = w
  BY DEF Leads
<1>a. PICK p : Flow(p, E, a, b) /\ p[a] = u /\ p[b] = v
  BY DEF Leads
<1>1. /\ h \in [a .. b -> Int] /\ p \in [a .. b -> Int]
      /\ D \in [a + 1 .. b -> Int] /\ E \in [a + 1 .. b -> Int]
      /\ \A k \in a + 1 .. b : h[k] = h[k - 1] + D[k] /\ p[k] = p[k - 1] + E[k]
  BY <1>0, <1>a DEF Flow
<1>2. PICK S : S = {n \in Nat : a + n <= b => h[a + n] + p[a + n] <= h[a] + p[a]}
  OBVIOUS
<1>3. 0 \in S
  <2>1. a \in a .. b /\ a + 0 = a
    OBVIOUS
  <2>2. h[a] \in Int /\ p[a] \in Int
    BY <1>1, <2>1
  <2> QED
    BY <1>2, <2>1, <2>2
<1>4. ASSUME NEW n \in Nat, n \in S PROVE n + 1 \in S
  <2>1. CASE a + (n + 1) <= b
    <3>1. PICK k \in a + 1 .. b : k = a + (n + 1)
      BY <2>1
    <3>2. k - 1 = a + n /\ k - 1 \in a .. b /\ k \in a .. b /\ a + n <= b /\ a \in a .. b
      BY <2>1, <3>1
    <3>3. /\ h[k] \in Int /\ p[k] \in Int /\ h[k - 1] \in Int /\ p[k - 1] \in Int
          /\ h[a] \in Int /\ p[a] \in Int
      BY <1>1, <3>2
    <3>4. D[k] \in Int /\ E[k] \in Int /\ h[k] = h[k - 1] + D[k] /\ p[k] = p[k - 1] + E[k]
          /\ D[k] + E[k] <= 0
      BY <1>1
    <3>5. h[k - 1] + p[k - 1] <= h[a] + p[a]
      BY <1>2, <1>4, <3>2
    <3>6. h[k] + p[k] <= h[a] + p[a]
      BY <3>3, <3>4, <3>5
    <3> QED
      BY <1>2, <3>1, <3>6
  <2>2. CASE ~(a + (n + 1) <= b)
    BY <1>2, <2>2
  <2> QED
    BY <2>1, <2>2
<1>5. \A n \in Nat : n \in S
  BY <1>2, <1>3, <1>4, SetInduction
<1>6. b - a \in Nat /\ a + (b - a) = b
  OBVIOUS
<1>7. h[b] + p[b] <= h[a] + p[a]
  BY <1>2, <1>5, <1>6
<1> QED
  BY <1>0, <1>a, <1>7

\* What the new orders in S ask for, of a side.
Asked(S, s) == SumFunction([r \in {y \in S : y.side = s} |-> r.qty])

\* What an order asks for, of a side.
Ask(r, s) == IF r.side = s THEN r.qty ELSE 0

\* A set of new orders, with one of them taken apart.
LEMMA AskedPart ==
    ASSUME NEW S, IsFiniteSet(S), S \subseteq NewSet, NEW s, NEW r \in S
    PROVE  /\ Asked(S, s) \in Nat /\ Asked(S \ {r}, s) \in Nat /\ Ask(r, s) \in Nat
           /\ Asked(S, s) = Asked(S \ {r}, s) + Ask(r, s)
<1>1. PICK D : D = {y \in S : y.side = s}
  OBVIOUS
<1>2. PICK E : E = {y \in S \ {r} : y.side = s}
  OBVIOUS
<1>3. E = D \ {r} /\ IsFiniteSet(D) /\ IsFiniteSet(E)
  BY <1>1, <1>2, FS_Subset
<1>4. (\A y \in D : y.qty \in Nat) /\ (\A y \in E : y.qty \in Nat) /\ r.qty \in Nat
  BY <1>1, <1>2 DEF NewSet
<1>5. PICK g \in [D -> Nat] : g = [y \in D |-> y.qty]
  BY <1>4
<1>6. PICK h \in [E -> Nat] : h = [y \in E |-> y.qty]
  BY <1>4
<1>7. Asked(S, s) = SumFunction(g) /\ Asked(S \ {r}, s) = SumFunction(h)
  BY <1>1, <1>2, <1>5, <1>6 DEF Asked
<1>8. SumFunction(g) \in Nat /\ SumFunction(h) \in Nat
  BY <1>3, <1>5, <1>6, SumNat
<1>9. CASE r \in D
  <2>1. \A y \in E : h[y] = g[y]
    BY <1>3, <1>5, <1>6
  <2>2. g \in [D -> Int] /\ h \in [E -> Int]
    OBVIOUS
  <2>3. SumFunction(g) = g[r] + SumFunction(h)
    BY <1>3, <1>9, <2>1, <2>2, SumWithout
  <2>4. Ask(r, s) = g[r] /\ g[r] \in Nat
    BY <1>1, <1>5, <1>9 DEF Ask
  <2> QED
    BY <1>7, <1>8, <2>3, <2>4
<1>10. CASE r \notin D
  <2>1. E = D /\ Ask(r, s) = 0
    BY <1>1, <1>3, <1>10 DEF Ask
  <2> QED
    BY <1>5, <1>6, <1>7, <1>8, <2>1
<1> QED
  BY <1>9, <1>10

\* No new order asks for nothing.
LEMMA AskedEmpty == \A s : Asked({}, s) = 0
<1> SUFFICES ASSUME NEW s PROVE Asked({}, s) = 0
  OBVIOUS
<1>1. PICK g : g = [r \in {y \in {} : y.side = s} |-> r.qty]
  OBVIOUS
<1>2. DOMAIN g = {} /\ g \in [{} -> Int]
  BY <1>1
<1> QED
  BY <1>1, <1>2, SumEmpty DEF Asked

\* The new orders in a queue of requests.
NewsOf(t) == {r \in Range(t) : r.type = "NEW"}

LEMMA NewsFinite ==
    ASSUME NEW t \in Seq(RequestSet)
    PROVE  IsFiniteSet(NewsOf(t)) /\ NewsOf(t) \subseteq NewSet
<1>1. IsFiniteSet(Range(t))
  <2>1. DOMAIN t = 1 .. Len(t) /\ Len(t) \in Nat
    OBVIOUS
  <2>2. IsFiniteSet(DOMAIN t)
    BY <2>1, FS_Interval
  <2>3. Range(t) = {t[i] : i \in DOMAIN t}
    BY DEF Range
  <2>4. t \in Surjection(DOMAIN t, Range(t))
    BY <2>3 DEF Surjection, Range
  <2> QED
    BY <2>2, <2>4, FS_Surjection
<1>2. NewsOf(t) \subseteq Range(t)
  BY DEF NewsOf
<1>3. ASSUME NEW x \in NewsOf(t) PROVE x \in NewSet
  BY RangeSeq DEF NewsOf, RequestSet, CancelSet
<1> QED
  BY <1>1, <1>2, <1>3, FS_Subset

\* What response r takes off what is pending of side s, f being the reservations ...
Amount(f, r, s) ==
    CASE r.type = "FILLED" -> IF r.side = s THEN r.exec ELSE 0
      [] r.type = "CANCELED" -> IF f[r.id].side = s THEN r.leaves ELSE 0
      [] r.type = "REJECTED" -> IF f[r.id].side = s THEN f[r.id].qty ELSE 0
      [] OTHER -> 0

\* ... and what it adds to the position.
Signed(r) ==
    IF r.type # "FILLED" THEN 0 ELSE IF r.side = "BUY" THEN r.exec ELSE -r.exec

Outflow(A, f, a, b, s) == [k \in a + 1 .. b |-> -Amount(f, A[k], s)]
Inflow(A, a, b) == [k \in a + 1 .. b |-> Signed(A[k])]

\* The responses in flight lead from what is pending at the client to what is
\* open at the exchange or on its way there, and from the client's position to
\* the one at the exchange.
FlowInv ==
    /\ \A s \in Sides : Leads(Outflow(Answers, risk.reservations, lastId, issued, s), lastId, issued,
                             risk.pending[s], Total(book, s) + Asked(News, s))
    /\ Leads(Inflow(Answers, lastId, issued), lastId, issued, position, filled)

\* The responses in flight have amounts, and fills alone move the position.
LEMMA Amounts ==
    ASSUME Types, Ledger, NEW k \in lastId + 1 .. issued
    PROVE  LET r == Answers[k] IN
           /\ \A s : Amount(risk.reservations, r, s) \in Nat
           /\ Signed(r) \in Int
           /\ Signed(r) <= Amount(risk.reservations, r, "BUY")
           /\ -Signed(r) <= Amount(risk.reservations, r, "SELL")
<1>1. PICK r \in ResponseSet : r = Answers[k]
  BY DEF Ledger, SideInv
<1>2. r.exec \in Nat /\ r.leaves \in Nat /\ r.side \in Sides
  BY DEF ResponseSet
<1>3. r.type = "REJECTED" => risk.reservations[r.id].qty \in Nat
  <2>1. r.type = "REJECTED" => r.id \in DOMAIN risk.reservations
    BY <1>1, StillReserved
  <2> QED
    BY <2>1, OrdersElement DEF Types, RiskSet, Order
<1>4. \A s : Amount(risk.reservations, r, s) \in Nat
  BY <1>2, <1>3 DEF Amount
<1>5. CASE r.type = "FILLED"
  BY <1>1, <1>2, <1>4, <1>5 DEF Amount, Signed, Sides
<1>6. CASE r.type # "FILLED"
  <2>1. Signed(r) = 0
    BY <1>6 DEF Signed
  <2> QED
    BY <1>1, <1>4, <2>1
<1> QED
  BY <1>5, <1>6

\* The totals of the two books are natural numbers.
LEMMA TotalsNat ==
    ASSUME Types, IdInv, Ledger
    PROVE  /\ IsFiniteSet(DOMAIN book)
           /\ \A s : Total(book, s) \in Nat /\ Asked(News, s) \in Nat
<1>1. book \in Orders /\ nextId \in Nat /\ requests \in Seq(RequestSet)
  BY DEF Types
<1>2. \A x \in DOMAIN book : x \in DOMAIN risk.reservations
  BY DEF Ledger, SideInv
<1>3. IsFiniteSet(DOMAIN book)
  <2>1. DOMAIN book \subseteq 1 .. nextId - 1
    BY <1>2 DEF IdInv
  <2> QED
    BY <1>1, <2>1, FiniteIds
<1>4. ASSUME NEW s PROVE Total(book, s) \in Nat
  BY <1>1, <1>3, TotalPart
<1>5. IsFiniteSet(News) /\ News \subseteq NewSet
  BY <1>1, NewsFinite DEF News, NewsOf
<1>6. ASSUME NEW s PROVE Asked(News, s) \in Nat
  <2>1. CASE News = {}
    BY <2>1, AskedEmpty
  <2>2. CASE News # {}
    <3>1. PICK r \in News : TRUE
      BY <2>2
    <3> QED
      BY <1>5, <3>1, AskedPart
  <2> QED
    BY <2>1, <2>2
<1> QED
  BY <1>3, <1>4, <1>6

\* Nothing the exposure depends on changes.
LEMMA FlowSame ==
    ASSUME FlowInv, Answers' = Answers, News' = News,
           UNCHANGED <<risk, book, lastId, issued, position, filled>>
    PROVE  FlowInv'
BY DEF FlowInv

\* The client asks for an order.
LEMMA FlowPlaced ==
    ASSUME Types, Types', IdInv, Ledger, FlowInv, NEW s \in Sides, NEW q \in Nat \ {0},
           Goes(New(nextId, s, q)), nextId' = nextId + 1,
           UNCHANGED <<book, lastId, issued, responses, position, filled>>
    PROVE  FlowInv'
<1>0. /\ nextId \in Nat /\ risk.reservations \in Orders /\ issued \in Nat /\ lastId \in Nat
      /\ lastId <= issued /\ risk.pending \in [Sides -> Int]
  BY DEF Types, RiskSet, Ledger, Numbering
<1>1. PICK r : r = New(nextId, s, q)
  OBVIOUS
<1>2. r \in NewSet /\ r.id = nextId /\ r.side = s /\ r.qty = q
  BY <1>1, PlacedFacts DEF New
<1>3. News' = News \cup {r} /\ r \notin News
  <2>1. requests' = Append(requests, r)
    BY <1>1, PlacedFacts
  <2>2. News' = News \cup {r}
    BY <1>2, <2>1, QueuePlaced DEF Ledger
  <2>3. \A x \in News : x.id # nextId
    BY FreshId
  <2> QED
    BY <1>2, <2>2, <2>3
<1>4. Answers' = Answers
  BY AnswersSame DEF Ledger
<1>5. \A x \in DOMAIN risk.reservations : risk'.reservations[x] = risk.reservations[x]
  <2>1. nextId \notin DOMAIN risk.reservations
    BY PlacedFacts
  <2> QED
    BY <2>1, PlacedFacts DEF With
<1>6. \A z \in Sides : risk'.pending[z] = risk.pending[z] + Ask(r, z)
  <2>1. risk'.pending = [risk.pending EXCEPT ![s] = @ + q]
    BY PlacedFacts
  <2> QED
    BY <1>0, <1>2, <2>1 DEF Ask
<1>7. \A z : Asked(News', z) = Asked(News, z) + Ask(r, z) /\ Asked(News, z) \in Nat /\ Ask(r, z) \in Nat
  <2>1. IsFiniteSet(News') /\ News' \subseteq NewSet
    <3>1. PICK t \in Seq(RequestSet) : t = requests'
      BY DEF Types
    <3>2. News' = NewsOf(t)
      BY <3>1 DEF News, NewsOf
    <3> QED
      BY <3>1, <3>2, NewsFinite
  <2>2. News' \ {r} = News /\ r \in News'
    BY <1>3
  <2>3. PICK S : S = News'
    OBVIOUS
  <2>4. IsFiniteSet(S) /\ S \subseteq NewSet /\ r \in S /\ S \ {r} = News
    BY <2>1, <2>2, <2>3
  <2>5. \A z : Asked(S, z) = Asked(News, z) + Ask(r, z) /\ Asked(News, z) \in Nat /\ Ask(r, z) \in Nat
    BY <2>4, AskedPart
  <2> QED
    BY <2>3, <2>5
<1>8. ASSUME NEW z \in Sides
      PROVE  Leads(Outflow(Answers, risk.reservations, lastId, issued, z), lastId, issued,
                   risk.pending[z], Total(book, z) + Asked(News, z))'
  <2>1. ASSUME NEW k \in lastId + 1 .. issued
        PROVE  Amount(risk'.reservations, Answers[k], z) = Amount(risk.reservations, Answers[k], z)
    BY <1>5, StillReserved DEF Amount
  <2>2. Outflow(Answers', risk'.reservations, lastId', issued', z)
          = Outflow(Answers, risk.reservations, lastId, issued, z)
    BY <1>4, <2>1 DEF Outflow
  <2>3. PICK D : D = Outflow(Answers, risk.reservations, lastId, issued, z)
    OBVIOUS
  <2>4. Leads(D, lastId, issued, risk.pending[z], Total(book, z) + Asked(News, z))
    BY <2>3 DEF FlowInv
  <2>5. PICK c \in Int : c = Ask(r, z)
    BY <1>7
  <2>6. Leads(D, lastId, issued, risk.pending[z] + c, (Total(book, z) + Asked(News, z)) + c)
    BY <1>0, <2>4, FlowShift
  <2>7. (Total(book, z) + Asked(News, z)) + c = Total(book, z) + Asked(News', z)
    BY <1>7, <2>5, TotalsNat
  <2>8. risk'.pending[z] = risk.pending[z] + c
    BY <1>6, <2>5
  <2> QED
    BY <2>2, <2>3, <2>6, <2>7, <2>8
<1>9. Leads(Inflow(Answers, lastId, issued), lastId, issued, position, filled)'
  BY <1>4 DEF FlowInv
<1> QED
  BY <1>8, <1>9 DEF FlowInv

\* A response that the client takes is off what is pending, and in the position.
LEMMA TakenAmount ==
    ASSUME Types, Ledger, NEW r, Answered(r), r.rid > lastId
    PROVE  /\ \A z \in Sides : risk'.pending[z] = risk.pending[z] - Amount(risk.reservations, r, z)
           /\ position' = position + Signed(r)
<1>0. r \in ResponseSet /\ r.rid \in Nat /\ lastId \in Nat /\ issued \in Nat
  BY DEF Answered, Ledger, Numbering, ResponseSet, Types
<1>1. (Contradicts(r) \/ Applied(r)) /\ risk \in RiskSet /\ risk.reservations \in Orders
      /\ risk.pending \in [Sides -> Int] /\ position \in Int
  <2>1. ~(r.rid <= lastId)
    BY <1>0
  <2> QED
    BY <2>1 DEF Answered, Types, RiskSet
<1>2. r.exec \in Nat /\ r.leaves \in Nat /\ r.side \in Sides /\ r.id \in Nat
  BY <1>0 DEF ResponseSet
<1>3. CASE risk' = risk /\ r.type \notin {"FILLED", "CANCELED", "REJECTED"} /\ position' = position
  <2>1. (\A z : Amount(risk.reservations, r, z) = 0) /\ Signed(r) = 0
    BY <1>3 DEF Amount, Signed
  <2> QED
    BY <1>1, <1>3, <2>1
<1>4. CASE Contradicts(r)
  <2>1. r.type = "CANCEL_REJECTED"
    BY <1>4, ContradictionIsCancel DEF Contradicts
  <2> QED
    BY <1>3, <1>4, <2>1 DEF Contradicts
<1>5. r = Answers[lastId + 1] /\ lastId + 1 \in lastId + 1 .. issued
  <2>1. r = Answers[lastId + 1] /\ lastId + 1 \in 1 .. issued
    BY AnswersTaken DEF Ledger
  <2> QED
    BY <1>0, <2>1
<1>6. r.type \in {"FILLED", "CANCELED", "REJECTED"} => r.id \in DOMAIN risk.reservations
  BY <1>5, StillReserved
<1>7. CASE Applied(r)
  <2>1. Agrees(risk, r) /\ risk' = Release(risk, r)
        /\ position' = IF r.type = "FILLED" THEN position + SideValue(r.side) * r.exec ELSE position
    BY <1>7 DEF Applied
  <2>2. position' = position + Signed(r)
    <3>1. CASE r.type # "FILLED"
      BY <1>1, <2>1, <3>1 DEF Signed
    <3>2. CASE r.type = "FILLED" /\ r.side = "BUY"
      <4>1. SideValue(r.side) = 1
        BY <3>2 DEF SideValue
      <4> QED
        BY <1>1, <1>2, <2>1, <3>2, <4>1 DEF Signed
    <3>3. CASE r.type = "FILLED" /\ r.side = "SELL"
      <4>1. SideValue(r.side) = -1
        BY <3>3 DEF SideValue
      <4> QED
        BY <1>1, <1>2, <2>1, <3>3, <4>1 DEF Signed
    <3> QED
      BY <1>2, <3>1, <3>2, <3>3 DEF Sides
  <2>3. CASE Ignores(risk, r)
    BY <1>3, <1>6, <2>1, <2>3 DEF Ignores
  <2>4. CASE r.id \in DOMAIN risk.reservations
    <3>1. PICK v \in Order : v = risk.reservations[r.id]
      BY <1>1, <2>4, OrdersElement
    <3>2. v.qty \in Nat /\ v.side \in Sides
      BY DEF Order
    <3>3. CASE Ends(risk, r)
      <4>1. risk'.pending = [risk.pending EXCEPT ![v.side] = @ - v.qty]
        BY <2>1, <3>1, <3>3 DEF Ends
      <4>2. \A z \in Sides : Amount(risk.reservations, r, z) = IF v.side = z THEN v.qty ELSE 0
        <5>1. CASE r.type = "FILLED"
          BY <3>1, <3>3, <5>1 DEF Ends, Amount
        <5>2. CASE r.type = "REJECTED"
          BY <3>1, <5>2 DEF Amount
        <5>3. CASE r.type = "CANCELED"
          <6>1. PICK p : Left(p, r, r.id)
            BY <1>2, LeftExplains
          <6>2. v.qty = r.leaves
            BY <2>4, <3>1, <5>3, <6>1 DEF Left, Change, Known
          <6> QED
            BY <3>1, <5>3, <6>2 DEF Amount
        <5> QED
          BY <3>3, <5>1, <5>2, <5>3 DEF Ends
      <4> QED
        BY <1>1, <2>2, <3>2, <4>1, <4>2
    <3>4. CASE Reduces(risk, r)
      <4>1. risk'.pending = [risk.pending EXCEPT ![v.side] = @ - r.exec]
        BY <2>1, <3>1, <3>4 DEF Reduces
      <4>2. \A z \in Sides : Amount(risk.reservations, r, z) = IF v.side = z THEN r.exec ELSE 0
        BY <3>1, <3>4 DEF Reduces, Amount
      <4> QED
        BY <1>1, <1>2, <2>2, <3>2, <4>1, <4>2
    <3> QED
      BY <1>0, <1>1, <2>1, <2>3, <3>3, <3>4, ReleaseKinds
  <2> QED
    BY <1>0, <1>1, <2>1, <2>3, <2>4, ReleaseKinds DEF Ends, Reduces
<1> QED
  BY <1>1, <1>4, <1>7

\* The other responses in flight take off as much as before.
LEMMA AmountsStay ==
    ASSUME Types, Types', Ledger, NEW r, Answered(r), r.rid > lastId,
           NEW k \in (lastId + 1) + 1 .. issued, NEW z
    PROVE  Amount(risk'.reservations, Answers[k], z) = Amount(risk.reservations, Answers[k], z)
<1>0. lastId \in Nat /\ issued \in Nat
  BY DEF Ledger, Numbering, Types
<1>1. k \in lastId + 1 .. issued /\ k \in lastId + 2 .. issued
  BY <1>0
<1>2. PICK x \in ResponseSet : x = Answers[k]
  BY <1>1 DEF Ledger, SideInv
<1>3. CASE x.type \notin {"CANCELED", "REJECTED"}
  BY <1>2, <1>3 DEF Amount
<1>4. CASE x.type \in {"CANCELED", "REJECTED"}
  <2>1. PICK id \in Nat : id = x.id
    BY DEF ResponseSet
  <2>2. id \in DOMAIN risk.reservations
    BY <1>1, <1>2, <1>4, <2>1, StillReserved
  <2>3. PICK p : Left(p, r, id)
    BY LeftExplains
  <2>4. /\ issued' = issued /\ lastId' = lastId + 1 /\ lastId + 1 \in 1 .. issued
        /\ Answers' = [j \in lastId + 2 .. issued |-> Answers[j]]
    BY AnswersTaken DEF Ledger
  <2>5. Answers'[k] = x /\ k \in lastId' + 1 .. issued'
    BY <1>1, <1>2, <2>4
  <2>6. PICK a \in Nat : a = lastId'
    BY <1>0, <2>4
  <2>7. PICK b \in Nat : b = issued' /\ a <= b
    BY <1>0, <2>4, <2>6
  <2>8. Chain(p, Answers', a, b, id) /\ k \in a + 1 .. b
    BY <2>3, <2>5, <2>6, <2>7 DEF Left
  <2>9. p[a] # 0
    BY <1>4, <2>1, <2>5, <2>7, <2>8, OpenBefore
  <2>10. Known(id)' = p[a]
    BY <2>3, <2>6, KnownAfter
  <2>11. id \in DOMAIN risk'.reservations
    BY <2>9, <2>10 DEF Known
  <2>12. risk'.reservations[id].side = risk.reservations[id].side
    BY <2>2, <2>11, ReservationsAfter
  <2>13. x.type = "REJECTED" => risk'.reservations[id].qty = risk.reservations[id].qty
    <3>1. x.type = "REJECTED" => p[a] = Known(id)
      BY <2>1, <2>3, <2>5, <2>6 DEF Left
    <3> QED
      BY <2>2, <2>10, <2>11, <3>1 DEF Known
  <2> QED
    BY <1>2, <1>4, <2>1, <2>12, <2>13 DEF Amount
<1> QED
  BY <1>3, <1>4

\* The client takes a response.
LEMMA FlowTaken ==
    ASSUME Types, Types', Ledger, FlowInv, NEW r, Answered(r), r.rid > lastId
    PROVE  FlowInv'
<1>0. lastId \in Nat /\ issued \in Nat /\ position \in Int /\ risk.pending \in [Sides -> Int]
  BY DEF Ledger, Numbering, Types, RiskSet
<1>1. /\ issued' = issued /\ lastId' = lastId + 1 /\ lastId + 1 \in 1 .. issued
      /\ r = Answers[lastId + 1] /\ Answers' = [k \in lastId + 2 .. issued |-> Answers[k]]
  BY AnswersTaken DEF Ledger
<1>2. book' = book /\ filled' = filled /\ News' = News
  BY DEF Answered, exchangeVars, News
<1>3. lastId + 1 \in lastId + 1 .. issued /\ lastId < issued
  BY <1>0, <1>1
<1>4. \A k \in (lastId + 1) + 1 .. issued : Answers'[k] = Answers[k] /\ k \in lastId + 1 .. issued
  <2>1. (lastId + 1) + 1 .. issued = lastId + 2 .. issued
    BY <1>0
  <2>2. \A k \in lastId + 2 .. issued : k \in lastId + 1 .. issued
    BY <1>0
  <2> QED
    BY <1>1, <2>1, <2>2
<1>5. ASSUME NEW z \in Sides
      PROVE  Leads(Outflow(Answers, risk.reservations, lastId, issued, z), lastId, issued,
                   risk.pending[z], Total(book, z) + Asked(News, z))'
  <2>1. PICK D : D = Outflow(Answers, risk.reservations, lastId, issued, z)
    OBVIOUS
  <2>2. PICK E : E = Outflow(Answers', risk'.reservations, lastId + 1, issued, z)
    OBVIOUS
  <2>3. Leads(D, lastId, issued, risk.pending[z], Total(book, z) + Asked(News, z))
    BY <2>1 DEF FlowInv
  <2>4. \A k \in (lastId + 1) + 1 .. issued :
           E[k] = -Amount(risk.reservations, Answers[k], z) /\ E[k] \in Int
    <3> SUFFICES ASSUME NEW k \in (lastId + 1) + 1 .. issued
                 PROVE  E[k] = -Amount(risk.reservations, Answers[k], z) /\ E[k] \in Int
      OBVIOUS
    <3>1. E[k] = -Amount(risk'.reservations, Answers[k], z)
      BY <1>4, <2>2 DEF Outflow
    <3>2. Amount(risk'.reservations, Answers[k], z) = Amount(risk.reservations, Answers[k], z)
      BY AmountsStay
    <3>3. Amount(risk.reservations, Answers[k], z) \in Nat
      BY <1>4, Amounts
    <3> QED
      BY <3>1, <3>2, <3>3
  <2>5. E \in [(lastId + 1) + 1 .. issued -> Int]
    BY <2>2, <2>4 DEF Outflow
  <2>6. \A k \in (lastId + 1) + 1 .. issued : E[k] = D[k]
    BY <1>4, <2>1, <2>4 DEF Outflow
  <2>7. Leads(E, lastId + 1, issued, risk.pending[z] + D[lastId + 1], Total(book, z) + Asked(News, z))
    BY <1>0, <1>3, <2>3, <2>5, <2>6, FlowTake
  <2>8. risk'.pending[z] = risk.pending[z] + D[lastId + 1]
    <3>1. D[lastId + 1] = -Amount(risk.reservations, r, z)
      BY <1>1, <1>3, <2>1 DEF Outflow
    <3>2. Amount(risk.reservations, r, z) \in Nat
      BY <1>1, <1>3, Amounts
    <3>3. risk'.pending[z] = risk.pending[z] - Amount(risk.reservations, r, z)
      BY TakenAmount
    <3> QED
      BY <1>0, <3>1, <3>2, <3>3
  <2> QED
    BY <1>1, <1>2, <2>2, <2>7, <2>8
<1>6. Leads(Inflow(Answers, lastId, issued), lastId, issued, position, filled)'
  <2>1. PICK D : D = Inflow(Answers, lastId, issued)
    OBVIOUS
  <2>2. PICK E : E = Inflow(Answers', lastId + 1, issued)
    OBVIOUS
  <2>3. Leads(D, lastId, issued, position, filled)
    BY <2>1 DEF FlowInv
  <2>4. \A k \in (lastId + 1) + 1 .. issued : E[k] = Signed(Answers[k]) /\ E[k] \in Int
    BY <1>4, <2>2, Amounts DEF Inflow
  <2>5. E \in [(lastId + 1) + 1 .. issued -> Int]
    BY <2>2, <2>4 DEF Inflow
  <2>6. \A k \in (lastId + 1) + 1 .. issued : E[k] = D[k]
    BY <1>4, <2>1, <2>4 DEF Inflow
  <2>7. Leads(E, lastId + 1, issued, position + D[lastId + 1], filled)
    BY <1>0, <1>3, <2>3, <2>5, <2>6, FlowTake
  <2>8. position' = position + D[lastId + 1]
    BY <1>1, <1>3, <2>1, TakenAmount DEF Inflow
  <2> QED
    BY <1>1, <1>2, <2>2, <2>7, <2>8
<1> QED
  BY <1>5, <1>6 DEF FlowInv

\* The exchange gives x: its orders and its position change as x says.
LEMMA FlowGiven ==
    ASSUME Types, IdInv, Ledger, FlowInv, NEW x, Gives(x), position' = position,
           \A s \in Sides : /\ Amount(risk.reservations, x, s) \in Nat
                            /\ Total(book', s) + Asked(News', s)
                                 = Total(book, s) + Asked(News, s) - Amount(risk.reservations, x, s),
           Signed(x) \in Int, filled' = filled + Signed(x)
    PROVE  FlowInv'
<1>0. /\ lastId \in Nat /\ issued \in Nat /\ lastId <= issued /\ risk' = risk /\ lastId' = lastId
      /\ issued' = issued + 1 /\ Answers'[issued + 1] = x
      /\ \A k \in lastId + 1 .. issued : Answers'[k] = Answers[k]
  BY DEF Ledger, Numbering, Types, Gives
<1>1. /\ issued + 1 \in lastId + 1 .. issued + 1
      /\ \A k \in lastId + 1 .. issued + 1 : k = issued + 1 \/ k \in lastId + 1 .. issued
      /\ \A k \in lastId + 1 .. issued : k \in lastId + 1 .. issued + 1
  BY <1>0
<1>2. ASSUME NEW s \in Sides
      PROVE  Leads(Outflow(Answers, risk.reservations, lastId, issued, s), lastId, issued,
                   risk.pending[s], Total(book, s) + Asked(News, s))'
  <2>1. PICK D : D = Outflow(Answers, risk.reservations, lastId, issued, s)
    OBVIOUS
  <2>2. PICK E : E = Outflow(Answers', risk.reservations, lastId, issued + 1, s)
    OBVIOUS
  <2>3. Leads(D, lastId, issued, risk.pending[s], Total(book, s) + Asked(News, s))
    BY <2>1 DEF FlowInv
  <2>4. /\ E[issued + 1] = -Amount(risk.reservations, x, s)
        /\ \A k \in lastId + 1 .. issued : E[k] = -Amount(risk.reservations, Answers[k], s)
    BY <1>0, <1>1, <2>2 DEF Outflow
  <2>5. ASSUME NEW k \in lastId + 1 .. issued PROVE E[k] = D[k] /\ E[k] \in Int
    <3>1. Amount(risk.reservations, Answers[k], s) \in Nat
      BY Amounts
    <3> QED
      BY <2>1, <2>4, <3>1 DEF Outflow
  <2>6. E[issued + 1] \in Int
    BY <2>4
  <2>7. E \in [lastId + 1 .. issued + 1 -> Int]
    BY <1>1, <2>2, <2>5, <2>6 DEF Outflow
  <2>8. Leads(E, lastId, issued + 1, risk.pending[s],
              (Total(book, s) + Asked(News, s)) + E[issued + 1])
    BY <1>0, <2>3, <2>5, <2>7, FlowGive
  <2>9. (Total(book, s) + Asked(News, s)) + E[issued + 1] = Total(book', s) + Asked(News', s)
    <3>1. Total(book, s) \in Nat /\ Asked(News, s) \in Nat
      BY TotalsNat
    <3>2. PICK n \in Nat : n = Total(book, s) + Asked(News, s)
      BY <3>1
    <3>3. PICK m \in Nat : m = Amount(risk.reservations, x, s)
      OBVIOUS
    <3>4. PICK u : u = Total(book', s) + Asked(News', s)
      OBVIOUS
    <3>5. u = Total(book, s) + Asked(News, s) - Amount(risk.reservations, x, s)
      BY <3>4
    <3>6. u = n - m /\ E[issued + 1] = -m
      BY <2>4, <3>1, <3>2, <3>3, <3>5
    <3> QED
      BY <3>2, <3>4, <3>6
  <2> QED
    BY <1>0, <2>2, <2>8, <2>9
<1>3. Leads(Inflow(Answers, lastId, issued), lastId, issued, position, filled)'
  <2>1. PICK D : D = Inflow(Answers, lastId, issued)
    OBVIOUS
  <2>2. PICK E : E = Inflow(Answers', lastId, issued + 1)
    OBVIOUS
  <2>3. Leads(D, lastId, issued, position, filled)
    BY <2>1 DEF FlowInv
  <2>4. /\ E[issued + 1] = Signed(x)
        /\ \A k \in lastId + 1 .. issued : E[k] = Signed(Answers[k])
    BY <1>0, <1>1, <2>2 DEF Inflow
  <2>5. \A k \in lastId + 1 .. issued : E[k] = D[k] /\ E[k] \in Int
    BY <2>1, <2>4, Amounts DEF Inflow
  <2>6. E \in [lastId + 1 .. issued + 1 -> Int]
    BY <1>1, <2>2, <2>4, <2>5 DEF Inflow
  <2>7. Leads(E, lastId, issued + 1, position, filled + E[issued + 1])
    BY <1>0, <2>3, <2>5, <2>6, FlowGive
  <2> QED
    BY <1>0, <2>2, <2>4, <2>7
<1> QED
  BY <1>2, <1>3 DEF FlowInv

\* The exchange's orders and position change as its response says.
LEMMA FlowExchange ==
    ASSUME Types, Types', IdInv, Ledger, FlowInv, filled \in Int, NEW x, Gives(x),
           position' = position, (Decides(x) /\ filled' = filled) \/ Fills(x)
    PROVE  FlowInv'
<1>0. /\ book \in Orders /\ book' \in Orders /\ x \in ResponseSet
      /\ requests \in Seq(RequestSet) /\ requests' \in Seq(RequestSet)
  BY DEF Types, Gives
<1>1. x.id \in Nat /\ x.side \in Sides /\ x.exec \in Nat /\ x.leaves \in Nat
  BY <1>0 DEF ResponseSet
<1>2. IsFiniteSet(DOMAIN book) /\ \A s : Total(book, s) \in Nat /\ Asked(News, s) \in Nat
  BY TotalsNat
<1>3. /\ DOMAIN book \ {x.id} = DOMAIN book' \ {x.id}
      /\ \A y \in DOMAIN book \ {x.id} : book[y] = book'[y]
  <2>1. \A y : y # x.id => /\ y \in DOMAIN book' <=> y \in DOMAIN book
                           /\ y \in DOMAIN book => book'[y] = book[y]
    BY DEF Gives
  <2> QED
    BY <2>1
<1>4. IsFiniteSet(DOMAIN book')
  <2>1. IsFiniteSet(DOMAIN book \cup {x.id}) /\ DOMAIN book' \subseteq DOMAIN book \cup {x.id}
    BY <1>2, <1>3, FS_AddElement
  <2> QED
    BY <2>1, FS_Subset
<1>5. ASSUME NEW s
      PROVE  /\ Part(book, x.id, s) \in Nat /\ Part(book', x.id, s) \in Nat /\ Total(book', s) \in Nat
             /\ Total(book', s) = Total(book, s) - Part(book, x.id, s) + Part(book', x.id, s)
  <2>1. PICK f \in Orders : f = book
    BY <1>0
  <2>2. PICK g \in Orders : g = book'
    BY <1>0
  <2>3. PICK id : id = x.id
    OBVIOUS
  <2>4. /\ IsFiniteSet(DOMAIN f) /\ IsFiniteSet(DOMAIN g) /\ DOMAIN f \ {id} = DOMAIN g \ {id}
        /\ \A y \in DOMAIN f \ {id} : f[y] = g[y]
    BY <1>2, <1>3, <1>4, <2>1, <2>2, <2>3
  <2>5. /\ Part(f, id, s) \in Nat /\ Part(g, id, s) \in Nat /\ Total(g, s) \in Nat
        /\ Total(g, s) = Total(f, s) - Part(f, id, s) + Part(g, id, s)
    BY <2>4, TotalChange
  <2> QED
    BY <2>1, <2>2, <2>3, <2>5
<1>6. IsFiniteSet(News) /\ News \subseteq NewSet
  BY <1>0, NewsFinite DEF News, NewsOf
<1>7. ASSUME NEW r \in News, News' = News \ {r}, NEW s
      PROVE  /\ Asked(News, s) = Asked(News', s) + Ask(r, s)
             /\ Asked(News', s) \in Nat /\ Ask(r, s) \in Nat
  BY <1>6, <1>7, AskedPart
<1>8. ASSUME Signed(x) \in Int, filled' = filled + Signed(x),
             \A s \in Sides : /\ Amount(risk.reservations, x, s) \in Nat
                              /\ Total(book', s) + Asked(News', s)
                                   = Total(book, s) + Asked(News, s) - Amount(risk.reservations, x, s)
      PROVE  FlowInv'
  BY <1>8, FlowGiven
<1>9. CASE Decides(x) /\ filled' = filled
  <2>1. Signed(x) = 0 /\ filled' = filled + Signed(x)
    BY <1>9 DEF Decides, Signed
  <2>2. ASSUME x.type = "ACCEPTED", NEW r \in News, x.id = r.id, x.id \notin DOMAIN book,
               News' = News \ {r}, book' = With(book, x.id, [side |-> r.side, qty |-> r.qty])
        PROVE  FlowInv'
    <3>1. ASSUME NEW s PROVE Part(book, x.id, s) = 0 /\ Part(book', x.id, s) = Ask(r, s)
      BY <2>2, BookWith DEF Part, Ask
    <3>2. \A s : Amount(risk.reservations, x, s) = 0
      BY <2>2 DEF Amount
    <3>3. ASSUME NEW s
          PROVE  Total(book', s) + Asked(News', s) = Total(book, s) + Asked(News, s) - 0
      <4>1. PICK n \in Nat : n = Ask(r, s)
        BY <1>7, <2>2
      <4>2. Total(book', s) = Total(book, s) + n
        BY <1>2, <1>5, <3>1, <4>1
      <4>3. Asked(News, s) = Asked(News', s) + n /\ Asked(News', s) \in Nat
        BY <1>7, <2>2, <4>1
      <4> QED
        BY <1>2, <4>2, <4>3
    <3> QED
      BY <1>8, <2>1, <3>2, <3>3
  <2>3. ASSUME x.type = "REJECTED", NEW r \in News, x.id = r.id, x.id \in DOMAIN risk.reservations,
               risk.reservations[x.id] = [side |-> r.side, qty |-> r.qty],
               News' = News \ {r}, book' = book
        PROVE  FlowInv'
    <3>1. \A s : Amount(risk.reservations, x, s) = Ask(r, s)
      BY <2>3 DEF Amount, Ask
    <3>2. ASSUME NEW s
          PROVE  /\ Amount(risk.reservations, x, s) \in Nat
                 /\ Total(book', s) + Asked(News', s)
                      = Total(book, s) + Asked(News, s) - Amount(risk.reservations, x, s)
      <4>1. PICK n \in Nat : n = Ask(r, s)
        BY <1>7, <2>3
      <4>2. Asked(News, s) = Asked(News', s) + n /\ Asked(News', s) \in Nat
        BY <1>7, <2>3, <4>1
      <4>3. Total(book', s) + Asked(News', s) = Total(book, s) + Asked(News, s) - n
        BY <1>2, <2>3, <4>2
      <4> QED
        BY <3>1, <4>1, <4>3
    <3> QED
      BY <1>8, <2>1, <3>2
  <2>4. ASSUME x.type = "CANCELED", x.id \in DOMAIN book, x.leaves = book[x.id].qty,
               book' = Without(book, x.id), News' = News
        PROVE  FlowInv'
    <3>1. book[x.id].side = risk.reservations[x.id].side
      BY <2>4 DEF Ledger, SideInv
    <3>2. ASSUME NEW s
          PROVE  /\ Part(book', x.id, s) = 0
                 /\ Part(book, x.id, s) = Amount(risk.reservations, x, s)
      BY <2>4, <3>1, BookWithout DEF Part, Amount
    <3>3. ASSUME NEW s
          PROVE  /\ Amount(risk.reservations, x, s) \in Nat
                 /\ Total(book', s) + Asked(News', s)
                      = Total(book, s) + Asked(News, s) - Amount(risk.reservations, x, s)
      <4>1. PICK n \in Nat : n = Amount(risk.reservations, x, s)
        BY <1>5, <3>2
      <4>2. Total(book', s) = Total(book, s) - n
        BY <1>2, <1>5, <3>2, <4>1
      <4>3. Total(book', s) + Asked(News', s) = Total(book, s) + Asked(News, s) - n
        BY <1>2, <2>4, <4>2
      <4> QED
        BY <4>1, <4>3
    <3> QED
      BY <1>8, <2>1, <3>3
  <2>5. ASSUME x.type = "CANCEL_REJECTED", book' = book, News' = News
        PROVE  FlowInv'
    <3>1. \A s : Amount(risk.reservations, x, s) = 0
      BY <2>5 DEF Amount
    <3>2. ASSUME NEW s PROVE Total(book', s) + Asked(News', s) = Total(book, s) + Asked(News, s) - 0
      BY <1>2, <2>5
    <3> QED
      BY <1>8, <2>1, <3>1, <3>2
  <2> QED
    BY <1>9, <2>2, <2>3, <2>4, <2>5 DEF Decides
<1>10. CASE Fills(x)
  <2>1. Signed(x) \in Int /\ filled' = filled + Signed(x)
    <3>1. x.type = "FILLED" /\ filled' = filled + SideValue(x.side) * x.exec
      BY <1>10 DEF Fills
    <3>2. CASE x.side = "BUY"
      <4>1. SideValue(x.side) = 1
        BY <3>2 DEF SideValue
      <4> QED
        BY <1>1, <3>1, <3>2, <4>1 DEF Signed
    <3>3. CASE x.side = "SELL"
      <4>1. SideValue(x.side) = -1
        BY <3>3 DEF SideValue
      <4> QED
        BY <1>1, <3>1, <3>3, <4>1 DEF Signed
    <3> QED
      BY <1>1, <3>2, <3>3 DEF Sides
  <2>2. ASSUME NEW s
        PROVE  Amount(risk.reservations, x, s) = IF x.side = s THEN x.exec ELSE 0
    BY <1>10 DEF Fills, Amount
  <2>3. ASSUME NEW s
        PROVE  /\ Part(book, x.id, s) = IF x.side = s THEN x.exec + x.leaves ELSE 0
               /\ Part(book', x.id, s) = IF x.side = s THEN x.leaves ELSE 0
    BY <1>10 DEF Fills, Part
  <2>4. ASSUME NEW s
        PROVE  /\ Amount(risk.reservations, x, s) \in Nat
               /\ Total(book', s) + Asked(News', s)
                    = Total(book, s) + Asked(News, s) - Amount(risk.reservations, x, s)
    <3>1. PICK n \in Nat : n = Amount(risk.reservations, x, s)
      BY <1>1, <2>2
    <3>2. Part(book, x.id, s) = n + Part(book', x.id, s)
      BY <1>1, <2>2, <2>3, <3>1
    <3>3. Total(book', s) = Total(book, s) - n
      BY <1>2, <1>5, <3>1, <3>2
    <3>4. News' = News
      BY <1>10 DEF Fills
    <3>5. Total(book', s) + Asked(News', s) = Total(book, s) + Asked(News, s) - n
      BY <1>2, <3>3, <3>4
    <3> QED
      BY <3>1, <3>5
  <2> QED
    BY <1>8, <2>1, <2>4
<1> QED
  BY <1>9, <1>10

\* Every step keeps the exposure the client reckons with above the true one.
LEMMA FlowKept ==
    ASSUME Types, Types', MainInv, IdInv, Ledger, FlowInv, [Next]_vars
    PROVE  FlowInv'
<1>1. CASE ClientStep
  <2>0. UNCHANGED <<book, lastId, issued, responses, position, filled>>
    BY <1>1 DEF ClientStep, exchangeVars
  <2>a. Answers' = Answers
    BY <2>0, AnswersSame DEF Ledger
  <2>1. CASE Quiet
    <3>1. risk' = risk /\ News' = News
      BY <2>1 DEF Quiet, News
    <3> QED
      BY <2>0, <2>a, <3>1, FlowSame
  <2>2. ASSUME NEW id \in Nat, CancelSent(id) PROVE FlowInv'
    <3>1. /\ id \in 0 .. nextId - 1 /\ nextId' = nextId /\ risk' = risk
          /\ requests' = Append(requests, Cancel(id))
      BY <2>2, CanceledFacts DEF CancelSent
    <3>2. News' = News
      BY <3>1, QueueCanceled DEF Ledger
    <3> QED
      BY <2>0, <2>a, <3>1, <3>2, FlowSame
  <2>3. ASSUME NEW s \in Sides, NEW q \in Nat \ {0}, OrderSent(s, q) PROVE FlowInv'
    BY <2>0, <2>3, FlowPlaced DEF OrderSent
  <2> QED
    BY <1>1, <2>1, <2>2, <2>3 DEF ClientStep
<1>2. CASE OnOrderUpdate
  <2>1. PICK r : Answered(r)
    BY <1>2, AnswerKinds
  <2>2. r.rid \in Nat /\ lastId \in Nat
    BY <2>1 DEF Answered, ResponseSet, Ledger, Numbering
  <2>3. CASE r.rid <= lastId
    <3>1. UNCHANGED <<risk, book, requests, position, filled>>
      <4>1. ~(r.rid > lastId)
        BY <2>2, <2>3
      <4> QED
        BY <2>1, <4>1 DEF Answered, clientVars, exchangeVars
    <3>2. News' = News
      BY <3>1 DEF News
    <3>3. Answers' = Answers /\ UNCHANGED <<lastId, issued>>
      BY <2>1, <2>3, AnswersStale DEF Ledger
    <3> QED
      BY <3>1, <3>2, <3>3, FlowSame
  <2>4. CASE r.rid > lastId
    BY <2>1, <2>4, FlowTaken
  <2> QED
    BY <2>2, <2>3, <2>4
<1>3. CASE ExchangeRequest
  <2>1. PICK x : Gives(x) /\ Decides(x)
    BY <1>3, LedgerRequest
  <2>2. position' = position /\ filled' = filled /\ filled \in Int
    BY <1>3 DEF ExchangeRequest, clientVars, MainInv
  <2> QED
    BY <2>1, <2>2, FlowExchange
<1>4. CASE ExchangeFill
  <2>1. PICK x : Gives(x) /\ Fills(x)
    BY <1>4, LedgerFill
  <2>2. position' = position /\ filled \in Int
    BY <1>4 DEF ExchangeFill, clientVars, MainInv
  <2> QED
    BY <2>1, <2>2, FlowExchange
<1> QED
  BY <1>1, <1>2, <1>3, <1>4, Kinds

\* Nothing is in flight when a client starts.
LEMMA InitFlowInv == Init => FlowInv
<1> SUFFICES ASSUME Init PROVE FlowInv
  OBVIOUS
<1>1. /\ lastId = 0 /\ issued = 0 /\ position = 0 /\ filled = 0 /\ book = <<>> /\ News = {}
      /\ \A s \in Sides : risk.pending[s] = 0
  BY DEF Init, News, Range
<1>2. \A s : Total(book, s) + Asked(News, s) = 0
  BY <1>1, TotalEmpty, AskedEmpty
<1>3. ASSUME NEW D, D \in [1 .. 0 -> Int] PROVE Leads(D, 0, 0, 0, 0)
  <2>1. PICK h : h = [k \in 0 .. 0 |-> 0]
    OBVIOUS
  <2>2. Flow(h, D, 0, 0) /\ h[0] = 0
    BY <1>3, <2>1 DEF Flow
  <2> QED
    BY <2>2 DEF Leads
<1>4. \A s : Outflow(Answers, risk.reservations, 0, 0, s) \in [1 .. 0 -> Int]
  BY DEF Outflow
<1>5. Inflow(Answers, 0, 0) \in [1 .. 0 -> Int]
  BY DEF Inflow
<1> QED
  BY <1>1, <1>2, <1>3, <1>4, <1>5 DEF FlowInv

\* The risk limits hold at the exchange too: whatever of the client's orders it
\* still fills, in flight or resting, the true position stays within
\* max_position_, though the client learns of the fills later.
THEOREM ExposureIsBounded == Spec => []TrueExposure
<1>1. RiskInv /\ OrderInv /\ FlowInv => TrueExposure
  <2> SUFFICES ASSUME RiskInv, OrderInv, FlowInv PROVE TrueExposure
    OBVIOUS
  <2>0. Types /\ IdInv /\ Ledger /\ WithinLimits /\ filled \in Int
    BY DEF RiskInv, OrderInv, MainInv
  <2>1. lastId \in Nat /\ issued \in Nat /\ lastId <= issued /\ position \in Int
        /\ risk.pending \in [Sides -> Int] /\ MaxPosition \in Nat
    BY <2>0, TradeEngineAssumption DEF Types, RiskSet, Ledger, Numbering
  <2>2. \A s : Coming(s) = Asked(News, s)
    BY DEF Coming, NewOrders, News, Asked
  <2>3. PICK I : I = Inflow(Answers, lastId, issued)
    OBVIOUS
  <2>4. Leads(I, lastId, issued, position, filled)
    BY <2>3 DEF FlowInv
  <2>5. filled + (Total(book, "BUY") + Asked(News, "BUY")) <= position + risk.pending["BUY"]
    <3>1. PICK D : D = Outflow(Answers, risk.reservations, lastId, issued, "BUY")
      OBVIOUS
    <3>2. Leads(D, lastId, issued, risk.pending["BUY"], Total(book, "BUY") + Asked(News, "BUY"))
      BY <3>1 DEF FlowInv, Sides
    <3>3. ASSUME NEW k \in lastId + 1 .. issued PROVE I[k] + D[k] <= 0
      <4>1. /\ Amount(risk.reservations, Answers[k], "BUY") \in Nat /\ Signed(Answers[k]) \in Int
            /\ Signed(Answers[k]) <= Amount(risk.reservations, Answers[k], "BUY")
        BY <2>0, Amounts
      <4>2. I[k] = Signed(Answers[k]) /\ D[k] = -Amount(risk.reservations, Answers[k], "BUY")
        BY <2>3, <3>1 DEF Inflow, Outflow
      <4> QED
        BY <4>1, <4>2
    <3> QED
      BY <2>1, <2>4, <3>2, <3>3, FlowFalls
  <2>6. (Total(book, "SELL") + Asked(News, "SELL")) - filled <= risk.pending["SELL"] - position
    <3>1. PICK D : D = Outflow(Answers, risk.reservations, lastId, issued, "SELL")
      OBVIOUS
    <3>2. Leads(D, lastId, issued, risk.pending["SELL"], Total(book, "SELL") + Asked(News, "SELL"))
      BY <3>1 DEF FlowInv, Sides
    <3>3. PICK J : J = [k \in lastId + 1 .. issued |-> -I[k]]
      OBVIOUS
    <3>4. Leads(J, lastId, issued, -position, -filled)
      BY <2>1, <2>4, <3>3, FlowTurned
    <3>5. ASSUME NEW k \in lastId + 1 .. issued PROVE J[k] + D[k] <= 0
      <4>1. /\ Amount(risk.reservations, Answers[k], "SELL") \in Nat /\ Signed(Answers[k]) \in Int
            /\ -Signed(Answers[k]) <= Amount(risk.reservations, Answers[k], "SELL")
        BY <2>0, Amounts
      <4>2. J[k] = -Signed(Answers[k]) /\ D[k] = -Amount(risk.reservations, Answers[k], "SELL")
        BY <2>3, <3>1, <3>3 DEF Inflow, Outflow
      <4> QED
        BY <4>1, <4>2
    <3>6. (-filled) + (Total(book, "SELL") + Asked(News, "SELL")) <= (-position) + risk.pending["SELL"]
      BY <2>1, <3>2, <3>4, <3>5, FlowFalls
    <3>7. risk.pending["SELL"] \in Int
      BY <2>1 DEF Sides
    <3> QED
      BY <2>0, <2>1, <3>6, <3>7, TotalsNat
  <2>7. /\ risk.pending["BUY"] \in Int /\ risk.pending["SELL"] \in Int
        /\ \A s : Total(book, s) \in Nat /\ Asked(News, s) \in Nat
    BY <2>0, <2>1, TotalsNat DEF Sides
  <2> QED
    BY <2>0, <2>1, <2>2, <2>5, <2>6, <2>7 DEF WithinLimits, TrueExposure
<1>2. RiskInv /\ RiskInv' /\ OrderInv /\ FlowInv /\ [Next]_vars => FlowInv'
  BY FlowKept DEF RiskInv, OrderInv
<1> QED
  BY <1>1, <1>2, InitFlowInv, OrderInductive, PTL DEF Spec
===============================================================================
