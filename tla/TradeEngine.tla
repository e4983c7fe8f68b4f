------------------------------ MODULE TradeEngine ------------------------------
(***************************************************************************)
(* The order side of a trading client, for one ticker: sendClientRequest   *)
(* and its admission gates, RiskManager with its reservations, the         *)
(* OrderManager that keeps one order per side, the position, and quiesce() *)
(* on the main thread.  The exchange and the session in between appear as  *)
(* the queue of requests, the queue of responses and the orders resting.   *)
(*                                                                         *)
(* Each sendClientRequest and each onOrderUpdate is one step: state_mutex_ *)
(* makes it so, but for the OrderManager's part, which only the engine     *)
(* thread ever looks at.  P&L is floating point; whether it is within      *)
(* max_loss_ is an input.  Order ids are never reused, by OrderManager and *)
(* by the RANDOM generator, so DUPLICATE_ID is left out.                   *)
(***************************************************************************)
EXTENDS Integers, Sequences, FiniteSets, FiniteSetsExt, Functions

CONSTANTS Algos,           \* the algorithms the client may be started with
          Prices,          \* prices a strategy may quote
          NoPrice,         \* Price_INVALID
          Clip,            \* clip_ of the ticker's configuration
          Quantities,      \* quantities of the RANDOM generator
          MaxOrderSize,    \* max_order_size_
          MaxPosition,     \* max_position_
          RequestCapacity, \* capacity of the queue to the gateway
          MaxOrders,       \* bound on the number of orders
          MaxMessages,     \* bound on the requests of the RANDOM generator
          MaxResends,      \* bound on repeated responses
          Reorders,        \* may the exchange take two requests in inverted order
          Idle             \* the engine thread is not inside moveOrders

ASSUME TradeEngineAssumption ==
    /\ Algos \subseteq {"MAKER", "TAKER", "RANDOM"}
    /\ NoPrice \notin Prices
    /\ Clip \in Nat \ {0} /\ Quantities \subseteq Nat \ {0}
    /\ MaxOrderSize \in Nat /\ MaxPosition \in Nat /\ RequestCapacity \in Nat
    /\ MaxOrders \in Nat /\ MaxMessages \in Nat /\ MaxResends \in Nat
    /\ Reorders \in BOOLEAN

VARIABLES om,         \* ticker_side_order_: the OrderManager's order per side
          nextId,     \* next_order_id_
          risk,       \* reservations_ and pending_buy_/pending_sell_
          position,   \* position_ of the PositionKeeper
          reconciled, \* reconciled_
          lastId,     \* last_response_id_
          algo,       \* algo_type_ of the command line
          admitting,  \* admitting_
          ready,      \* marketReady()
          session,    \* the gateway's session_healthy_
          todo,       \* the ask price moveOrders still has to treat, or Idle
          sent,       \* the orders the RANDOM generator has sent
          phase,      \* progress of quiesce() on the main thread
          cancels,    \* the cancellations it has still to send
          listed,     \* all it collected
          requests,   \* requests on their way to the exchange
          responses,  \* responses on their way back
          book,       \* the client's orders resting at the exchange
          filled,     \* the client's position at the exchange
          issued,     \* responses issued by the exchange
          reordered,  \* ghost: the exchange has taken two requests in inverted order
          resends     \* repeated responses so far

clientVars == <<om, nextId, risk, position, reconciled, lastId>>
gateVars == <<algo, admitting, ready, session>>
mainVars == <<sent, phase, cancels, listed>>
exchangeVars == <<book, filled, issued, reordered>>
vars == <<clientVars, gateVars, mainVars, exchangeVars, todo, requests, responses, resends>>

Sides == {"BUY", "SELL"}
SideValue(s) == IF s = "BUY" THEN 1 ELSE -1
Abs(n) == IF n < 0 THEN -n ELSE n
Without(f, x) == [y \in DOMAIN f \ {x} |-> f[y]]
With(f, x, v) == [y \in DOMAIN f \cup {x} |-> IF y = x THEN v ELSE f[y]]

New(id, s, q) == [type |-> "NEW", id |-> id, side |-> s, qty |-> q]
Cancel(id) == [type |-> "CANCEL", id |-> id, side |-> "BUY", qty |-> 0]
-------------------------------------------------------------------------------
(* RiskManager                                                               *)

CheckSingleOrder(s, q, solvent) ==
    /\ q <= MaxOrderSize
    /\ Abs(position + SideValue(s) * q) <= MaxPosition
    /\ solvent

CheckPositionOnly(s, q, solvent) == CheckSingleOrder(s, q, solvent)

\* checkPreTradeRisk: every open order may fill, and so may this one.
CheckPreTradeRisk(s, q, solvent) ==
    LET buys == risk.pending["BUY"] + (IF s = "BUY" THEN q ELSE 0)
        sells == risk.pending["SELL"] + (IF s = "SELL" THEN q ELSE 0)
    IN  /\ CheckSingleOrder(s, q, solvent)
        /\ position + buys <= MaxPosition
        /\ position - sells >= -MaxPosition

Reserve(k, r) ==
    IF r.type = "CANCEL" THEN k
    ELSE [reservations |-> With(k.reservations, r.id, [side |-> r.side, qty |-> r.qty]),
          pending |-> [k.pending EXCEPT ![r.side] = @ + r.qty]]

RollbackKeepsPending(k, r) ==
    IF r.type = "CANCEL" THEN k ELSE [k EXCEPT !.reservations = Without(@, r.id)]

Rollback(k, r) ==
    IF r.type = "CANCEL" \/ r.id \notin DOMAIN k.reservations THEN k
    ELSE [reservations |-> Without(k.reservations, r.id),
          pending |-> [k.pending EXCEPT ![k.reservations[r.id].side] =
                                           @ - k.reservations[r.id].qty]]

\* onResponse: does the response agree with the reservation it is about?
Agrees(k, r) ==
    IF r.id \notin DOMAIN k.reservations THEN r.type # "FILLED"
    ELSE LET v == k.reservations[r.id] IN
         CASE r.type = "FILLED" -> r.side = v.side /\ r.exec \in 1 .. v.qty
                                     /\ r.exec + r.leaves = v.qty
           [] r.type = "CANCEL_REJECTED" -> r.leaves = v.qty
           [] OTHER -> TRUE

ReleaseKeepsQuantity(k, r) ==
    IF r.id \notin DOMAIN k.reservations THEN k
    ELSE LET v == k.reservations[r.id]
             gone == [reservations |-> Without(k.reservations, r.id),
                      pending |-> [k.pending EXCEPT ![v.side] = @ - v.qty]]
         IN  CASE r.type \in {"CANCELED", "REJECTED"} -> gone
               [] r.type = "FILLED" /\ r.leaves = 0 -> gone
               [] OTHER -> k

\* onResponse: the part of the reservation that is used up or released.
Release(k, r) ==
    IF r.id \notin DOMAIN k.reservations THEN k
    ELSE LET v == k.reservations[r.id]
             gone == [reservations |-> Without(k.reservations, r.id),
                      pending |-> [k.pending EXCEPT ![v.side] = @ - v.qty]]
         IN  CASE r.type \in {"CANCELED", "REJECTED"} -> gone
               [] r.type = "FILLED" /\ r.leaves = 0 -> gone
               [] r.type = "FILLED" /\ r.leaves > 0 ->
                    [reservations |-> [k.reservations EXCEPT ![r.id].qty = r.leaves],
                     pending |-> [k.pending EXCEPT ![v.side] = @ - r.exec]]
               [] OTHER -> k
-------------------------------------------------------------------------------
(* TradeEngine::sendClientRequest                                            *)

AdmittedAfterClose(r, solvent) ==
    /\ r.type = "NEW" => ready
    /\ reconciled /\ session
    /\ r.type = "NEW" => CheckPreTradeRisk(r.side, r.qty, solvent)

Admitted(r, solvent) ==
    /\ r.type = "NEW" => admitting /\ ready
    /\ reconciled /\ session
    /\ r.type = "NEW" => /\ r.id \notin DOMAIN risk.reservations
                         /\ CheckPreTradeRisk(r.side, r.qty, solvent)

SentAlways(r, solvent) == Admitted(r, solvent)

Sent(r, solvent) == Admitted(r, solvent) /\ Len(requests) < RequestCapacity

SendClientRequest(r, solvent) ==
    /\ risk' = IF ~Admitted(r, solvent) THEN risk
               ELSE IF Sent(r, solvent) THEN Reserve(risk, r)
               ELSE Rollback(Reserve(risk, r), r)
    /\ requests' = IF Sent(r, solvent) THEN Append(requests, r) ELSE requests
-------------------------------------------------------------------------------
(* OrderManager, called by a strategy on the engine thread                   *)

\* newOrder and cancelOrder: the order and the next id change only if the request
\* was sent.
NewOrder(s, price, solvent) ==
    LET n == New(nextId, s, Clip)
    IN  /\ SendClientRequest(n, solvent)
        /\ om' = IF Sent(n, solvent)
                 THEN [om EXCEPT ![s] = [id |-> nextId, price |-> price, qty |-> Clip,
                                         state |-> "PENDING_NEW"]]
                 ELSE om
        /\ nextId' = IF Sent(n, solvent) THEN nextId + 1 ELSE nextId

CancelOrder(s, solvent) ==
    LET c == Cancel(om[s].id)
    IN  /\ SendClientRequest(c, solvent)
        /\ om' = IF Sent(c, solvent) THEN [om EXCEPT ![s].state = "PENDING_CANCEL"] ELSE om
        /\ UNCHANGED nextId

\* moveOrder: a live order at another price is cancelled, a dead one is replaced,
\* one that is in doubt is left alone.
MoveOrder(s, price, solvent) ==
    LET o == om[s]
    IN  \/ o.state = "LIVE" /\ o.price # price /\ CancelOrder(s, solvent)
        \/ o.state \in {"INVALID", "DEAD"} /\ price # NoPrice /\ NewOrder(s, price, solvent)
        \/ /\ \/ o.state \in {"PENDING_NEW", "PENDING_CANCEL"}
              \/ o.state = "LIVE" /\ o.price = price
              \/ o.state \in {"INVALID", "DEAD"} /\ price = NoPrice
           /\ UNCHANGED <<om, nextId, risk, requests>>

\* The prices a strategy asks for: a maker both sides, a taker one.
MakerQuotes == Prices \X Prices
TakerQuotes == (Prices \X {NoPrice}) \cup ({NoPrice} \X Prices)
Quotes == CASE algo = "MAKER" -> MakerQuotes
            [] algo = "TAKER" -> TakerQuotes
            [] OTHER -> {}

\* A market update reaches the strategy, which calls moveOrders: first the bid ...
MoveBid(bid, ask) ==
    /\ todo = Idle /\ ready
    /\ nextId <= MaxOrders
    /\ \E solvent \in BOOLEAN : MoveOrder("BUY", bid, solvent)
    /\ todo' = ask
    /\ UNCHANGED <<position, reconciled, lastId, gateVars, mainVars, exchangeVars, responses,
                   resends>>

\* ... then the ask.
MoveAsk ==
    /\ todo # Idle
    /\ \E solvent \in BOOLEAN : MoveOrder("SELL", todo, solvent)
    /\ todo' = Idle
    /\ UNCHANGED <<position, reconciled, lastId, gateVars, mainVars, exchangeVars, responses,
                   resends>>

DeadOnAnyFill(o, r) ==
    CASE r.type = "ACCEPTED" /\ o.state = "PENDING_NEW" -> [o EXCEPT !.state = "LIVE"]
      [] r.type \in {"FILLED", "CANCELED", "REJECTED"} -> [o EXCEPT !.qty = 0, !.state = "DEAD"]
      [] OTHER -> o

\* OrderManager::onOrderUpdate of the order whose id the response carries.
OrderUpdate(o, r) ==
    CASE r.type = "ACCEPTED" /\ o.state = "PENDING_NEW" -> [o EXCEPT !.state = "LIVE"]
      [] r.type = "FILLED" ->
           LET q == Min({o.qty, r.leaves})
           IN  [o EXCEPT !.qty = q, !.state = IF q = 0 THEN "DEAD" ELSE @]
      [] r.type \in {"CANCELED", "REJECTED"} -> [o EXCEPT !.qty = 0, !.state = "DEAD"]
      [] r.type = "CANCEL_REJECTED" /\ o.state = "PENDING_CANCEL" ->
           [o EXCEPT !.state = IF r.leaves > 0 THEN "LIVE" ELSE "DEAD"]
      [] OTHER -> o

\* TradeEngine::onOrderUpdate
OnOrderUpdate ==
    /\ todo = Idle
    /\ responses # <<>>
    /\ \/ responses' = Tail(responses) /\ UNCHANGED resends
       \/ resends < MaxResends /\ resends' = resends + 1 /\ UNCHANGED responses
    /\ LET r == Head(responses) IN
       \/ /\ r.rid <= lastId
          /\ UNCHANGED clientVars
       \/ /\ r.rid > lastId /\ ~Agrees(risk, r)
          /\ lastId' = r.rid
          /\ reconciled' = FALSE
          /\ UNCHANGED <<om, nextId, risk, position>>
       \/ /\ r.rid > lastId /\ Agrees(risk, r)
          /\ lastId' = r.rid
          /\ risk' = Release(risk, r)
          /\ position' = IF r.type = "FILLED" THEN position + SideValue(r.side) * r.exec
                         ELSE position
          /\ om' = [s \in Sides |-> IF om[s].id = r.id THEN OrderUpdate(om[s], r) ELSE om[s]]
          /\ UNCHANGED <<nextId, reconciled>>
    /\ UNCHANGED <<gateVars, mainVars, exchangeVars, todo, requests>>
-------------------------------------------------------------------------------
(* The main thread: the RANDOM generator, then quiesce().                    *)

RandomNew ==
    /\ algo = "RANDOM" /\ phase = "running"
    /\ nextId <= MaxOrders
    /\ \E s \in Sides, q \in Quantities, solvent \in BOOLEAN :
          LET n == New(nextId, s, q)
          IN  /\ SendClientRequest(n, solvent)
              /\ sent' = IF Sent(n, solvent) THEN sent \cup {nextId} ELSE sent
    /\ nextId' = nextId + 1
    /\ UNCHANGED <<om, position, reconciled, lastId, gateVars, phase, cancels, listed,
                   exchangeVars, todo, responses, resends>>

RandomCancel ==
    /\ algo = "RANDOM" /\ phase = "running"
    /\ issued + Len(requests) < MaxMessages
    /\ \E id \in sent : SendClientRequest(Cancel(id), TRUE)
    /\ UNCHANGED <<om, nextId, position, reconciled, lastId, gateVars, mainVars, exchangeVars,
                   todo, responses, resends>>

QuiesceClose ==
    /\ phase = "running"
    /\ phase' = "closing" /\ admitting' = FALSE
    /\ UNCHANGED <<clientVars, algo, ready, session, sent, cancels, listed, exchangeVars, todo,
                   requests, responses, resends>>

CollectNothing ==
    /\ phase = "closing"
    /\ phase' = "cancelling"
    /\ cancels' = {} /\ listed' = DOMAIN risk.reservations
    /\ UNCHANGED <<clientVars, gateVars, sent, exchangeVars, todo, requests, responses, resends>>

QuiesceCollect ==
    /\ phase = "closing"
    /\ phase' = "cancelling"
    /\ cancels' = DOMAIN risk.reservations /\ listed' = DOMAIN risk.reservations
    /\ UNCHANGED <<clientVars, gateVars, sent, exchangeVars, todo, requests, responses, resends>>

\* One iteration of the loop over the cancellations, retried while it fails.
QuiesceCancel ==
    /\ phase = "cancelling" /\ cancels # {}
    /\ LET c == Cancel(Min(cancels))
       IN  /\ SendClientRequest(c, TRUE)
           /\ cancels' = IF Sent(c, TRUE) THEN cancels \ {c.id} ELSE cancels
    /\ UNCHANGED <<om, nextId, position, reconciled, lastId, gateVars, sent, phase, listed,
                   exchangeVars, todo, responses, resends>>

QuiesceDone ==
    /\ phase = "cancelling" /\ cancels = {}
    /\ phase' = "done"
    /\ UNCHANGED <<clientVars, gateVars, sent, cancels, listed, exchangeVars, todo, requests,
                   responses, resends>>

\* The session is gone or the deadline has passed with cancellations unsent.
QuiesceGiveUp ==
    /\ phase = "cancelling" /\ cancels # {}
    /\ phase' = "unknown"
    /\ UNCHANGED <<clientVars, gateVars, sent, cancels, listed, exchangeVars, todo, requests,
                   responses, resends>>
-------------------------------------------------------------------------------
(* The surroundings: the exchange, the market data, the session.             *)

Response(type, r, exec, leaves) ==
    [type |-> type, rid |-> issued + 1, id |-> r.id, side |-> r.side, exec |-> exec,
     leaves |-> leaves]

Reply(type, r, exec, leaves) ==
    /\ responses' = Append(responses, Response(type, r, exec, leaves))
    /\ issued' = issued + 1

\* FIFOSequencer sorts what it holds by wall-clock receive times, so a clock
\* that steps back inverts two requests.
Arrival == IF Reorders THEN {i \in DOMAIN requests : i <= 2}
           ELSE {i \in DOMAIN requests : i = 1}

ExchangeRequest ==
    /\ \E i \in Arrival :
          LET r == requests[i] IN
          /\ requests' = SubSeq(requests, 1, i - 1) \o SubSeq(requests, i + 1, Len(requests))
          /\ reordered' = (reordered \/ i # 1)
          /\ \/ /\ r.type = "NEW"
                /\ book' = With(book, r.id, [side |-> r.side, qty |-> r.qty])
                /\ Reply("ACCEPTED", r, 0, r.qty)
             \/ /\ r.type = "NEW"
                /\ Reply("REJECTED", r, 0, 0)
                /\ UNCHANGED book
             \/ /\ r.type = "CANCEL" /\ r.id \in DOMAIN book
                /\ book' = Without(book, r.id)
                /\ Reply("CANCELED", r, 0, book[r.id].qty)
             \/ /\ r.type = "CANCEL" /\ r.id \notin DOMAIN book
                /\ Reply("CANCEL_REJECTED", r, 0, 0)
                /\ UNCHANGED book
    /\ UNCHANGED <<clientVars, gateVars, mainVars, todo, filled, resends>>

ExchangeFill ==
    /\ \E id \in DOMAIN book : \E q \in 1 .. book[id].qty :
          LET o == book[id] IN
          /\ book' = IF q = o.qty THEN Without(book, id) ELSE [book EXCEPT ![id].qty = @ - q]
          /\ filled' = filled + SideValue(o.side) * q
          /\ Reply("FILLED", [id |-> id, side |-> o.side], q, o.qty - q)
    /\ UNCHANGED <<clientVars, gateVars, mainVars, todo, requests, resends,
                   reordered>>

MarketChanges ==
    /\ ready' = ~ready
    /\ UNCHANGED <<clientVars, algo, admitting, session, mainVars, exchangeVars, todo, requests,
                   responses, resends>>

SessionLost ==
    /\ session /\ session' = FALSE
    /\ UNCHANGED <<clientVars, algo, admitting, ready, mainVars, exchangeVars, todo, requests,
                   responses, resends>>
-------------------------------------------------------------------------------
Init ==
    /\ om = [s \in Sides |-> [id |-> 0, price |-> NoPrice, qty |-> 0, state |-> "INVALID"]]
    /\ nextId = 1
    /\ risk = [reservations |-> <<>>, pending |-> [s \in Sides |-> 0]]
    /\ position = 0 /\ reconciled = TRUE /\ lastId = 0
    /\ algo \in Algos /\ admitting = TRUE /\ ready = FALSE /\ session = TRUE
    /\ todo = Idle
    /\ sent = {} /\ phase = "running" /\ cancels = {} /\ listed = {}
    /\ requests = <<>> /\ responses = <<>> /\ resends = 0
    /\ book = <<>> /\ filled = 0 /\ issued = 0 /\ reordered = FALSE

Quiesce == QuiesceClose \/ QuiesceCollect \/ QuiesceCancel \/ QuiesceDone \/ QuiesceGiveUp

Next == \/ \E quote \in Quotes : MoveBid(quote[1], quote[2])
        \/ MoveAsk \/ OnOrderUpdate
        \/ RandomNew \/ RandomCancel \/ Quiesce
        \/ ExchangeRequest \/ ExchangeFill \/ MarketChanges \/ SessionLost

Spec == Init /\ [][Next]_vars

\* Threads keep running and the exchange keeps answering; nobody has to stop
\* the client, and nothing has to trade.
FairSpec ==
    /\ Spec
    /\ WF_vars(MoveAsk) /\ WF_vars(OnOrderUpdate) /\ WF_vars(ExchangeRequest)
    /\ WF_vars(QuiesceCollect \/ QuiesceCancel \/ QuiesceDone) /\ WF_vars(QuiesceGiveUp)
-------------------------------------------------------------------------------
Live == {"PENDING_NEW", "LIVE", "PENDING_CANCEL"}

\* Every variable has its type.
TypeOK ==
    /\ om \in [Sides -> [id : 0 .. nextId - 1, price : Prices \cup {NoPrice}, qty : Nat,
                         state : Live \cup {"INVALID", "DEAD"}]]
    /\ nextId \in Nat \ {0}
    /\ risk.pending \in [Sides -> Nat]
    /\ \A id \in DOMAIN risk.reservations :
          id \in 1 .. nextId - 1 /\ risk.reservations[id] \in [side : Sides, qty : Nat \ {0}]
    /\ position \in Int /\ filled \in Int
    /\ reconciled \in BOOLEAN /\ admitting \in BOOLEAN /\ ready \in BOOLEAN
    /\ session \in BOOLEAN /\ reordered \in BOOLEAN /\ algo \in Algos
    /\ lastId \in 0 .. issued
    /\ todo \in Prices \cup {NoPrice, Idle}
    /\ phase \in {"running", "closing", "cancelling", "unknown", "done"}
    /\ cancels \subseteq listed /\ sent \subseteq 1 .. nextId - 1
    /\ Len(requests) <= RequestCapacity

Total(f, s) == SumFunction([x \in {y \in DOMAIN f : f[y].side = s} |-> f[x].qty])

\* What new orders of a side in flight ask for; no two of them are alike, since
\* each has an id of its own.
NewOrders(s) == {r \in Range(requests) : r.type = "NEW" /\ r.side = s}
Coming(s) == SumFunction([r \in NewOrders(s) |-> r.qty])

\* Filling all pending orders of one side would keep the position within limits.
WithinLimits ==
    /\ position + risk.pending["BUY"] <= MaxPosition
    /\ position - risk.pending["SELL"] >= -MaxPosition

\* pending_buy_ and pending_sell_ are the sums of the reservations.
PendingIsSum == \A s \in Sides : risk.pending[s] = Total(risk.reservations, s)

\* The real exposure: whatever of the client's orders the exchange still fills,
\* those in flight to it included and whatever fills the client has yet to hear
\* of, the true position stays within max_position_.
TrueExposure ==
    /\ filled + Total(book, "BUY") + Coming("BUY") <= MaxPosition
    /\ filled - Total(book, "SELL") - Coming("SELL") >= -MaxPosition

\* Against a correct exchange, no interleaving of fills, cancels and repeated
\* responses makes the client think that it has lost track.
NeverUnreconciled == reconciled

\* OrderManager never forgets an order that can still trade: each reservation
\* belongs to the order of its side, in a state and with a quantity that agree.
NoOrphans ==
    algo # "RANDOM" =>
      /\ \A id \in DOMAIN risk.reservations :
            LET v == risk.reservations[id] IN
            om[v.side].id = id /\ om[v.side].state \in Live /\ om[v.side].qty = v.qty
      /\ \A s \in Sides : om[s].state \in Live => om[s].id \in DOMAIN risk.reservations

\* Once quiesce() has collected its cancellations, no order can still trade
\* that is not among them.
QuiesceCoversAll ==
    phase \in {"cancelling", "done", "unknown"} => DOMAIN risk.reservations \subseteq listed

\* quiesce() leaves no order behind, unless it says so.  (A cancel taken before
\* its order is refused, and quiesce() does not send it again.)
Flattens ==
    (phase = "cancelling") ~>
        (risk.reservations = <<>> \/ ~session \/ phase = "unknown" \/ reordered)

\* The comment on moveOrders: an order whose price or quantity does not match
\* what is asked for is cancelled first (when the request can be sent at all).
MismatchCancels ==
    [][\A quote \in Quotes :
          (/\ om["BUY"].state = "LIVE" /\ session /\ reconciled
           /\ Len(requests) < RequestCapacity
           /\ om["BUY"].price # quote[1] \/ om["BUY"].qty # Clip
           /\ MoveBid(quote[1], quote[2]))
            => om'["BUY"].state = "PENDING_CANCEL"]_vars
===============================================================================
