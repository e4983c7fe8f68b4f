----------------------------- MODULE PriceTimeBook -----------------------------
(***************************************************************************)
(* What a local order book promises: a queue of orders at each side and    *)
(* price in the order of their arrival, and a quote that is the best price *)
(* of each side with the whole quantity there.                             *)
(***************************************************************************)
EXTENDS Integers, Sequences, FiniteSets, SequencesExt

CONSTANTS Ids, Sides, Prices, Qtys, NoPrice, NoQty

VARIABLE queue   \* the orders at a side and price, oldest first

Places == Sides \X Prices
Resting(q) == UNION {{q[k][i].id : i \in DOMAIN q[k]} : k \in Places}

BestPrice(q, side) ==
    LET offered == {p \in Prices : q[<<side, p>>] # <<>>}
    IN  IF offered = {} THEN NoPrice
        ELSE CHOOSE p \in offered : \A o \in offered : IF side = "BUY" THEN o <= p ELSE o >= p

Quantity(q, side) ==
    IF BestPrice(q, side) = NoPrice THEN NoQty
    ELSE FoldLeft(LAMBDA sum, o : sum + o.qty, 0, q[<<side, BestPrice(q, side)>>])

Quote(q) == [price |-> [s \in Sides |-> BestPrice(q, s)],
             qty |-> [s \in Sides |-> Quantity(q, s)]]

Init == queue = [k \in Places |-> <<>>]

Add(k, id, qty) ==
    /\ id \notin Resting(queue)
    /\ queue' = [queue EXCEPT ![k] = Append(@, [id |-> id, qty |-> qty])]

\* The places of the order id.
At(id) == {<<k, i>> \in Places \X (1 .. Cardinality(Ids)) :
              i \in DOMAIN queue[k] /\ queue[k][i].id = id}

Modify(id, qty) ==
    \E at \in At(id) : queue' = [queue EXCEPT ![at[1]][at[2]].qty = qty]

Cancel(id) ==
    \E at \in At(id) : queue' = [queue EXCEPT ![at[1]] = RemoveAt(@, at[2])]

Clear == queue' = [k \in Places |-> <<>>]

Next ==
    \/ \E k \in Places, id \in Ids, qty \in Qtys : Add(k, id, qty)
    \/ \E id \in Ids : Cancel(id) \/ \E qty \in Qtys : Modify(id, qty)
    \/ Clear

Spec == Init /\ [][Next]_queue
================================================================================
