--------------------------- MODULE MC_OrderSession ---------------------------
(* Instances of OrderSession. *)
EXTENDS OrderSession

\* What the second connection may send: a query and an ill-formed one with the
\* client's first number, and its second order.
Frame(t, e, n) == [type |-> t, epoch |-> e, seq |-> n]
MCPeerFrames == {Frame("QUERY", 1, 1), Frame("BADQUERY", 1, 1), Frame("NEW", 1, 2)}
=============================================================================
