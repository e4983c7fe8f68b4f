--------------------------- MODULE MC_MatchingEngine ---------------------------
(* Model values for the order book of one ticker, and the insertion of a price *)
(* level into rings longer than those the run reaches.                         *)
EXTENDS MatchingEngine, TLC

ClientSymmetry == Permutations(Clients)

\* AddOrdersAtPrice sorts a new price into every sorted ring of up to four prices:
\* at both ends and in every place between.
ASSUME AddOrdersAtPriceSorts ==
    \A side \in Sides, ps \in SUBSET (1 .. 5) : \A p \in ps :
        LET sorted(S) == SetToSortSeq(S, LAMBDA x, y : Better(side, x, y))
        IN  AddOrdersAtPrice(side, sorted(ps \ {p}), p) = sorted(ps)
================================================================================
