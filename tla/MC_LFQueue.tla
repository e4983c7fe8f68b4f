------------------------------ MODULE MC_LFQueue ------------------------------
(* LFQueue on a ring of Capacity slots, with single pushes and batches up to *)
(* the capacity, so that the cursors wrap several times.                     *)
EXTENDS LFQueue

MCBatches == UNION {[1 .. n -> Values] : n \in 1 .. Capacity}
===============================================================================
