----------------------------- MODULE MC_LocalBook -----------------------------
(* An instance of LocalBook in which both pools run out. *)
EXTENDS LocalBook
===============================================================================
