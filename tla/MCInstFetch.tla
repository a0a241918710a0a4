---------------------------- MODULE MCInstFetch ----------------------------
(***************************************************************************)
(* InstFetch on small instances.  Ways, tags and sets are interchangeable: *)
(* no order among them is left in the model.                               *)
(***************************************************************************)
EXTENDS InstFetch, TLC

Symmetry == Permutations(Ways) \cup Permutations(Tags) \cup Permutations(Indexes)
=============================================================================
