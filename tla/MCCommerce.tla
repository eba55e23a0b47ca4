----------------------------- MODULE MCCommerce -----------------------------
(* Commerce for TLC: carts, quotes and keys are interchangeable.           *)
EXTENDS Commerce, TLC

Symmetry == Permutations(Carts) \cup Permutations(Quotes) \cup Permutations(Keys)
=============================================================================
