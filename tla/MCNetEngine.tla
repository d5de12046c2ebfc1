------------------------------ MODULE MCNetEngine ------------------------------
(* NetEngine on interchangeable network documents. *)
EXTENDS NetEngine, TLC

Symmetry == Permutations(Nets)
================================================================================
