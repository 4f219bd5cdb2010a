------------------------------ MODULE MCNames -------------------------------
(* The names alone, with a client that gives one number to two requests.    *)
EXTENDS Names, TLC
Symmetry == Permutations(Conns) \cup Permutations(Numbers) \cup Permutations(Methods)
=============================================================================
