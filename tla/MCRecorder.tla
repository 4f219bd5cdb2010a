----------------------------- MODULE MCRecorder ------------------------------
(* A handful of appends, enough for a failed one between two acknowledged   *)
(* ones and for a torn line to be continued twice; and two connections over *)
(* two numbers and two request names.                                       *)
EXTENDS Recorder, TLC
Symmetry == Permutations(Conns) \cup Permutations(Numbers) \cup Permutations(Methods)
=============================================================================
