----------------------------- MODULE MCJournal ------------------------------
(* The journal alone: the fewest appends that number two records alike.     *)
EXTENDS Journal
=============================================================================
