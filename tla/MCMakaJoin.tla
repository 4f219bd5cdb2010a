----------------------------- MODULE MCMakaJoin -----------------------------
(* Two seats, so that every discard asks one other seat; records long       *)
(* enough for a second round with a decision of its own.                    *)
EXTENDS MakaJoin
=============================================================================
