------------------------------ MODULE MCRounds -------------------------------
(* A table of two seats and hands of three tiles.  The deals make a closed  *)
(* kan, a pon that grows into an added kan, and an open kan possible within *)
(* a few draws, of tiles of which tc is the red one of the kind tb.         *)
EXTENDS Rounds

CONSTANTS ta, tb, tc

Hand(a, b, c) == [t \in Tiles |-> CASE t = ta -> a [] t = tb -> b [] t = tc -> c]
MCKindOf == [t \in Tiles |-> IF t = tc THEN tb ELSE t]
MCCopies == Hand(4, 3, 1)
MCDeals == {<<Hand(4, 0, 0), Hand(0, 2, 1)>>, <<Hand(1, 2, 1), Hand(2, 1, 0)>>,
            <<Hand(3, 1, 0), Hand(0, 2, 1)>>}
AsDeal(pair) == [s \in Seats |-> pair[s + 1]]
MCSeatDeals == {AsDeal(pair) : pair \in MCDeals}

(* With red fives: tc is the red one of the kind ta                       *)
RedKindOf == [t \in Tiles |-> IF t = tc THEN ta ELSE t]
RedCopies == Hand(3, 4, 1)
RedDeals == {AsDeal(<<Hand(3, 0, 1), Hand(0, 3, 0)>>)}
=============================================================================
