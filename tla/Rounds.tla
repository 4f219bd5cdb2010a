------------------------------- MODULE Rounds --------------------------------
(***************************************************************************)
(* Reconstruction of rounds from a game record (Rounds, newRound and       *)
(* applyToRound in internal/extract/extract.go, boardState in board.go).   *)
(*                                                                         *)
(* The record does not say what a player held when discarding; the replay  *)
(* rebuilds it from the deal, the draws, the discards and the calls.  The  *)
(* model plays the game at a table whose hands are known, writes each      *)
(* action into the record, and replays the record beside it, action by     *)
(* action as the code does; some actions may fail to decode.  A hand is a  *)
(* bag: the number of tiles of each code (the code keeps a slice and only  *)
(* looks tiles up in it).  The table is external: which moves it makes is  *)
(* restricted only as far as the replay can tell.                          *)
(***************************************************************************)
EXTENDS Integers, Sequences, FiniteSets

CONSTANTS
    Players,        \* seats are 0..Players-1; seat 0 deals
    Tiles,          \* tile codes; a red five has a code of its own
    Kinds,          \* what makes four of a kind
    KindOf,         \* the kind of each code
    Copies,         \* how many tiles of each code the set has
    Deals,          \* the hands that may be dealt
    HandSize,       \* tiles dealt to a seat (13); the dealer has one more
    None,           \* no tile, no seat, no riichi, no round
    StartScore,     \* points of each seat when a round begins, in riichi sticks
    MaxLost,        \* bound: actions of one record that do not decode
    MaxActions      \* bound: actions of one record

Seats == 0..(Players - 1)
Bags == [Tiles -> 0..4]

(* The tiles of a bag are told apart by their number among their code       *)
Size(bag) == Cardinality({c \in (DOMAIN bag) \X (1..4) : c[2] <= bag[c[1]]})
Dealt(deal, t) == Size([s \in Seats |-> deal[s][t]])

ASSUME TableAssumption ==
    /\ Players \in Nat /\ Players >= 2
    /\ IsFiniteSet(Tiles)
    /\ KindOf \in [Tiles -> Kinds] /\ Copies \in Bags
    /\ \A t, u, v \in Tiles : KindOf[t] = KindOf[u] /\ KindOf[u] = KindOf[v] =>
            t = u \/ t = v \/ u = v
    /\ \A t, u \in Tiles : t # u /\ KindOf[t] = KindOf[u] => Copies[t] + Copies[u] <= 4
    /\ HandSize \in Nat /\ StartScore \in Nat
    /\ MaxLost \in Nat /\ MaxActions \in Nat
    /\ Deals \subseteq [Seats -> Bags]
    /\ \A deal \in Deals, s \in Seats :
            Size(deal[s]) = IF s = 0 THEN HandSize + 1 ELSE HandSize
    /\ \A deal \in Deals, t \in Tiles : Dealt(deal, t) <= Copies[t]
    /\ None \notin Tiles \cup Seats \cup [seat : Seats, score : Int, sticks : Int]

VARIABLES
    table,      \* the true round: hands, last draws, and the board everybody sees
    wall,       \* the tiles not drawn yet
    turn,       \* whose turn it is
    step,       \* what the table waits for: see Steps
    declared,   \* the seat whose riichi is not accepted yet
    played,     \* history: the true rounds, the current one last
    length,     \* actions in the record
    lost,       \* history: those that do not decode
    mixed,      \* history: the closed kans of a kind in two codes
    round,      \* Rounds: the round being replayed, with its seats and board
    rounds,     \* game.Rounds
    issues      \* game.Issues: the actions they name

vars == <<table, wall, turn, step, declared, played, length, lost, mixed, round, rounds, issues>>
tableVars == <<table, wall, turn, step, declared, played>>

(* a new round; a move after a draw; a discard after a pon; somebody's claim*)
(* to a discard, or the next draw; the draw after a kan; nothing any more   *)
Steps == {"deal", "act", "discard", "claim", "replace", "end"}

NoRound == [first |-> None]

(* The board at the beginning of a round                                    *)
NewBoard(left) ==
    [scores |-> [s \in Seats |-> StartScore], sticks |-> 0, left |-> left,
     riichi |-> [s \in Seats |-> FALSE], rivers |-> [s \in Seats |-> << >>],
     melds |-> [s \in Seats |-> << >>]]

NewState(deal, left) ==
    [hand |-> deal, last |-> [s \in Seats |-> None], board |-> NewBoard(left)]

(* A discard decision, with the hand and the board right before it          *)
Decision(state, at, seat, turnNo, tile, riichi) ==
    [at |-> at, seat |-> seat, turn |-> turnNo, hand |-> state.hand[seat],
     draw |-> state.last[seat], tile |-> tile, riichi |-> riichi, board |-> state.board]

TurnNo(decisions, seat) == 1 + Cardinality({i \in DOMAIN decisions : decisions[i].seat = seat})

Put(hand, tile) == [hand EXCEPT ![tile] = @ + 1]
RemoveTile(hand, tile, n) == [hand EXCEPT ![tile] = @ - n]

-----------------------------------------------------------------------------
(***************************************************************************)
(* The replay: what each action does to the round (applyToRound).          *)
(***************************************************************************)
Issue(r, a) == [r EXCEPT !.issues = @ \cup {a.at}]

(* LiQiSuccess: the declarer's points and the sticks after the deposit      *)
NoteLiqiSuccess(board, a) ==
    IF a.liqi = None THEN board
    ELSE [board EXCEPT !.scores[a.liqi.seat] = a.liqi.score, !.sticks = a.liqi.sticks]

AfterDeal(r, a) ==
    [r EXCEPT !.state.hand[a.seat] = Put(@, a.tile),
              !.state.last[a.seat] = a.tile,
              !.state.board = NoteLiqiSuccess([@ EXCEPT !.left = a.left], a)]

\* mutant: the discard is not looked up in the hand
NeverMissing(r, a) == FALSE
Missing(r, a) == r.state.hand[a.seat][a.tile] = 0

AfterDiscard(r, a) ==
    IF Missing(r, a) THEN Issue(r, a)
    ELSE [r EXCEPT
            !.decisions = Append(@, Decision(r.state, a.at, a.seat,
                                             TurnNo(r.decisions, a.seat), a.tile, a.riichi)),
            !.state.hand[a.seat] = RemoveTile(@, a.tile, 1),
            !.state.last[a.seat] = None,
            !.state.board.rivers[a.seat] = Append(@, a.tile),
            !.state.board.riichi[a.seat] = @ \/ a.riichi]

(* A call takes its own tiles one after the other; one that is missing ends *)
(* it, and the ones before are gone.                                        *)
Holds(hand, own, n) == \A t \in Tiles : Cardinality({i \in 1..n : own[i] = t}) <= hand[t]
Without(hand, own, n) ==
    [t \in Tiles |-> hand[t] - Cardinality({i \in 1..n : own[i] = t})]

AfterCall(r, a) ==
    LET found == CHOOSE n \in 0..Len(a.own) :
                    /\ Holds(r.state.hand[a.seat], a.own, n)
                    /\ n < Len(a.own) => ~Holds(r.state.hand[a.seat], a.own, n + 1)
        taken == [r EXCEPT !.state.hand[a.seat] = Without(@, a.own, found)]
    IN IF found < Len(a.own) THEN Issue(taken, a)
       ELSE [taken EXCEPT !.state.last[a.seat] = None,
                          !.state.board.melds[a.seat] = Append(@, Append(a.own, a.tile))]

(* Four copies in the hand make a closed kan, one an added kan              *)
KanSize(copies) == IF copies >= 4 THEN 4 ELSE 1

AfterKan(r, a) ==
    LET copies == r.state.hand[a.seat][a.tile] IN
    IF copies < 4 /\ copies # 1 THEN Issue(r, a)
    ELSE [r EXCEPT
            !.state.hand[a.seat] = RemoveTile(@, a.tile, KanSize(copies)),
            !.state.board.melds[a.seat] = Append(@, [i \in 1..KanSize(copies) |-> a.tile])]

Applied(r, a) ==
    CASE a.name = "DealTile" -> AfterDeal(r, a)
      [] a.name = "DiscardTile" -> AfterDiscard(r, a)
      [] a.name = "ChiPengGang" -> AfterCall(r, a)
      [] a.name = "AnGangAddGang" -> AfterKan(r, a)

InRound == {"DealTile", "DiscardTile", "ChiPengGang", "AnGangAddGang"}
Ends == {"Hule", "NoTile", "LiuJu"}

(* old_scores must be the tracked balance right before the win              *)
CheckScores(r, a) ==
    IF a.name = "Hule" /\ r.state.board.scores # a.oldScores THEN Issue(r, a) ELSE r

Finish(r, status) ==
    IF r = NoRound THEN rounds ELSE Append(rounds, [r EXCEPT !.status = status])

Closed == NoRound

\* mutant: the board of the round before is carried on
CarryBoard(a) ==
    IF round = NoRound THEN NewState(a.deal, a.left)
    ELSE [NewState(a.deal, a.left) EXCEPT !.board = round.state.board]
FreshState(a) == NewState(a.deal, a.left)

NewRound(a) ==
    /\ a.name = "NewRound"
    /\ rounds' = Finish(round, "interrupted_by_new_round")
    /\ round' = [first |-> a.at, state |-> FreshState(a), decisions |-> << >>,
                 issues |-> {}, status |-> "open"]
    /\ UNCHANGED issues

ApplyToRound(a) ==
    /\ a.name \in InRound
    /\ round # NoRound
    /\ round' = Applied(round, a)
    /\ UNCHANGED <<rounds, issues>>

OutsideRound(a) ==
    /\ a.name \in InRound
    /\ round = NoRound
    /\ issues' = issues \cup {a.at}
    /\ UNCHANGED <<round, rounds>>

FinishRound(a) ==
    /\ a.name \in Ends
    /\ rounds' = IF round = NoRound THEN rounds ELSE Finish(CheckScores(round, a), a.name)
    /\ round' = Closed
    /\ UNCHANGED issues

NotDecodable(a) ==
    /\ Cardinality(lost) < MaxLost
    /\ lost' = lost \cup {a.at}
    /\ issues' = issues \cup {a.at}
    /\ UNCHANGED <<round, rounds>>

(* One iteration of the loop over the actions                               *)
Replay(a) ==
    /\ length < MaxActions
    /\ length' = length + 1
    /\ \/ NotDecodable(a)
       \/ /\ NewRound(a) \/ ApplyToRound(a) \/ OutsideRound(a) \/ FinishRound(a)
          /\ UNCHANGED lost

-----------------------------------------------------------------------------
(***************************************************************************)
(* The table.                                                              *)
(***************************************************************************)
Last == Len(played)

DealHands == \E deal \in Deals :
    LET left == [t \in Tiles |-> Copies[t] - Dealt(deal, t)] IN
    /\ step = "deal"
    /\ wall' = left
    /\ table' = NewState(deal, Size(left))
    /\ turn' = 0 /\ step' = "act" /\ declared' = None
    /\ played' = Append(played, [first |-> length, decisions |-> << >>, status |-> "truncated"])
    /\ UNCHANGED mixed
    /\ Replay([name |-> "NewRound", at |-> length, deal |-> deal, left |-> Size(left)])

(* The next seat draws, or the caller of a kan draws its replacement; a     *)
(* riichi nobody won on is accepted.                                        *)
Draw(t) ==
    LET seat == IF step = "claim" THEN (turn + 1) % Players ELSE turn
        left == table.board.left - 1
        accepted == IF declared = None THEN None
                    ELSE [seat |-> declared, score |-> table.board.scores[declared] - 1,
                          sticks |-> table.board.sticks + 1]
        sticks == IF declared = None THEN table.board.sticks ELSE table.board.sticks + 1
        scores == IF declared = None THEN table.board.scores
                  ELSE [table.board.scores EXCEPT ![declared] = @ - 1]
    IN
    /\ step \in {"claim", "replace"}
    /\ wall[t] > 0
    /\ wall' = [wall EXCEPT ![t] = @ - 1]
    /\ table' = [table EXCEPT
                   !.hand[seat][t] = @ + 1, !.last[seat] = t, !.board.left = left,
                   !.board.sticks = sticks, !.board.scores = scores]
    /\ turn' = seat /\ step' = "act" /\ declared' = None
    /\ UNCHANGED <<played, mixed>>
    /\ Replay([name |-> "DealTile", at |-> length, seat |-> seat, tile |-> t, left |-> left,
               liqi |-> accepted])

(* A seat in riichi discards what it draws                                  *)
Discard(t) == \E riichi \in BOOLEAN :
    /\ step \in {"act", "discard"}
    /\ table.hand[turn][t] > 0
    /\ table.board.riichi[turn] => t = table.last[turn]
    /\ riichi => /\ ~table.board.riichi[turn]
                 /\ table.board.melds[turn] = << >> /\ table.board.scores[turn] > 0
    /\ table' = [table EXCEPT
                   !.hand[turn][t] = @ - 1, !.last[turn] = None,
                   !.board.rivers[turn] = Append(@, t), !.board.riichi[turn] = @ \/ riichi]
    /\ declared' = IF riichi THEN turn ELSE declared
    /\ step' = "claim"
    /\ played' = [played EXCEPT ![Last].decisions =
                    Append(@, Decision(table, length, turn, TurnNo(@, turn), t, riichi))]
    /\ UNCHANGED <<wall, turn, mixed>>
    /\ Replay([name |-> "DiscardTile", at |-> length, seat |-> turn, tile |-> t, riichi |-> riichi])

(* Two own tiles of the discarded one's kind make a pon, three an open kan  *)
Call(seat, n) == \E own \in [1..n -> Tiles] :
    LET tile == table.board.rivers[turn][Len(table.board.rivers[turn])] IN
    /\ step = "claim" /\ seat # turn
    /\ ~table.board.riichi[seat]
    /\ \A i \in 1..n : KindOf[own[i]] = KindOf[tile]
    /\ \A t \in Tiles : Cardinality({i \in 1..n : own[i] = t}) <= table.hand[seat][t]
    /\ table' = [table EXCEPT
                   !.hand[seat] = [t \in Tiles |-> @[t] - Cardinality({i \in 1..n : own[i] = t})],
                   !.last[seat] = None,
                   !.board.melds[seat] = Append(@, Append(own, tile))]
    /\ turn' = seat /\ step' = IF n = 2 THEN "discard" ELSE "replace"
    /\ UNCHANGED <<wall, declared, played, mixed>>
    /\ Replay([name |-> "ChiPengGang", at |-> length, seat |-> seat, own |-> own, tile |-> tile])

OfKind(k, s) == {t \in Tiles : KindOf[t] = k /\ table.hand[s][t] > 0}

(* A closed kan uses the four tiles of a kind, whatever code names them     *)
ClosedKan(k) == \E named \in OfKind(k, turn) :
    /\ step = "act"
    /\ Size([t \in OfKind(k, turn) |-> table.hand[turn][t]]) = 4
    /\ table' = [table EXCEPT
                   !.hand[turn] = [t \in Tiles |-> IF KindOf[t] = k THEN 0 ELSE @[t]],
                   !.board.melds[turn] = Append(@, [i \in 1..4 |-> named])]
    /\ step' = "replace"
    /\ mixed' = IF OfKind(k, turn) = {named} THEN mixed ELSE mixed \cup {length}
    /\ UNCHANGED <<wall, turn, declared, played>>
    /\ Replay([name |-> "AnGangAddGang", at |-> length, seat |-> turn, tile |-> named])

(* An added kan puts the fourth tile on a pon                               *)
AddedKan(t) ==
    /\ step = "act"
    /\ table.hand[turn][t] > 0
    /\ \E i \in DOMAIN table.board.melds[turn] :
            /\ Len(table.board.melds[turn][i]) = 3
            /\ KindOf[table.board.melds[turn][i][1]] = KindOf[t]
    /\ table' = [table EXCEPT !.hand[turn][t] = @ - 1,
                              !.board.melds[turn] = Append(@, <<t>>)]
    /\ step' = "replace"
    /\ UNCHANGED <<wall, turn, declared, played, mixed>>
    /\ Replay([name |-> "AnGangAddGang", at |-> length, seat |-> turn, tile |-> t])

RoundOver(name) ==
    /\ step \in Steps \ {"deal", "end"}
    /\ name = "NoTile" => step = "claim" /\ Size(wall) = 0
    /\ name = "LiuJu" => step = "act"
    /\ step' = "deal"
    /\ played' = [played EXCEPT ![Last].status = name]
    /\ UNCHANGED <<table, wall, turn, declared, mixed>>
    /\ Replay([name |-> name, at |-> length, oldScores |-> table.board.scores])

(* The record ends; what was open is finished as truncated                  *)
EndRecord ==
    /\ step # "end"
    /\ step' = "end"
    /\ rounds' = Finish(round, "truncated")
    /\ round' = NoRound
    /\ UNCHANGED <<table, wall, turn, declared, played, length, lost, mixed, issues>>

Ended == step = "end" /\ UNCHANGED vars

Init ==
    /\ table = NewState([s \in Seats |-> [t \in Tiles |-> 0]], 0)
    /\ wall = [t \in Tiles |-> 0]
    /\ turn = 0 /\ step = "deal" /\ declared = None
    /\ played = << >>
    /\ length = 0 /\ lost = {} /\ mixed = {}
    /\ round = NoRound /\ rounds = << >> /\ issues = {}

Next ==
    \/ DealHands
    \/ \E t \in Tiles : Draw(t) \/ Discard(t) \/ AddedKan(t)
    \/ \E s \in Seats, n \in {2, 3} : Call(s, n)
    \/ \E k \in Kinds : ClosedKan(k)
    \/ \E name \in Ends : RoundOver(name)
    \/ EndRecord
    \/ Ended

Spec == Init /\ [][Next]_vars

-----------------------------------------------------------------------------
(***************************************************************************)
(* Properties                                                              *)
(***************************************************************************)
TypeOK ==
    /\ \A s \in Seats, t \in Tiles : table.hand[s][t] \in 0..Copies[t] /\ wall[t] \in 0..Copies[t]
    /\ turn \in Seats
    /\ step \in Steps
    /\ declared \in Seats \cup {None}
    /\ length \in 0..MaxActions
    /\ lost \subseteq 0..(length - 1) /\ mixed \subseteq 0..(length - 1)
    /\ issues \subseteq 0..(length - 1)
    /\ round # NoRound => /\ round.state.hand \in [Seats -> [Tiles -> Nat]]
                          /\ round.state.last \in [Seats -> Tiles \cup {None}]
                          /\ round.issues \subseteq 0..(length - 1)

(* The actions of the i-th true round                                       *)
ActionsOf(i) == played[i].first..(IF i < Last THEN played[i + 1].first - 1 ELSE length - 1)

(* A round all of whose actions decode is reconstructed exactly: every      *)
(* decision with the hand, the draw and the board the player really had,    *)
(* the right end, and no issue, whatever was lost of the rounds around it   *)
(* (extract.go:99-101); except after a closed kan with a red five, which    *)
(* the replay does not follow (the run rounds_kan).                         *)
UnspoiledRounds == step = "end" => \A i \in 1..Last :
    ActionsOf(i) \cap (lost \cup mixed) = {} =>
        \E j \in DOMAIN rounds : /\ rounds[j].first = played[i].first
                                 /\ rounds[j].decisions = played[i].decisions
                                 /\ rounds[j].status = played[i].status
                                 /\ rounds[j].issues = {}

(* A kan leaves no tile of its kind in the hand (extract.go:367-369: a     *)
(* closed kan must remove four copies).                                     *)
ClosedKanRemovesFour == (round # NoRound /\ lost = {}) => \A s \in Seats :
    \A i \in DOMAIN table.board.melds[s] :
        LET meld == table.board.melds[s][i] IN
        Len(meld) = 4 => \A t \in Tiles :
            KindOf[t] = KindOf[meld[1]] => round.state.hand[s][t] = 0
=============================================================================
