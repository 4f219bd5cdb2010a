----------------------------- MODULE RoundsProofs -----------------------------
(***************************************************************************)
(* Proofs about Rounds, for any number of seats, any set of tiles, any     *)
(* deals and any actions lost: a round whose own actions decode, and in    *)
(* which no closed kan uses a red five, is rebuilt exactly.                *)
(***************************************************************************)
EXTENDS Rounds, FiniteSetTheorems, WellFoundedInduction, TLAPS

Counted(own, n, t) == Cardinality({i \in 1..n : own[i] = t})
Spoils == lost \cup mixed
MixedStep == mixed \subseteq mixed' /\ mixed' \subseteq mixed \cup {length}

Hands == [Seats -> [Tiles -> Nat]]
BoardType == [scores : [Seats -> Int], sticks : Int, left : Int, riichi : [Seats -> BOOLEAN],
              rivers : [Seats -> Seq(Tiles)], melds : [Seats -> Seq(Seq(Tiles))]]
StateType == [hand : Hands, last : [Seats -> Tiles \cup {None}], board : BoardType]
DecisionType == [at : Nat, seat : Seats, turn : Nat, hand : [Tiles -> Nat],
                 draw : Tiles \cup {None}, tile : Tiles, riichi : BOOLEAN, board : BoardType]
Endings == {"open", "truncated", "interrupted_by_new_round", "Hule", "NoTile", "LiuJu"}
RoundType == [first : Nat, state : StateType, decisions : Seq(DecisionType), issues : SUBSET Nat,
              status : Endings]
PlayedType == [first : Nat, decisions : Seq(DecisionType), status : Endings]

TableTyped ==
    /\ table \in StateType /\ wall \in [Tiles -> Nat]
    /\ turn \in Seats /\ step \in Steps /\ declared \in Seats \cup {None}
    /\ played \in Seq(PlayedType)
    /\ step \notin {"deal", "end"} => Last > 0
    /\ step = "claim" => table.board.rivers[turn] # << >>

ReplayTyped ==
    /\ length \in Nat /\ length <= MaxActions
    /\ lost \subseteq 0..(length - 1) /\ issues \subseteq 0..(length - 1)
    /\ mixed \subseteq 0..(length - 1)
    /\ round # NoRound => round \in RoundType /\ round.issues \subseteq 0..(length - 1)
    /\ rounds \in Seq(RoundType)

Begun == \A i \in 1..Last : played[i].first < length

(* A tile is in one hand, or in the wall.                                   *)
TilesKept == \A t \in Tiles, s, u \in Seats :
    /\ table.hand[s][t] + wall[t] <= Copies[t]
    /\ s # u => table.hand[s][t] + table.hand[u][t] + wall[t] <= Copies[t]

(* The tile that may be called is in no other hand, and those of a pon are  *)
(* in none.                                                                 *)
River(s) == table.board.rivers[s]
DiscardSeen == step = "claim" =>
    LET t == River(turn)[Len(River(turn))] IN
    \A s \in Seats \ {turn} : table.hand[s][t] + wall[t] <= Copies[t] - 1
PonOf(meld, hand, rest) ==
    /\ \A i \in 1..3 : meld[i] \in Tiles /\ KindOf[meld[i]] = KindOf[meld[1]]
    /\ \A u \in Tiles : hand[u] + rest[u] + Counted(meld, 3, u) <= Copies[u]
PonsSeen == \A s \in Seats : \A i \in DOMAIN table.board.melds[s] :
    LET meld == table.board.melds[s][i] IN Len(meld) = 3 => PonOf(meld, table.hand[s], wall)

(* While nothing of a round is lost the replay is where the table is.       *)
Unspoiled == played[Last].first..(length - 1) \cap Spoils = {}
Follows == step \notin {"deal", "end"} /\ Unspoiled =>
    /\ round # NoRound
    /\ round.first = played[Last].first /\ round.state = table
    /\ round.decisions = played[Last].decisions
    /\ round.issues = {} /\ round.status = "open"
    /\ played[Last].status = "truncated"

Rebuilt(i) == \E j \in DOMAIN rounds :
    /\ rounds[j].first = played[i].first
    /\ rounds[j].decisions = played[i].decisions
    /\ rounds[j].status = played[i].status
    /\ rounds[j].issues = {}
Over(i) == i < Last \/ step \in {"deal", "end"}
AllRebuilt == \A i \in 1..Last : Over(i) /\ ActionsOf(i) \cap Spoils = {} => Rebuilt(i)

TilesInv == TableTyped /\ ReplayTyped /\ Begun /\ TilesKept
RoundsInv == TilesInv /\ DiscardSeen /\ PonsSeen /\ Follows /\ AllRebuilt

-----------------------------------------------------------------------------
(***************************************************************************)
(* Records, taken apart.                                                   *)
(***************************************************************************)

LEMMA RoundFields ==
    ASSUME NEW r \in RoundType
    PROVE  /\ r.first \in Nat /\ r.state \in StateType /\ r.decisions \in Seq(DecisionType)
           /\ r.issues \subseteq Nat /\ r.status \in Endings /\ r # NoRound
  BY DEF RoundType, NoRound

LEMMA StateFields ==
    ASSUME NEW x \in StateType
    PROVE  /\ x.hand \in Hands /\ x.last \in [Seats -> Tiles \cup {None}] /\ x.board \in BoardType
           /\ \A s \in Seats : x.hand[s] \in [Tiles -> Nat] /\ x.last[s] \in Tiles \cup {None}
  BY DEF StateType, Hands

LEMMA BoardFields ==
    ASSUME NEW b \in BoardType
    PROVE  /\ b.scores \in [Seats -> Int] /\ b.sticks \in Int /\ b.left \in Int
           /\ b.riichi \in [Seats -> BOOLEAN] /\ b.rivers \in [Seats -> Seq(Tiles)]
           /\ b.melds \in [Seats -> Seq(Seq(Tiles))]
  BY DEF BoardType

LEMMA SameBoard ==
    ASSUME NEW b \in BoardType, NEW c \in BoardType, b.scores = c.scores, b.sticks = c.sticks,
           b.left = c.left, b.riichi = c.riichi, b.rivers = c.rivers, b.melds = c.melds
    PROVE  b = c
  <1>1. ASSUME NEW x \in BoardType
        PROVE  x = [scores |-> x.scores, sticks |-> x.sticks, left |-> x.left, riichi |-> x.riichi,
                    rivers |-> x.rivers, melds |-> x.melds]
    BY DEF BoardType
  <1> QED  BY <1>1

LEMMA SameState ==
    ASSUME NEW x \in StateType, NEW y \in StateType, x.hand = y.hand, x.last = y.last, x.board = y.board
    PROVE  x = y
  <1>1. ASSUME NEW z \in StateType PROVE z = [hand |-> z.hand, last |-> z.last, board |-> z.board]
    BY DEF StateType
  <1> QED  BY <1>1

-----------------------------------------------------------------------------
(***************************************************************************)
(* Tiles and bags.                                                         *)
(***************************************************************************)
LEMMA SeatsAre == 0 \in Seats /\ \A s \in Seats : s \in Nat /\ (s + 1) % Players \in Seats
  <1>1. Players \in Nat /\ Players >= 2
    BY TableAssumption
  <1>2. ASSUME NEW s \in Seats PROVE (s + 1) % Players \in Seats
    <2>1. s + 1 \in Nat
      BY DEF Seats
    <2> QED  BY <1>1, <2>1 DEF Seats
  <1> QED  BY <1>1, <1>2 DEF Seats

LEMMA ElementOf ==
    ASSUME NEW S, NEW q \in Seq(S), NEW i \in DOMAIN q
    PROVE  q[i] \in S
  OBVIOUS

LEMMA CopiesType == Copies \in [Tiles -> Nat]
  <1>1. Copies \in [Tiles -> 0..4]
    BY TableAssumption DEF Bags
  <1> QED  BY <1>1

LEMMA CountTo ==
    ASSUME NEW n \in Nat
    PROVE  IsFiniteSet(1..n) /\ Cardinality(1..n) = n
  <1>1. IsFiniteSet(1..n) /\ Cardinality(1..n) = IF 1 > n THEN 0 ELSE n - 1 + 1
    BY FS_Interval
  <1>2. CASE n = 0
    BY <1>1, <1>2
  <1>3. CASE n > 0
    BY <1>1, <1>3
  <1> QED  BY <1>2, <1>3

LEMMA LeastOfNaturals ==
    ASSUME NEW S, S \subseteq Nat, S # {}
    PROVE  \E x \in S : \A y \in S : x <= y
  <1> DEFINE Less == {p \in Nat \X Nat : p[1] < p[2]}
  <1>1. IsWellFoundedOn(Less, Nat)
    BY NatLessThanWellFounded DEF OpToRel
  <1>2. \A x, y \in Nat : <<y, x>> \in Less <=> y < x
    OBVIOUS
  <1> HIDE DEF Less
  <1>3. PICK x \in S : \A y \in S : ~ (<<y, x>> \in Less)
    BY <1>1, WFMin
  <1>4. ASSUME NEW y \in S PROVE x <= y
    <2>1. x \in Nat /\ y \in Nat
      OBVIOUS
    <2>2. ~ (y < x)
      BY <1>2, <1>3, <2>1
    <2> QED  BY <2>1, <2>2
  <1> QED  BY <1>4

LEMMA SizeType ==
    ASSUME NEW S, IsFiniteSet(S), NEW bag \in [S -> Nat]
    PROVE  Size(bag) \in Nat /\ IsFiniteSet({c \in (DOMAIN bag) \X (1..4) : c[2] <= bag[c[1]]})
  <1>0. IsFiniteSet(1..4)
    BY CountTo
  <1>1. IsFiniteSet(S \X (1..4))
    BY <1>0, FS_Product
  <1>2. {c \in (DOMAIN bag) \X (1..4) : c[2] <= bag[c[1]]} \subseteq S \X (1..4)
    OBVIOUS
  <1>3. IsFiniteSet({c \in (DOMAIN bag) \X (1..4) : c[2] <= bag[c[1]]})
    BY <1>1, <1>2, FS_Subset
  <1> QED  BY <1>3, FS_CardinalityType DEF Size

(* Four tiles of one code.                                                  *)
LEMMA SizeOfOne ==
    ASSUME NEW k, NEW bag \in [{k} -> Nat], Size(bag) = 4
    PROVE  bag[k] >= 4
  <1> SUFFICES ASSUME bag[k] <= 3 PROVE FALSE
    OBVIOUS
  <1> DEFINE tiles == {c \in (DOMAIN bag) \X (1..4) : c[2] <= bag[c[1]]}
             number == [i \in 1..3 |-> <<k, i>>]
             three == {<<k, i>> : i \in 1..3}
  <1>1. ASSUME NEW c \in tiles PROVE c \in three
    <2>1. c[1] = k /\ c[2] \in 1..4 /\ c = <<c[1], c[2]>> /\ c[2] <= bag[k]
      OBVIOUS
    <2>2. c[2] \in 1..3
      BY <2>1
    <2> QED  BY <2>1, <2>2
  <1>2. IsFiniteSet(1..3) /\ Cardinality(1..3) = 3
    BY CountTo
  <1>3. number \in Surjection(1..3, three)
    BY DEF Surjection
  <1>4. IsFiniteSet(three) /\ Cardinality(three) <= 3 /\ Cardinality(three) \in Nat
    BY <1>2, <1>3, FS_Surjection, FS_CardinalityType
  <1>5. tiles \subseteq three
    BY <1>1
  <1>6. Cardinality(tiles) <= Cardinality(three) /\ Cardinality(tiles) \in Nat
    BY <1>4, <1>5, FS_Subset, FS_CardinalityType
  <1>7. Cardinality(tiles) = 4
    BY DEF Size
  <1> HIDE DEF tiles, three
  <1> QED  BY <1>4, <1>6, <1>7

(* What two seats are dealt is dealt.                                       *)
LEMMA DealtToTwo ==
    ASSUME NEW deal \in [Seats -> Bags], NEW t \in Tiles, NEW s \in Seats, NEW u \in Seats, s # u
    PROVE  deal[s][t] + deal[u][t] <= Dealt(deal, t) /\ Dealt(deal, t) \in Nat
  <1> DEFINE bag == [x \in Seats |-> deal[x][t]]
             m == deal[s][t]
             n == deal[u][t]
             tiles == {c \in (DOMAIN bag) \X (1..4) : c[2] <= bag[c[1]]}
             number == [i \in 1..(m + n) |-> IF i <= m THEN <<s, i>> ELSE <<u, i - m>>]
  <1>1. m \in 0..4 /\ n \in 0..4 /\ bag \in [Seats -> Nat] /\ bag[s] = m /\ bag[u] = n
        /\ DOMAIN bag = Seats
    BY DEF Bags
  <1>2. IsFiniteSet(Seats)
    BY TableAssumption, FS_Interval DEF Seats
  <1>3. Dealt(deal, t) = Cardinality(tiles)
    BY DEF Dealt, Size
  <1> HIDE DEF bag, m, n
  <1>4. IsFiniteSet(tiles) /\ Cardinality(tiles) \in Nat
    BY <1>1, <1>2, SizeType, FS_CardinalityType
  <1>5. ASSUME NEW i \in 1..(m + n) PROVE number[i] \in tiles
    <2>1. CASE i <= m
      BY <1>1, <2>1
    <2>2. CASE ~ (i <= m)
      <3>1. i - m \in 1..4 /\ i - m <= n
        BY <1>1, <2>2
      <3>2. <<u, i - m>> \in tiles
        BY <1>1, <3>1
      <3> QED  BY <2>2, <3>2
    <2> QED  BY <2>1, <2>2
  <1>6. ASSUME NEW i \in 1..(m + n), NEW j \in 1..(m + n), number[i] = number[j] PROVE i = j
    BY <1>1, <1>6
  <1>7. number \in Injection(1..(m + n), tiles)
    BY <1>5, <1>6 DEF Injection, IsInjective
  <1>8. IsFiniteSet(1..(m + n)) /\ Cardinality(1..(m + n)) = m + n
    <2>1. m + n \in Nat
      BY <1>1
    <2> QED  BY <2>1, CountTo
  <1>9. Cardinality(1..(m + n)) <= Cardinality(tiles)
    BY <1>4, <1>7, FS_Injection
  <1> QED  BY <1>3, <1>4, <1>8, <1>9 DEF m, n

-----------------------------------------------------------------------------
(***************************************************************************)
(* What one action does to the round that is replayed.                     *)
(***************************************************************************)
Advances(r, q, at) ==
    /\ q \in RoundType /\ q.first = r.first /\ q.status = r.status
    /\ q.issues \subseteq r.issues \cup {at}

LEMMA PutType ==
    ASSUME NEW h \in [Tiles -> Nat], NEW t \in Tiles
    PROVE  Put(h, t) \in [Tiles -> Nat]
  BY DEF Put

LEMMA RemoveType ==
    ASSUME NEW h \in [Tiles -> Nat], NEW t \in Tiles, NEW n \in Nat, n <= h[t]
    PROVE  RemoveTile(h, t, n) \in [Tiles -> Nat]
  <1>1. h[t] - n \in Nat
    OBVIOUS
  <1> QED  BY <1>1 DEF RemoveTile

LEMMA AccountType ==
    ASSUME NEW board \in BoardType, NEW a,
           a.liqi # None => a.liqi.seat \in Seats /\ a.liqi.score \in Int /\ a.liqi.sticks \in Int
    PROVE  /\ NoteLiqiSuccess(board, a) \in BoardType
           /\ NoteLiqiSuccess(board, a).left = board.left
           /\ NoteLiqiSuccess(board, a).riichi = board.riichi
           /\ NoteLiqiSuccess(board, a).rivers = board.rivers
           /\ NoteLiqiSuccess(board, a).melds = board.melds
           /\ a.liqi = None => NoteLiqiSuccess(board, a) = board
           /\ a.liqi # None =>
                /\ NoteLiqiSuccess(board, a).scores = [board.scores EXCEPT ![a.liqi.seat] = a.liqi.score]
                /\ NoteLiqiSuccess(board, a).sticks = a.liqi.sticks
  <1>1. CASE a.liqi = None
    BY <1>1 DEF NoteLiqiSuccess
  <1>2. CASE a.liqi # None
    <2> DEFINE s == a.liqi.seat
               n == a.liqi.score
               m == a.liqi.sticks
               b == [board EXCEPT !.scores[s] = n, !.sticks = m]
    <2>1. s \in Seats /\ n \in Int /\ m \in Int /\ NoteLiqiSuccess(board, a) = b
      BY <1>2 DEF NoteLiqiSuccess
    <2> HIDE DEF s, n, m
    <2>2. /\ b \in BoardType /\ b.scores = [board.scores EXCEPT ![s] = n] /\ b.sticks = m
          /\ b.left = board.left /\ b.riichi = board.riichi /\ b.rivers = board.rivers
          /\ b.melds = board.melds
      BY <2>1 DEF BoardType
    <2> HIDE DEF b
    <2> QED  BY <1>2, <2>1, <2>2 DEF s, n, m
  <1> QED  BY <1>1, <1>2

SetState(r, s, h, l, b) == [r EXCEPT !.state.hand[s] = h, !.state.last[s] = l, !.state.board = b]

LEMMA StateSet ==
    ASSUME NEW r \in RoundType, NEW s \in Seats, NEW h \in [Tiles -> Nat], NEW l \in Tiles \cup {None},
           NEW b \in BoardType, NEW q, q = SetState(r, s, h, l, b)
    PROVE  /\ q \in RoundType /\ q.first = r.first /\ q.status = r.status /\ q.issues = r.issues
           /\ q.decisions = r.decisions
           /\ q.state.hand = [r.state.hand EXCEPT ![s] = h]
           /\ q.state.last = [r.state.last EXCEPT ![s] = l]
           /\ q.state.board = b
  BY DEF RoundType, StateType, Hands, SetState

LEMMA ReplayedDeal ==
    ASSUME NEW r \in RoundType, NEW a, NEW q, q = AfterDeal(r, a),
           a.seat \in Seats, a.tile \in Tiles, a.left \in Int, a.at \in Nat,
           a.liqi # None => a.liqi.seat \in Seats /\ a.liqi.score \in Int /\ a.liqi.sticks \in Int
    PROVE  /\ Advances(r, q, a.at) /\ q.issues = r.issues /\ q.decisions = r.decisions
           /\ q.state.hand = [r.state.hand EXCEPT ![a.seat] = Put(@, a.tile)]
           /\ q.state.last = [r.state.last EXCEPT ![a.seat] = a.tile]
           /\ q.state.board = NoteLiqiSuccess([r.state.board EXCEPT !.left = a.left], a)
  <1> DEFINE s == a.seat
             t == a.tile
             h == Put(r.state.hand[s], t)
             c == [r.state.board EXCEPT !.left = a.left]
             b == NoteLiqiSuccess(c, a)
  <1>1. /\ r.state \in StateType /\ r.state.hand[s] \in [Tiles -> Nat] /\ r.state.board \in BoardType
        /\ s \in Seats /\ t \in Tiles
    BY RoundFields, StateFields
  <1>2. h \in [Tiles -> Nat]
    BY <1>1, PutType
  <1>3. c \in BoardType
    BY <1>1 DEF BoardType
  <1>4. b \in BoardType
    BY <1>3, AccountType
  <1>5. q = SetState(r, s, h, t, b)
    BY DEF AfterDeal, SetState
  <1> HIDE DEF s, t, h, b, c
  <1>6. /\ q \in RoundType /\ q.first = r.first /\ q.status = r.status /\ q.issues = r.issues
        /\ q.decisions = r.decisions
        /\ q.state.hand = [r.state.hand EXCEPT ![s] = h]
        /\ q.state.last = [r.state.last EXCEPT ![s] = t]
        /\ q.state.board = b
    BY <1>1, <1>2, <1>4, <1>5, StateSet
  <1> QED  BY <1>6 DEF Advances, s, t, h, b, c

LEMMA IssueType ==
    ASSUME NEW r \in RoundType, NEW a, a.at \in Nat
    PROVE  Advances(r, Issue(r, a), a.at) /\ Issue(r, a).decisions = r.decisions
  BY DEF Advances, Issue, RoundType

SetDiscard(r, s, h, ds, river, riichi) ==
    [r EXCEPT !.decisions = ds, !.state.hand[s] = h, !.state.last[s] = None,
              !.state.board.rivers[s] = river, !.state.board.riichi[s] = riichi]
SetHand(r, s, h) == [r EXCEPT !.state.hand[s] = h]
SetCall(r, s, melds) == [r EXCEPT !.state.last[s] = None, !.state.board.melds[s] = melds]
SetKan(r, s, h, melds) == [r EXCEPT !.state.hand[s] = h, !.state.board.melds[s] = melds]

HandFields(r, q, s, h) ==
    /\ q \in RoundType /\ q.first = r.first /\ q.status = r.status /\ q.issues = r.issues
    /\ q.decisions = r.decisions
    /\ q.state.hand = [r.state.hand EXCEPT ![s] = h]
    /\ q.state.last = r.state.last /\ q.state.board = r.state.board

LEMMA HandSet ==
    ASSUME NEW r \in RoundType, NEW s \in Seats, NEW h \in [Tiles -> Nat], NEW q, q = SetHand(r, s, h)
    PROVE  HandFields(r, q, s, h)
  BY DEF RoundType, StateType, Hands, SetHand, HandFields

(* The replay of a discard sets one field after the other.                  *)
SetDecisions(r, ds) == [r EXCEPT !.decisions = ds]
SetLast(r, s, l) == [r EXCEPT !.state.last[s] = l]
SetRiver(r, s, river) == [r EXCEPT !.state.board.rivers[s] = river]
SetRiichi(r, s, riichi) == [r EXCEPT !.state.board.riichi[s] = riichi]
SameRound(r, q) ==
    q \in RoundType /\ q.first = r.first /\ q.status = r.status /\ q.issues = r.issues

LEMMA DecisionsSet ==
    ASSUME NEW r \in RoundType, NEW ds \in Seq(DecisionType), NEW q, q = SetDecisions(r, ds)
    PROVE  SameRound(r, q) /\ q.decisions = ds /\ q.state = r.state
  BY DEF SetDecisions, SameRound, RoundType

LastFields(r, q, s, l) ==
    /\ SameRound(r, q) /\ q.decisions = r.decisions
    /\ q.state.last = [r.state.last EXCEPT ![s] = l]
    /\ q.state.hand = r.state.hand /\ q.state.board = r.state.board

LEMMA LastSet ==
    ASSUME NEW r \in RoundType, NEW s \in Seats, NEW l \in Tiles \cup {None},
           NEW q, q = SetLast(r, s, l)
    PROVE  LastFields(r, q, s, l)
  BY DEF SetLast, LastFields, SameRound, RoundType, StateType

RiverFields(r, q, s, river) ==
    /\ SameRound(r, q) /\ q.decisions = r.decisions
    /\ q.state.hand = r.state.hand /\ q.state.last = r.state.last
    /\ q.state.board = [r.state.board EXCEPT !.rivers[s] = river]

LEMMA RiverSet ==
    ASSUME NEW r \in RoundType, NEW s \in Seats, NEW river \in Seq(Tiles),
           NEW q, q = SetRiver(r, s, river)
    PROVE  RiverFields(r, q, s, river)
  BY DEF SetRiver, RiverFields, SameRound, RoundType, StateType, BoardType

RiichiFields(r, q, s, riichi) ==
    /\ SameRound(r, q) /\ q.decisions = r.decisions
    /\ q.state.hand = r.state.hand /\ q.state.last = r.state.last
    /\ q.state.board = [r.state.board EXCEPT !.riichi[s] = riichi]

LEMMA RiichiSet ==
    ASSUME NEW r \in RoundType, NEW s \in Seats, NEW riichi \in BOOLEAN,
           NEW q, q = SetRiichi(r, s, riichi)
    PROVE  RiichiFields(r, q, s, riichi)
  BY DEF SetRiichi, RiichiFields, SameRound, RoundType, StateType, BoardType

DiscardFields(r, q, s, h, ds, river, riichi) ==
    /\ q \in RoundType /\ q.first = r.first /\ q.status = r.status /\ q.issues = r.issues
    /\ q.decisions = ds
    /\ q.state.hand = [r.state.hand EXCEPT ![s] = h]
    /\ q.state.last = [r.state.last EXCEPT ![s] = None]
    /\ q.state.board.rivers = [r.state.board.rivers EXCEPT ![s] = river]
    /\ q.state.board.riichi = [r.state.board.riichi EXCEPT ![s] = riichi]
    /\ q.state.board.scores = r.state.board.scores /\ q.state.board.sticks = r.state.board.sticks
    /\ q.state.board.left = r.state.board.left /\ q.state.board.melds = r.state.board.melds

LEMMA DiscardSet ==
    ASSUME NEW r \in RoundType, NEW s \in Seats, NEW h \in [Tiles -> Nat],
           NEW ds \in Seq(DecisionType), NEW river \in Seq(Tiles), NEW riichi \in BOOLEAN,
           NEW q, q = SetDiscard(r, s, h, ds, river, riichi)
    PROVE  DiscardFields(r, q, s, h, ds, river, riichi)
  <1> DEFINE r1 == SetDecisions(r, ds)
             r2 == SetHand(r1, s, h)
             r3 == SetLast(r2, s, None)
             r4 == SetRiver(r3, s, river)
  <1>1. q = SetRiichi(r4, s, riichi)
    BY DEF SetRiichi, SetRiver, SetLast, SetHand, SetDecisions, SetDiscard
  <1>2. SameRound(r, r1) /\ r1.decisions = ds /\ r1.state = r.state
    BY DecisionsSet
  <1> HIDE DEF r1
  <1>3. HandFields(r1, r2, s, h)
    BY <1>2, HandSet DEF SameRound
  <1> HIDE DEF r2
  <1>4. LastFields(r2, r3, s, None)
    BY <1>3, LastSet DEF HandFields
  <1> HIDE DEF r3
  <1>5. RiverFields(r3, r4, s, river)
    BY <1>4, RiverSet DEF LastFields, SameRound
  <1> HIDE DEF r4
  <1>6. RiichiFields(r4, q, s, riichi)
    BY <1>1, <1>5, RiichiSet DEF RiverFields, SameRound
  <1>7. /\ SameRound(r, q) /\ q.decisions = ds
        /\ q.state.hand = [r.state.hand EXCEPT ![s] = h]
        /\ q.state.last = [r.state.last EXCEPT ![s] = None]
    BY <1>2, <1>3, <1>4, <1>5, <1>6
       DEF SameRound, HandFields, LastFields, RiverFields, RiichiFields
  <1> DEFINE b == r.state.board
             c == [b EXCEPT !.rivers[s] = river]
  <1>8. b \in BoardType /\ q.state.board = [c EXCEPT !.riichi[s] = riichi]
    BY <1>2, <1>3, <1>4, <1>5, <1>6, RoundFields, StateFields
       DEF HandFields, LastFields, RiverFields, RiichiFields
  <1> HIDE DEF b
  <1>9. /\ q.state.board.rivers = [b.rivers EXCEPT ![s] = river]
        /\ q.state.board.riichi = [b.riichi EXCEPT ![s] = riichi]
        /\ q.state.board.scores = b.scores /\ q.state.board.sticks = b.sticks
        /\ q.state.board.left = b.left /\ q.state.board.melds = b.melds
    BY <1>8 DEF BoardType
  <1> QED  BY <1>7, <1>9 DEF DiscardFields, SameRound, b

CallFields(r, q, s, melds) ==
    /\ q \in RoundType /\ q.first = r.first /\ q.status = r.status /\ q.issues = r.issues
    /\ q.decisions = r.decisions
    /\ q.state.hand = r.state.hand
    /\ q.state.last = [r.state.last EXCEPT ![s] = None]
    /\ q.state.board.melds = [r.state.board.melds EXCEPT ![s] = melds]
    /\ q.state.board.scores = r.state.board.scores /\ q.state.board.sticks = r.state.board.sticks
    /\ q.state.board.left = r.state.board.left /\ q.state.board.rivers = r.state.board.rivers
    /\ q.state.board.riichi = r.state.board.riichi

LEMMA CallSet ==
    ASSUME NEW r \in RoundType, NEW s \in Seats, NEW melds \in Seq(Seq(Tiles)),
           NEW q, q = SetCall(r, s, melds)
    PROVE  CallFields(r, q, s, melds)
  <1>1. q.state \in StateType
    BY DEF RoundType, StateType, BoardType, Hands, SetCall
  <1> QED  BY <1>1 DEF RoundType, StateType, BoardType, Hands, SetCall, CallFields

KanFields(r, q, s, h, melds) ==
    /\ q \in RoundType /\ q.first = r.first /\ q.status = r.status /\ q.issues = r.issues
    /\ q.decisions = r.decisions
    /\ q.state.hand = [r.state.hand EXCEPT ![s] = h]
    /\ q.state.last = r.state.last
    /\ q.state.board.melds = [r.state.board.melds EXCEPT ![s] = melds]
    /\ q.state.board.scores = r.state.board.scores /\ q.state.board.sticks = r.state.board.sticks
    /\ q.state.board.left = r.state.board.left /\ q.state.board.rivers = r.state.board.rivers
    /\ q.state.board.riichi = r.state.board.riichi

LEMMA KanSet ==
    ASSUME NEW r \in RoundType, NEW s \in Seats, NEW h \in [Tiles -> Nat], NEW melds \in Seq(Seq(Tiles)),
           NEW q, q = SetKan(r, s, h, melds)
    PROVE  KanFields(r, q, s, h, melds)
  <1>1. q.state \in StateType
    BY DEF RoundType, StateType, BoardType, Hands, SetKan
  <1> QED  BY <1>1 DEF RoundType, StateType, BoardType, Hands, SetKan, KanFields

LEMMA TurnNoType ==
    ASSUME NEW ds \in Seq(DecisionType), NEW s
    PROVE  TurnNo(ds, s) \in Nat
  <1> DEFINE mine == {i \in DOMAIN ds : ds[i].seat = s}
  <1>1. IsFiniteSet(1..Len(ds))
    BY CountTo
  <1>2. mine \subseteq 1..Len(ds)
    OBVIOUS
  <1>3. Cardinality(mine) \in Nat
    BY <1>1, <1>2, FS_Subset, FS_CardinalityType
  <1> QED  BY <1>3 DEF TurnNo

LEMMA DecisionIsTyped ==
    ASSUME NEW x \in StateType, NEW at \in Nat, NEW s \in Seats, NEW n \in Nat, NEW t \in Tiles,
           NEW riichi \in BOOLEAN
    PROVE  Decision(x, at, s, n, t, riichi) \in DecisionType
  <1>1. x.hand[s] \in [Tiles -> Nat] /\ x.last[s] \in Tiles \cup {None} /\ x.board \in BoardType
    BY StateFields
  <1> QED  BY <1>1 DEF Decision, DecisionType

PlayedOut(r, q, a) ==
    /\ q.issues = r.issues
    /\ q.decisions = Append(r.decisions, Decision(r.state, a.at, a.seat,
                            TurnNo(r.decisions, a.seat), a.tile, a.riichi))
    /\ q.state.hand = [r.state.hand EXCEPT ![a.seat] = RemoveTile(@, a.tile, 1)]
    /\ q.state.last = [r.state.last EXCEPT ![a.seat] = None]
    /\ q.state.board.rivers = [r.state.board.rivers EXCEPT ![a.seat] = Append(@, a.tile)]
    /\ q.state.board.riichi = [r.state.board.riichi EXCEPT ![a.seat] = @ \/ a.riichi]
    /\ q.state.board.scores = r.state.board.scores
    /\ q.state.board.sticks = r.state.board.sticks
    /\ q.state.board.left = r.state.board.left
    /\ q.state.board.melds = r.state.board.melds

LEMMA ReplayedDiscard ==
    ASSUME NEW r \in RoundType, NEW a, NEW q, q = AfterDiscard(r, a),
           a.seat \in Seats, a.tile \in Tiles, a.riichi \in BOOLEAN, a.at \in Nat
    PROVE  /\ Advances(r, q, a.at)
           /\ ~ Missing(r, a) => PlayedOut(r, q, a)
  <1>1. CASE Missing(r, a)
    <2>1. q = Issue(r, a)
      BY <1>1 DEF AfterDiscard
    <2> QED  BY <1>1, <2>1, IssueType
  <1>2. CASE ~ Missing(r, a)
    <2> DEFINE s == a.seat
               t == a.tile
               h == RemoveTile(r.state.hand[s], t, 1)
               d == Decision(r.state, a.at, s, TurnNo(r.decisions, s), t, a.riichi)
               ds == Append(r.decisions, d)
               river == Append(r.state.board.rivers[s], t)
               riichi == r.state.board.riichi[s] \/ a.riichi
    <2>1. /\ r.state \in StateType /\ r.state.hand[s] \in [Tiles -> Nat] /\ r.decisions \in Seq(DecisionType)
          /\ s \in Seats /\ t \in Tiles
      BY RoundFields, StateFields
    <2>2. r.state.board.rivers[s] \in Seq(Tiles) /\ r.state.board.riichi[s] \in BOOLEAN
      <3>1. r.state.board \in BoardType
        BY <2>1, StateFields
      <3> QED  BY <2>1, <3>1, BoardFields
    <2>3. h \in [Tiles -> Nat]
      <3>1. r.state.hand[s][t] # 0
        BY <1>2 DEF Missing
      <3>2. 1 <= r.state.hand[s][t]
        BY <2>1, <3>1
      <3> QED  BY <2>1, <3>2, RemoveType
    <2>4. d \in DecisionType
      BY <2>1, TurnNoType, DecisionIsTyped
    <2>5. ds \in Seq(DecisionType)
      BY <2>1, <2>4
    <2>6. river \in Seq(Tiles) /\ riichi \in BOOLEAN
      BY <2>1, <2>2
    <2>7. q = SetDiscard(r, s, h, ds, river, riichi)
      BY <1>2 DEF AfterDiscard, SetDiscard
    <2> HIDE DEF s, t, h, d, ds, river, riichi
    <2>8. DiscardFields(r, q, s, h, ds, river, riichi)
      BY <2>1, <2>3, <2>5, <2>6, <2>7, DiscardSet
    <2> QED  BY <2>8 DEF PlayedOut, DiscardFields, Advances, s, t, h, d, ds, river, riichi
  <1> QED  BY <1>1, <1>2

KanOut(r, q, a) ==
    LET n == KanSize(r.state.hand[a.seat][a.tile]) IN
    /\ q.issues = r.issues /\ q.decisions = r.decisions
    /\ q.state.hand = [r.state.hand EXCEPT ![a.seat] = RemoveTile(@, a.tile, n)]
    /\ q.state.last = r.state.last
    /\ q.state.board.melds = [r.state.board.melds EXCEPT ![a.seat] =
                                    Append(@, [i \in 1..n |-> a.tile])]
    /\ q.state.board.scores = r.state.board.scores
    /\ q.state.board.sticks = r.state.board.sticks
    /\ q.state.board.left = r.state.board.left
    /\ q.state.board.rivers = r.state.board.rivers
    /\ q.state.board.riichi = r.state.board.riichi

LEMMA ReplayedKan ==
    ASSUME NEW r \in RoundType, NEW a, NEW q, q = AfterKan(r, a),
           a.seat \in Seats, a.tile \in Tiles, a.at \in Nat
    PROVE  /\ Advances(r, q, a.at)
           /\ r.state.hand[a.seat][a.tile] >= 4 \/ r.state.hand[a.seat][a.tile] = 1 => KanOut(r, q, a)
  <1> DEFINE s == a.seat
             t == a.tile
             copies == r.state.hand[s][t]
             n == KanSize(copies)
             h == RemoveTile(r.state.hand[s], t, n)
             meld == [i \in 1..n |-> t]
             melds == Append(r.state.board.melds[s], meld)
  <1>1. /\ r.state \in StateType /\ r.state.hand[s] \in [Tiles -> Nat] /\ r.decisions \in Seq(DecisionType)
        /\ s \in Seats /\ t \in Tiles /\ copies \in Nat
    BY RoundFields, StateFields
  <1>2. CASE ~ (copies >= 4 \/ copies = 1)
    <2>1. copies < 4 /\ copies # 1
      BY <1>1, <1>2
    <2>2. q = Issue(r, a)
      BY <2>1, Zenon DEF AfterKan
    <2> QED  BY <1>2, <2>2, IssueType
  <1>3. CASE copies >= 4 \/ copies = 1
    <2>1. r.state.board.melds[s] \in Seq(Seq(Tiles))
      <3>1. r.state.board \in BoardType
        BY <1>1, StateFields
      <3> QED  BY <1>1, <3>1, BoardFields
    <2>2. n \in Nat /\ n <= copies
      BY <1>1, <1>3 DEF KanSize
    <2>3. h \in [Tiles -> Nat]
      BY <1>1, <2>2, RemoveType
    <2>4. meld \in Seq(Tiles)
      <3> HIDE DEF n, t
      <3>1. meld \in [1..n -> Tiles]
        BY <1>1
      <3> HIDE DEF meld
      <3>2. \E m \in Nat : meld \in [1..m -> Tiles]
        BY <2>2, <3>1
      <3> QED  BY <3>2
    <2>5. melds \in Seq(Seq(Tiles))
      BY <2>1, <2>4
    <2>6. q = SetKan(r, s, h, melds)
      <3>1. ~(copies < 4 /\ copies # 1)
        BY <1>1, <1>3
      <3> QED  BY <3>1, Zenon DEF AfterKan, SetKan
    <2> HIDE DEF s, t, copies, n, h, meld, melds
    <2>7. KanFields(r, q, s, h, melds)
      BY <1>1, <2>3, <2>5, <2>6, KanSet
    <2> QED  BY <2>7 DEF KanOut, KanFields, Advances, s, t, copies, n, h, meld, melds
  <1> QED  BY <1>2, <1>3

(* The tiles of a call, counted.                                            *)
LEMMA CountedType ==
    ASSUME NEW own, NEW n \in Nat, NEW t
    PROVE  Counted(own, n, t) \in Nat /\ IsFiniteSet({i \in 1..n : own[i] = t})
  <1>1. IsFiniteSet(1..n)
    BY CountTo
  <1>2. IsFiniteSet({i \in 1..n : own[i] = t})
    BY <1>1, FS_Subset
  <1> QED  BY <1>2, FS_CardinalityType DEF Counted

LEMMA CountedGrows ==
    ASSUME NEW own, NEW n \in Nat, NEW m \in Nat, n <= m, NEW t
    PROVE  Counted(own, n, t) <= Counted(own, m, t)
  <1>1. {i \in 1..n : own[i] = t} \subseteq {i \in 1..m : own[i] = t}
    OBVIOUS
  <1>2. IsFiniteSet({i \in 1..m : own[i] = t})
    BY CountedType
  <1> QED  BY <1>1, <1>2, FS_Subset DEF Counted

LEMMA NoneCounted ==
    ASSUME NEW own, NEW t
    PROVE  Counted(own, 0, t) = 0
  <1>1. {i \in 1..0 : own[i] = t} = {}
    OBVIOUS
  <1> QED  BY <1>1, FS_EmptySet DEF Counted

(* The tiles of a call that are found in a hand: all of them, if it has all.*)
LEMMA FoundTiles ==
    ASSUME NEW h \in [Tiles -> Nat], NEW own \in Seq(Tiles)
    PROVE  LET found == CHOOSE n \in 0..Len(own) :
                            /\ Holds(h, own, n)
                            /\ n < Len(own) => ~Holds(h, own, n + 1)
           IN  /\ found \in 0..Len(own) /\ Holds(h, own, found)
               /\ Holds(h, own, Len(own)) => found = Len(own)
  <1> DEFINE good(n) == Holds(h, own, n) /\ (n < Len(own) => ~Holds(h, own, n + 1))
             found == CHOOSE n \in 0..Len(own) : good(n)
             held == {Len(own) - n : n \in {k \in 0..Len(own) : Holds(h, own, k)}}
  <1>1. Len(own) \in Nat
    OBVIOUS
  <1>2. Holds(h, own, 0)
    BY NoneCounted DEF Holds, Counted
  <1>3. held \subseteq Nat /\ held # {}
    BY <1>1, <1>2
  <1>4. PICK x \in held : \A y \in held : x <= y
    BY <1>3, LeastOfNaturals
  <1>5. PICK n \in 0..Len(own) : Holds(h, own, n) /\ x = Len(own) - n
    BY <1>4
  <1>6. good(n)
    <2> SUFFICES ASSUME n < Len(own), Holds(h, own, n + 1) PROVE FALSE
      BY <1>5
    <2>1. n + 1 \in 0..Len(own)
      BY <1>1
    <2>2. Len(own) - (n + 1) \in held
      BY <2>1
    <2>3. x <= Len(own) - (n + 1)
      BY <1>4, <2>2
    <2> QED  BY <1>1, <1>5, <2>3
  <1>7. found \in 0..Len(own) /\ good(found)
    <2>1. \E k \in 0..Len(own) : good(k)
      BY <1>6
    <2> HIDE DEF good
    <2> QED  BY <2>1
  <1>8. ASSUME Holds(h, own, Len(own)), found < Len(own) PROVE FALSE
    <2> HIDE DEF found
    <2>1. found + 1 \in Nat /\ found + 1 <= Len(own)
      BY <1>1, <1>7, <1>8
    <2>2. ASSUME NEW t \in Tiles PROVE Counted(own, found + 1, t) <= h[t]
      <3>1. Counted(own, found + 1, t) <= Counted(own, Len(own), t)
        BY <1>1, <2>1, CountedGrows
      <3>2. Counted(own, Len(own), t) <= h[t]
        BY <1>8 DEF Holds, Counted
      <3>3. Counted(own, found + 1, t) \in Nat /\ Counted(own, Len(own), t) \in Nat /\ h[t] \in Nat
        BY <1>1, <2>1, CountedType
      <3> QED  BY <3>1, <3>2, <3>3
    <2>3. Holds(h, own, found + 1)
      BY <2>2 DEF Holds, Counted
    <2> QED  BY <1>7, <1>8, <2>3
  <1>9. found <= Len(own)
    BY <1>7
  <1>10. Holds(h, own, Len(own)) => found = Len(own)
    <2> HIDE DEF found
    <2> QED  BY <1>1, <1>7, <1>8, <1>9
  <1> QED  BY <1>7, <1>10

LEMMA WithoutType ==
    ASSUME NEW h \in [Tiles -> Nat], NEW own, NEW n \in Nat, Holds(h, own, n)
    PROVE  Without(h, own, n) \in [Tiles -> Nat]
  <1>1. ASSUME NEW t \in Tiles PROVE h[t] - Counted(own, n, t) \in Nat
    <2>1. Counted(own, n, t) <= h[t]
      BY DEF Holds, Counted
    <2>2. Counted(own, n, t) \in Nat /\ h[t] \in Nat
      BY CountedType
    <2> QED  BY <2>1, <2>2
  <1>2. Without(h, own, n) = [t \in Tiles |-> h[t] - Counted(own, n, t)]
    BY DEF Without, Counted
  <1> QED  BY <1>1, <1>2

CalledOut(r, q, a) ==
    /\ q.issues = r.issues /\ q.decisions = r.decisions
    /\ q.state.hand = [r.state.hand EXCEPT ![a.seat] = Without(@, a.own, Len(a.own))]
    /\ q.state.last = [r.state.last EXCEPT ![a.seat] = None]
    /\ q.state.board.melds = [r.state.board.melds EXCEPT ![a.seat] =
                                    Append(@, Append(a.own, a.tile))]
    /\ q.state.board.scores = r.state.board.scores
    /\ q.state.board.sticks = r.state.board.sticks
    /\ q.state.board.left = r.state.board.left
    /\ q.state.board.rivers = r.state.board.rivers
    /\ q.state.board.riichi = r.state.board.riichi

LEMMA ReplayedCall ==
    ASSUME NEW r \in RoundType, NEW a, NEW q, q = AfterCall(r, a),
           a.seat \in Seats, a.tile \in Tiles, a.own \in Seq(Tiles), a.at \in Nat
    PROVE  /\ Advances(r, q, a.at)
           /\ Holds(r.state.hand[a.seat], a.own, Len(a.own)) => CalledOut(r, q, a)
  <1> DEFINE s == a.seat
             found == CHOOSE n \in 0..Len(a.own) :
                        /\ Holds(r.state.hand[a.seat], a.own, n)
                        /\ n < Len(a.own) => ~Holds(r.state.hand[a.seat], a.own, n + 1)
             h == Without(r.state.hand[s], a.own, found)
             taken == SetHand(r, s, h)
             melds == Append(r.state.board.melds[s], Append(a.own, a.tile))
  <1>1. /\ r.state \in StateType /\ r.state.hand[s] \in [Tiles -> Nat] /\ r.state.board \in BoardType
        /\ s \in Seats
    BY RoundFields, StateFields
  <1>2. /\ found \in 0..Len(a.own) /\ Holds(r.state.hand[s], a.own, found)
        /\ Holds(r.state.hand[s], a.own, Len(a.own)) => found = Len(a.own)
    BY <1>1, FoundTiles
  <1>3. q = IF found < Len(a.own) THEN Issue(taken, a)
            ELSE [taken EXCEPT !.state.last[s] = None,
                               !.state.board.melds[s] = Append(@, Append(a.own, a.tile))]
    BY DEF AfterCall, SetHand
  <1> HIDE DEF found
  <1>4. h \in [Tiles -> Nat]
    <2>1. found \in Nat
      BY <1>2
    <2> QED  BY <1>1, <1>2, <2>1, WithoutType
  <1> HIDE DEF h
  <1>5. /\ taken \in RoundType /\ taken.first = r.first /\ taken.status = r.status
        /\ taken.issues = r.issues /\ taken.decisions = r.decisions
        /\ taken.state.hand = [r.state.hand EXCEPT ![s] = h]
        /\ taken.state.last = r.state.last /\ taken.state.board = r.state.board
    <2> HIDE DEF s
    <2>1. HandFields(r, taken, s, h)
      BY <1>1, <1>4, HandSet
    <2> QED  BY <2>1 DEF HandFields
  <1> HIDE DEF taken
  <1>6. CASE found < Len(a.own)
    <2>1. q = Issue(taken, a)
      BY <1>3, <1>6
    <2>2. Advances(taken, q, a.at)
      BY <1>5, <2>1, IssueType
    <2>3. Advances(r, q, a.at)
      BY <1>5, <2>2 DEF Advances
    <2>4. found # Len(a.own)
      BY <1>2, <1>6
    <2> QED  BY <1>2, <2>3, <2>4
  <1>7. CASE ~ (found < Len(a.own))
    <2>1. found = Len(a.own)
      BY <1>2, <1>7
    <2>2. r.state.board.melds[s] \in Seq(Seq(Tiles))
      BY <1>1, BoardFields
    <2>3. melds \in Seq(Seq(Tiles))
      BY <2>2
    <2>4. q = SetCall(taken, s, melds)
      BY <1>3, <1>5, <1>7 DEF SetCall
    <2> HIDE DEF melds, s
    <2>5. CallFields(taken, q, s, melds)
      BY <1>1, <1>5, <2>3, <2>4, CallSet
    <2>6. Advances(r, q, a.at) /\ q.issues = r.issues /\ q.decisions = r.decisions
      BY <1>5, <2>5 DEF CallFields, Advances
    <2>7. /\ q.state.hand = [r.state.hand EXCEPT ![s] = h]
          /\ q.state.last = [r.state.last EXCEPT ![s] = None]
          /\ q.state.board.melds = [r.state.board.melds EXCEPT ![s] = melds]
          /\ q.state.board.scores = r.state.board.scores
          /\ q.state.board.sticks = r.state.board.sticks
          /\ q.state.board.left = r.state.board.left
          /\ q.state.board.rivers = r.state.board.rivers
          /\ q.state.board.riichi = r.state.board.riichi
      BY <1>5, <2>5 DEF CallFields
    <2> QED  BY <2>1, <2>6, <2>7 DEF CalledOut, h, melds, s
  <1> QED  BY <1>6, <1>7

-----------------------------------------------------------------------------
(***************************************************************************)
(* One iteration of the replay.                                            *)
(***************************************************************************)
GoodAction(a) ==
    /\ a.name = "NewRound" => FreshState(a) \in StateType
    /\ a.name = "DealTile" =>
            /\ a.seat \in Seats /\ a.tile \in Tiles /\ a.left \in Int
            /\ a.liqi # None => a.liqi.seat \in Seats /\ a.liqi.score \in Int /\ a.liqi.sticks \in Int
    /\ a.name = "DiscardTile" => a.seat \in Seats /\ a.tile \in Tiles /\ a.riichi \in BOOLEAN
    /\ a.name = "ChiPengGang" => a.seat \in Seats /\ a.tile \in Tiles /\ a.own \in Seq(Tiles)
    /\ a.name = "AnGangAddGang" => a.seat \in Seats /\ a.tile \in Tiles

LEMMA AppliedAdvances ==
    ASSUME NEW r \in RoundType, NEW a, GoodAction(a), a.name \in InRound, a.at \in Nat
    PROVE  Advances(r, Applied(r, a), a.at)
  <1>1. CASE a.name = "DealTile"
    <2>1. Applied(r, a) = AfterDeal(r, a)
      BY <1>1 DEF Applied
    <2> QED  BY <1>1, <2>1, ReplayedDeal DEF GoodAction
  <1>2. CASE a.name = "DiscardTile"
    <2>1. Applied(r, a) = AfterDiscard(r, a)
      BY <1>2 DEF Applied
    <2> QED  BY <1>2, <2>1, ReplayedDiscard DEF GoodAction
  <1>3. CASE a.name = "ChiPengGang"
    <2>1. Applied(r, a) = AfterCall(r, a)
      BY <1>3 DEF Applied
    <2> QED  BY <1>3, <2>1, ReplayedCall DEF GoodAction
  <1>4. CASE a.name = "AnGangAddGang"
    <2>1. Applied(r, a) = AfterKan(r, a)
      BY <1>4 DEF Applied
    <2> QED  BY <1>4, <2>1, ReplayedKan DEF GoodAction
  <1> QED  BY <1>1, <1>2, <1>3, <1>4 DEF InRound

LEMMA ChecksAdvance ==
    ASSUME NEW r \in RoundType, NEW a, a.at \in Nat
    PROVE  /\ Advances(r, CheckScores(r, a), a.at)
           /\ CheckScores(r, a).decisions = r.decisions
           /\ r.state.board.scores = a.oldScores => CheckScores(r, a) = r
  <1>1. Advances(r, r, a.at)
    BY DEF Advances
  <1> QED  BY <1>1, IssueType DEF CheckScores

LEMMA FinishType ==
    ASSUME ReplayTyped, NEW r, r # NoRound => r \in RoundType, NEW status \in Endings
    PROVE  /\ Finish(r, status) \in Seq(RoundType)
           /\ DOMAIN rounds \subseteq DOMAIN Finish(r, status)
           /\ \A j \in DOMAIN rounds : Finish(r, status)[j] = rounds[j]
           /\ r # NoRound =>
                \E j \in DOMAIN Finish(r, status) :
                    LET f == Finish(r, status)[j] IN
                    /\ f.first = r.first /\ f.decisions = r.decisions
                    /\ f.issues = r.issues /\ f.status = status
  <1>1. rounds \in Seq(RoundType)
    BY DEF ReplayTyped
  <1>2. CASE r = NoRound
    BY <1>1, <1>2 DEF Finish
  <1>3. CASE r # NoRound
    <2> DEFINE f == [r EXCEPT !.status = status]
               l == Len(rounds) + 1
    <2>1. /\ f \in RoundType /\ f.first = r.first /\ f.decisions = r.decisions
          /\ f.issues = r.issues /\ f.status = status
      BY <1>3 DEF RoundType
    <2>2. Finish(r, status) = Append(rounds, f)
      BY <1>3 DEF Finish
    <2> HIDE DEF f
    <2>3. Append(rounds, f) \in Seq(RoundType)
      BY <1>1, <2>1
    <2>4. /\ DOMAIN Append(rounds, f) = 1..l /\ DOMAIN rounds = 1..Len(rounds)
          /\ l \in 1..l /\ Append(rounds, f)[l] = f
      BY <1>1, <2>1
    <2>5. \A j \in DOMAIN rounds : j \in 1..l /\ Append(rounds, f)[j] = rounds[j]
      BY <1>1, <2>1
    <2>6. Finish(r, status)[l] = f /\ l \in DOMAIN Finish(r, status)
      BY <2>2, <2>4
    <2>7. \E j \in DOMAIN Finish(r, status) :
                    LET g == Finish(r, status)[j] IN
                    /\ g.first = r.first /\ g.decisions = r.decisions
                    /\ g.issues = r.issues /\ g.status = status
      BY <2>1, <2>6
    <2> QED  BY <2>2, <2>3, <2>4, <2>5, <2>7
  <1> QED  BY <1>2, <1>3

(* Whatever the replay meets, what it keeps is typed, and names no action   *)
(* that is not in the record yet.                                           *)
LEMMA ReplayKeepsTyped ==
    ASSUME ReplayTyped, NEW a, Replay(a), GoodAction(a), a.at = length, MixedStep
    PROVE  ReplayTyped' /\ Spoils \subseteq Spoils' /\ length' = length + 1
  <1>1. /\ length \in Nat /\ length < MaxActions /\ length' = length + 1 /\ MaxActions \in Nat
        /\ length \in Nat /\ a.at \in Nat
    BY TableAssumption DEF ReplayTyped, Replay
  <1>2. length' \in Nat /\ length' <= MaxActions /\ length' - 1 = length /\ a.at \in 0..length
    BY <1>1
  <1>3. ASSUME NEW S, S \subseteq 0..(length - 1) PROVE S \subseteq 0..length /\ S \cup {a.at} \subseteq 0..length
    <2>1. ASSUME NEW x \in 0..(length - 1) PROVE x \in 0..length
      BY <1>1
    <2> QED  BY <1>2, <1>3, <2>1
  <1>4. /\ lost \subseteq 0..(length - 1) /\ issues \subseteq 0..(length - 1)
        /\ rounds \in Seq(RoundType)
        /\ round # NoRound => round \in RoundType /\ round.issues \subseteq 0..(length - 1)
    BY DEF ReplayTyped
  <1>5. mixed' \subseteq 0..length /\ mixed \subseteq mixed'
    <2>1. mixed \subseteq 0..length /\ length \in 0..length
      BY <1>1, <1>3 DEF ReplayTyped
    <2> QED  BY <2>1 DEF MixedStep
  <1>6. CASE NotDecodable(a)
    <2>1. /\ lost' = lost \cup {a.at} /\ issues' = issues \cup {a.at}
          /\ round' = round /\ rounds' = rounds
      BY <1>6 DEF NotDecodable
    <2> QED  BY <1>1, <1>2, <1>3, <1>4, <1>5, <2>1 DEF ReplayTyped, Spoils
  <1>7. CASE NewRound(a) /\ UNCHANGED lost
    <2>1. rounds' = Finish(round, "interrupted_by_new_round") /\ issues' = issues /\ lost' = lost
      BY <1>7 DEF NewRound
    <2>2. rounds' \in Seq(RoundType)
      BY <1>4, <2>1, FinishType DEF Endings
    <2>3. FreshState(a) \in StateType
      BY <1>7 DEF GoodAction, NewRound
    <2>4. round' = [first |-> a.at, state |-> FreshState(a), decisions |-> << >>,
                    issues |-> {}, status |-> "open"]
      BY <1>7 DEF NewRound
    <2>5. << >> \in Seq(DecisionType)
      OBVIOUS
    <2>6. round' \in RoundType /\ round'.issues = {}
      BY <1>1, <2>3, <2>4, <2>5 DEF RoundType, Endings
    <2> QED  BY <1>1, <1>2, <1>3, <1>4, <1>5, <2>1, <2>2, <2>6 DEF ReplayTyped, Spoils
  <1>8. CASE ApplyToRound(a) /\ UNCHANGED lost
    <2>1. /\ a.name \in InRound /\ round \in RoundType /\ round' = Applied(round, a)
          /\ rounds' = rounds /\ issues' = issues /\ lost' = lost
      BY <1>4, <1>8 DEF ApplyToRound
    <2>2. Advances(round, round', a.at)
      BY <1>1, <2>1, AppliedAdvances
    <2>3. round' \in RoundType /\ round'.issues \subseteq 0..length
      BY <1>3, <1>4, <2>1, <2>2, RoundFields DEF Advances
    <2> QED  BY <1>1, <1>2, <1>3, <1>4, <1>5, <2>1, <2>3 DEF ReplayTyped, Spoils
  <1>9. CASE OutsideRound(a) /\ UNCHANGED lost
    <2>1. /\ issues' = issues \cup {a.at} /\ round' = round /\ rounds' = rounds /\ lost' = lost
          /\ round = NoRound
      BY <1>9 DEF OutsideRound
    <2> QED  BY <1>1, <1>2, <1>3, <1>4, <1>5, <2>1 DEF ReplayTyped, Spoils
  <1>10. CASE FinishRound(a) /\ UNCHANGED lost
    <2>1. /\ round' = NoRound /\ issues' = issues /\ lost' = lost
          /\ rounds' = IF round = NoRound THEN rounds ELSE Finish(CheckScores(round, a), a.name)
      BY <1>10 DEF FinishRound, Closed
    <2>2. CASE round # NoRound
      <3>1. CheckScores(round, a) \in RoundType
        BY <1>1, <1>4, <2>2, ChecksAdvance DEF Advances
      <3>2. a.name \in Endings
        BY <1>10 DEF FinishRound, Ends, Endings
      <3>3. rounds' \in Seq(RoundType)
        BY <2>1, <2>2, <3>1, <3>2, FinishType
      <3> QED  BY <1>1, <1>2, <1>3, <1>4, <1>5, <2>1, <3>3 DEF ReplayTyped, Spoils
    <2>3. CASE round = NoRound
      BY <1>1, <1>2, <1>3, <1>4, <1>5, <2>1, <2>3 DEF ReplayTyped, Spoils
    <2> QED  BY <2>2, <2>3
  <1> QED  BY <1>6, <1>7, <1>8, <1>9, <1>10 DEF Replay

-----------------------------------------------------------------------------
(***************************************************************************)
(* The replay beside the table, while a round goes on.                     *)
(***************************************************************************)
Move(a) ==
    /\ a.at = length /\ a.name \in InRound /\ GoodAction(a) /\ Replay(a) /\ MixedStep
    /\ step \notin {"deal", "end"} /\ step' \notin {"deal", "end"}

(* The moves before stay; of the last round only the decisions may change.  *)
PlayedOn ==
    /\ Last' = Last
    /\ \A i \in 1..Last : played'[i].first = played[i].first
    /\ \A i \in 1..Last : i < Last => played'[i] = played[i]

LEMMA MoveRounds ==
    ASSUME NEW a, Move(a)
    PROVE  rounds' = rounds
  BY DEF Move, Replay, NotDecodable, ApplyToRound, OutsideRound, NewRound, FinishRound, InRound, Ends

LEMMA LastPlayed ==
    ASSUME TableTyped
    PROVE  /\ Last \in Nat /\ \A i \in 1..Last : played[i] \in PlayedType
           /\ step \notin {"deal", "end"} => Last \in 1..Last
  <1>1. played \in Seq(PlayedType) /\ Last = Len(played)
    BY DEF TableTyped, Last
  <1>2. Last \in Nat /\ \A i \in 1..Last : played[i] \in PlayedType
    BY <1>1
  <1>3. ASSUME step \notin {"deal", "end"} PROVE Last \in 1..Last
    <2>1. Last > 0
      BY <1>3 DEF TableTyped
    <2> QED  BY <1>2, <2>1
  <1> QED  BY <1>2, <1>3

LEMMA MoveUnspoiled ==
    ASSUME TableTyped, ReplayTyped, Begun, PlayedOn, NEW a, Move(a), Unspoiled'
    PROVE  length \notin Spoils' /\ Unspoiled
  <1> DEFINE first == played[Last].first
  <1>1. Last \in 1..Last /\ first \in Nat
    BY LastPlayed DEF Move, PlayedType
  <1>2. length \in Nat /\ first < length /\ length' = length + 1
    BY <1>1 DEF ReplayTyped, Begun, Replay, Move
  <1>3. played'[Last'].first = first
    BY <1>1 DEF PlayedOn
  <1>4. Unspoiled <=> first..(length - 1) \cap Spoils = {}
    BY DEF Unspoiled
  <1> HIDE DEF first
  <1>5. first..(length' - 1) \cap Spoils' = {}
    BY <1>3 DEF Unspoiled
  <1>6. length \in first..(length' - 1) /\ \A x \in first..(length - 1) : x \in first..(length' - 1)
    BY <1>1, <1>2
  <1>7. Spoils \subseteq Spoils'
    BY ReplayKeepsTyped DEF Move
  <1> QED  BY <1>4, <1>5, <1>6, <1>7

LEMMA MoveFollowed ==
    ASSUME TableTyped, ReplayTyped, Begun, Follows, PlayedOn, NEW a, Move(a), Unspoiled'
    PROVE  /\ round \in RoundType /\ round.state = table
           /\ round.first = played[Last].first /\ round.decisions = played[Last].decisions
           /\ round.issues = {} /\ round.status = "open" /\ played[Last].status = "truncated"
           /\ round' = Applied(round, a)
  <1>1. length \notin Spoils' /\ Unspoiled
    BY MoveUnspoiled
  <1>2. ~ NotDecodable(a)
    BY <1>1 DEF NotDecodable, Move, Spoils
  <1>3. /\ round # NoRound /\ round.state = table
        /\ round.first = played[Last].first /\ round.decisions = played[Last].decisions
        /\ round.issues = {} /\ round.status = "open" /\ played[Last].status = "truncated"
    BY <1>1 DEF Follows, Move
  <1>4. ApplyToRound(a)
    BY <1>2, <1>3 DEF Replay, Move, NewRound, OutsideRound, FinishRound, InRound, Ends
  <1> QED  BY <1>3, <1>4 DEF ApplyToRound, ReplayTyped

LEMMA MoveKeepsRebuilt ==
    ASSUME TableTyped, ReplayTyped, AllRebuilt, PlayedOn, NEW a, Move(a)
    PROVE  AllRebuilt'
  <1>1. Last \in Nat /\ Spoils \subseteq Spoils' /\ rounds' = rounds
    BY LastPlayed, ReplayKeepsTyped, MoveRounds DEF Move
  <1>2. ASSUME NEW i \in 1..Last, Over(i)', ActionsOf(i)' \cap Spoils' = {} PROVE Rebuilt(i)'
    <2>1. i < Last
      BY <1>2 DEF Over, Move, PlayedOn
    <2>2. i \in 1..Last /\ i + 1 \in 1..Last /\ i < Last'
      BY <1>1, <2>1 DEF PlayedOn
    <2>3. ActionsOf(i) = ActionsOf(i)'
      BY <2>1, <2>2 DEF ActionsOf, PlayedOn
    <2>4. ActionsOf(i) \cap Spoils = {}
      BY <1>1, <1>2, <2>3
    <2>5. Rebuilt(i)
      BY <2>1, <2>4 DEF AllRebuilt, Over
    <2>6. played'[i] = played[i]
      BY <2>1 DEF PlayedOn
    <2> QED  BY <1>1, <2>5, <2>6 DEF Rebuilt
  <1> QED  BY <1>2 DEF AllRebuilt, PlayedOn

LEMMA MoveKeepsBegun ==
    ASSUME ReplayTyped, TableTyped, Begun, PlayedOn, NEW a, Move(a)
    PROVE  Begun'
  <1>1. length \in Nat /\ length' = length + 1 /\ Last \in Nat
    BY LastPlayed DEF ReplayTyped, Move, Replay
  <1>2. ASSUME NEW i \in 1..Last PROVE played'[i].first < length'
    <2>1. played[i].first < length /\ played[i].first \in Nat /\ played'[i].first = played[i].first
      BY LastPlayed DEF Begun, PlayedType, PlayedOn
    <2> QED  BY <1>1, <2>1
  <1> QED  BY <1>2 DEF Begun, PlayedOn

-----------------------------------------------------------------------------
(***************************************************************************)
(* A draw.                                                                 *)
(***************************************************************************)
SetDrawn(x, s, t, left, sticks, scores) ==
    [x EXCEPT !.hand[s][t] = @ + 1, !.last[s] = t, !.board.left = left,
              !.board.sticks = sticks, !.board.scores = scores]

DrawnFields(x, y, s, t, left, sticks, scores) ==
    /\ y \in StateType
    /\ y.hand = [x.hand EXCEPT ![s] = Put(@, t)]
    /\ y.last = [x.last EXCEPT ![s] = t]
    /\ y.board.left = left /\ y.board.sticks = sticks /\ y.board.scores = scores
    /\ y.board.riichi = x.board.riichi /\ y.board.rivers = x.board.rivers
    /\ y.board.melds = x.board.melds

LEMMA DrawnSet ==
    ASSUME NEW x \in StateType, NEW s \in Seats, NEW t \in Tiles, NEW left \in Int, NEW sticks \in Int,
           NEW scores \in [Seats -> Int], NEW y, y = SetDrawn(x, s, t, left, sticks, scores)
    PROVE  DrawnFields(x, y, s, t, left, sticks, scores)
  <1>2. y.hand = [x.hand EXCEPT ![s] = Put(@, t)]
    BY DEF StateType, Hands, SetDrawn, Put
  <1>3. y.last = [x.last EXCEPT ![s] = t]
    BY DEF StateType, SetDrawn
  <1>4. y.board.left = left /\ y.board.sticks = sticks /\ y.board.scores = scores
    BY DEF StateType, BoardType, SetDrawn
  <1>5. /\ y.board.riichi = x.board.riichi /\ y.board.rivers = x.board.rivers
        /\ y.board.melds = x.board.melds
    BY DEF StateType, BoardType, SetDrawn
  <1>6. y.hand \in Hands /\ y.last \in [Seats -> Tiles \cup {None}]
    <2>1. x.hand[s] \in [Tiles -> Nat] /\ x.hand \in Hands /\ x.last \in [Seats -> Tiles \cup {None}]
      BY StateFields
    <2>2. Put(x.hand[s], t) \in [Tiles -> Nat]
      BY <2>1, PutType
    <2> QED  BY <1>2, <1>3, <2>1, <2>2 DEF Hands
  <1>7. y.board \in BoardType
    BY DEF StateType, BoardType, SetDrawn
  <1>8. y = [hand |-> y.hand, last |-> y.last, board |-> y.board]
    BY DEF StateType, SetDrawn
  <1>9. y \in StateType
    <2> DEFINE h == y.hand
               l == y.last
               b == y.board
    <2>1. y = [hand |-> h, last |-> l, board |-> b] /\ h \in Hands /\ b \in BoardType
          /\ l \in [Seats -> Tiles \cup {None}]
      BY <1>6, <1>7, <1>8
    <2> HIDE DEF h, l, b
    <2> QED  BY <2>1 DEF StateType
  <1> QED  BY <1>2, <1>3, <1>4, <1>5, <1>9 DEF DrawnFields

Drawer == IF step = "claim" THEN (turn + 1) % Players ELSE turn
Accepted == IF declared = None THEN None
            ELSE [seat |-> declared, score |-> table.board.scores[declared] - 1,
                  sticks |-> table.board.sticks + 1]
NextSticks == IF declared = None THEN table.board.sticks ELSE table.board.sticks + 1
NextScores == IF declared = None THEN table.board.scores
              ELSE [table.board.scores EXCEPT ![declared] = @ - 1]
DrawAction(t) == [name |-> "DealTile", at |-> length, seat |-> Drawer, tile |-> t,
                  left |-> table.board.left - 1, liqi |-> Accepted]

LEMMA DrawFacts ==
    ASSUME TableTyped, ReplayTyped, NEW t \in Tiles, Draw(t)
    PROVE  /\ Drawer \in Seats /\ wall[t] > 0 /\ wall' = [wall EXCEPT ![t] = @ - 1]
           /\ table.board.left - 1 \in Int /\ NextSticks \in Int /\ NextScores \in [Seats -> Int]
           /\ DrawnFields(table, table', Drawer, t, table.board.left - 1, NextSticks, NextScores)
           /\ turn' = Drawer /\ step' = "act" /\ declared' = None /\ played' = played
           /\ Move(DrawAction(t)) /\ PlayedOn
  <1>1. /\ table \in StateType /\ table.board \in BoardType /\ turn \in Seats
        /\ declared \in Seats \cup {None}
    BY StateFields DEF TableTyped
  <1>2. Drawer \in Seats
    BY <1>1, SeatsAre DEF Drawer
  <1>3. table.board.left - 1 \in Int /\ NextSticks \in Int /\ NextScores \in [Seats -> Int]
    BY <1>1, BoardFields DEF NextSticks, NextScores
  <1>4. table' = SetDrawn(table, Drawer, t, table.board.left - 1, NextSticks, NextScores)
    BY DEF Draw, SetDrawn, Drawer, NextSticks, NextScores
  <1>5. DrawnFields(table, table', Drawer, t, table.board.left - 1, NextSticks, NextScores)
    BY <1>1, <1>2, <1>3, <1>4, DrawnSet
  <1>6. GoodAction(DrawAction(t)) /\ DrawAction(t).at = length /\ DrawAction(t).name \in InRound
    <2>1. ASSUME Accepted # None
          PROVE  Accepted.seat \in Seats /\ Accepted.score \in Int /\ Accepted.sticks \in Int
      BY <1>1, <2>1, BoardFields DEF Accepted
    <2> QED  BY <1>2, <1>3, <2>1 DEF GoodAction, DrawAction, InRound
  <1>7. Replay(DrawAction(t))
    BY DEF Draw, DrawAction, Drawer, Accepted
  <1>8. /\ turn' = Drawer /\ step' = "act" /\ declared' = None /\ played' = played
        /\ step \in {"claim", "replace"} /\ wall[t] > 0 /\ wall' = [wall EXCEPT ![t] = @ - 1]
        /\ mixed' = mixed
    BY DEF Draw, Drawer
  <1> QED  BY <1>2, <1>3, <1>5, <1>6, <1>7, <1>8 DEF Move, MixedStep, PlayedOn, Last

LEMMA DrawTyped ==
    ASSUME TableTyped, ReplayTyped, NEW t \in Tiles, Draw(t)
    PROVE  TableTyped'
  <1>1. wall' \in [Tiles -> Nat]
    <2>1. wall[t] - 1 \in Nat /\ wall \in [Tiles -> Nat]
      BY DrawFacts DEF TableTyped
    <2> QED  BY <2>1, DrawFacts
  <1> QED  BY <1>1, DrawFacts DEF TableTyped, DrawnFields, Steps, Last, Move

(* A step after which no seat can get more of a tile than before.           *)
NoMore == \A s \in Seats, u \in Tiles : table'.hand[s][u] + wall'[u] <= table.hand[s][u] + wall[u]

(* One tile goes from the wall to a hand.                                   *)
LEMMA DrawKeepsTiles ==
    ASSUME TableTyped, ReplayTyped, TilesKept, NEW t \in Tiles, Draw(t)
    PROVE  /\ TilesKept'
           /\ NoMore
  <1>1. /\ Drawer \in Seats /\ wall[t] > 0 /\ wall' = [wall EXCEPT ![t] = @ - 1]
        /\ table'.hand = [table.hand EXCEPT ![Drawer] = Put(@, t)]
        /\ table.hand \in Hands /\ wall \in [Tiles -> Nat] /\ Copies \in [Tiles -> Nat]
    <2>1. Copies \in [Tiles -> Nat]
      BY CopiesType
    <2>2. table.hand \in Hands /\ wall \in [Tiles -> Nat]
      BY StateFields DEF TableTyped
    <2>3. table'.hand = [table.hand EXCEPT ![Drawer] = Put(@, t)]
      BY DrawFacts DEF DrawnFields
    <2> QED  BY DrawFacts, <2>1, <2>2, <2>3
  <1>2. ASSUME NEW u \in Tiles
        PROVE  /\ wall[u] \in Nat /\ wall'[u] = IF u = t THEN wall[u] - 1 ELSE wall[u]
               /\ Copies[u] \in Nat
    BY <1>1
  <1>3. ASSUME NEW s \in Seats, NEW u \in Tiles
        PROVE  /\ table.hand[s][u] \in Nat
               /\ table'.hand[s][u] = IF s = Drawer /\ u = t THEN table.hand[s][u] + 1 ELSE table.hand[s][u]
    BY <1>1 DEF Hands, Put
  <1>4. ASSUME NEW u \in Tiles, NEW s \in Seats, NEW v \in Seats
        PROVE  /\ table'.hand[s][u] + wall'[u] <= Copies[u]
               /\ s # v => table'.hand[s][u] + table'.hand[v][u] + wall'[u] <= Copies[u]
    <2>1. /\ table.hand[s][u] + wall[u] <= Copies[u]
          /\ s # v => table.hand[s][u] + table.hand[v][u] + wall[u] <= Copies[u]
      BY DEF TilesKept
    <2>2. table.hand[s][u] \in Nat /\ table.hand[v][u] \in Nat /\ wall[u] \in Nat /\ Copies[u] \in Nat
      BY <1>2, <1>3
    <2>3. CASE u = t
      BY <1>2, <1>3, <2>1, <2>2, <2>3
    <2>4. CASE u # t
      BY <1>2, <1>3, <2>1, <2>2, <2>4
    <2> QED  BY <2>3, <2>4
  <1>5. ASSUME NEW s \in Seats, NEW u \in Tiles
        PROVE  table'.hand[s][u] + wall'[u] <= table.hand[s][u] + wall[u]
    BY <1>2, <1>3
  <1> QED  BY <1>4, <1>5 DEF TilesKept, NoMore

LEMMA DrawFollows ==
    ASSUME TableTyped, ReplayTyped, Begun, Follows, NEW t \in Tiles, Draw(t)
    PROVE  Follows'
  <1> SUFFICES ASSUME Unspoiled'
               PROVE  /\ round' # NoRound
                      /\ round'.first = played'[Last'].first /\ round'.state = table'
                      /\ round'.decisions = played'[Last'].decisions
                      /\ round'.issues = {} /\ round'.status = "open"
                      /\ played'[Last'].status = "truncated"
    BY DEF Follows
  <1> DEFINE a == DrawAction(t)
             s == Drawer
             c == [table.board EXCEPT !.left = table.board.left - 1]
             b == NoteLiqiSuccess(c, a)
  <1>1. /\ s \in Seats /\ Move(a) /\ PlayedOn /\ played' = played
        /\ DrawnFields(table, table', s, t, table.board.left - 1, NextSticks, NextScores)
    BY DrawFacts
  <1>2. /\ round \in RoundType /\ round.state = table
        /\ round.first = played[Last].first /\ round.decisions = played[Last].decisions
        /\ round.issues = {} /\ round.status = "open" /\ played[Last].status = "truncated"
        /\ round' = Applied(round, a)
    BY <1>1, MoveFollowed
  <1>3. /\ a.name = "DealTile" /\ a.seat = s /\ a.tile = t /\ a.left = table.board.left - 1
        /\ a.liqi = Accepted /\ a.at = length /\ length \in Nat
    BY DEF DrawAction, ReplayTyped
  <1>4. GoodAction(a)
    BY <1>1 DEF Move
  <1> HIDE DEF a
  <1>5. round' = AfterDeal(round, a)
    BY <1>2, <1>3 DEF Applied
  <1>6. /\ Advances(round, round', a.at) /\ round'.issues = round.issues
        /\ round'.decisions = round.decisions
        /\ round'.state.hand = [table.hand EXCEPT ![s] = Put(@, t)]
        /\ round'.state.last = [table.last EXCEPT ![s] = t]
        /\ round'.state.board = b
    BY <1>2, <1>3, <1>4, <1>5, ReplayedDeal DEF GoodAction
  <1>7. table \in StateType /\ table' \in StateType /\ table.board \in BoardType /\ table'.board \in BoardType
    BY <1>1, StateFields DEF TableTyped, DrawnFields
  <1>8. /\ c \in BoardType /\ c.left = table.board.left - 1
        /\ c.scores = table.board.scores /\ c.sticks = table.board.sticks
        /\ c.riichi = table.board.riichi /\ c.rivers = table.board.rivers /\ c.melds = table.board.melds
    <2>1. table.board.left - 1 \in Int
      BY DrawFacts
    <2> QED  BY <1>7, <2>1 DEF BoardType
  <1> HIDE DEF c
  <1>9. /\ b \in BoardType /\ b.left = c.left /\ b.riichi = c.riichi
        /\ b.rivers = c.rivers /\ b.melds = c.melds
        /\ a.liqi = None => b = c
        /\ a.liqi # None => /\ b.scores = [c.scores EXCEPT ![a.liqi.seat] = a.liqi.score]
                            /\ b.sticks = a.liqi.sticks
    BY <1>3, <1>4, <1>8, AccountType DEF GoodAction
  <1> HIDE DEF b
  <1>10. b.scores = NextScores /\ b.sticks = NextSticks
    <2>1. CASE declared = None
      BY <1>3, <1>8, <1>9, <2>1 DEF Accepted, NextScores, NextSticks
    <2>2. CASE declared # None
      <3>1. declared \in Seats
        BY <2>2 DEF TableTyped
      <3>2. table.board.scores \in [Seats -> Int] /\ table.board.sticks \in Int
        BY <1>7, BoardFields
      <3>3. Accepted = [seat |-> declared, score |-> table.board.scores[declared] - 1,
                        sticks |-> table.board.sticks + 1]
        BY <2>2 DEF Accepted
      <3>4. Accepted \in [seat : Seats, score : Int, sticks : Int]
        BY <3>1, <3>2, <3>3
      <3>5. Accepted # None
        BY <3>4, TableAssumption
      <3> QED  BY <1>3, <1>8, <1>9, <2>2, <3>3, <3>5 DEF NextScores, NextSticks
    <2> QED  BY <2>1, <2>2
  <1>11. b = table'.board
    BY <1>1, <1>7, <1>8, <1>9, <1>10, SameBoard DEF DrawnFields
  <1>12. round'.state \in StateType
    BY <1>6, RoundFields DEF Advances
  <1>13. round'.state = table'
    BY <1>1, <1>6, <1>7, <1>11, <1>12, SameState DEF DrawnFields
  <1> QED  BY <1>1, <1>2, <1>6, <1>13, RoundFields DEF Advances, PlayedOn

LEMMA HeldIsNat ==
    ASSUME TableTyped
    PROVE  \A s \in Seats, u \in Tiles :
                table.hand[s][u] \in Nat /\ wall[u] \in Nat /\ Copies[u] \in Nat
  <1>1. table.hand \in Hands /\ wall \in [Tiles -> Nat] /\ Copies \in [Tiles -> Nat]
    BY StateFields, CopiesType DEF TableTyped
  <1> QED  BY <1>1 DEF Hands

LEMMA NextHeldIsNat ==
    ASSUME TableTyped'
    PROVE  \A s \in Seats, u \in Tiles : table'.hand[s][u] \in Nat /\ wall'[u] \in Nat
  <1>1. table'.hand \in Hands /\ wall' \in [Tiles -> Nat]
    BY StateFields DEF TableTyped
  <1> QED  BY <1>1 DEF Hands

LEMMA PonsStay ==
    ASSUME TableTyped, TableTyped', PonsSeen, NoMore,
           NEW s \in Seats, NEW i \in DOMAIN table.board.melds[s], Len(table.board.melds[s][i]) = 3
    PROVE  PonOf(table.board.melds[s][i], table'.hand[s], wall')
  <1> DEFINE meld == table.board.melds[s][i]
  <1>1. PonOf(meld, table.hand[s], wall)
    BY DEF PonsSeen
  <1> HIDE DEF meld
  <1>2. ASSUME NEW u \in Tiles
        PROVE  table'.hand[s][u] + wall'[u] + Counted(meld, 3, u) <= Copies[u]
    <2>1. table.hand[s][u] + wall[u] + Counted(meld, 3, u) <= Copies[u]
      BY <1>1 DEF PonOf
    <2>2. table.hand[s][u] \in Nat /\ wall[u] \in Nat /\ Copies[u] \in Nat
      BY HeldIsNat
    <2>3. table'.hand[s][u] \in Nat /\ wall'[u] \in Nat
      BY NextHeldIsNat
    <2>4. table'.hand[s][u] + wall'[u] <= table.hand[s][u] + wall[u]
      BY Zenon DEF NoMore
    <2>5. Counted(meld, 3, u) \in Nat
      BY CountedType
    <2> QED  BY <2>1, <2>2, <2>3, <2>4, <2>5
  <1> QED  BY <1>1, <1>2 DEF PonOf, meld

LEMMA DrawKeepsInv ==
    ASSUME RoundsInv, NEW t \in Tiles, Draw(t)
    PROVE  RoundsInv'
  <1>1. TableTyped /\ ReplayTyped /\ Begun /\ TilesKept /\ PonsSeen /\ Follows /\ AllRebuilt
    BY DEF RoundsInv, TilesInv
  <1>2. Move(DrawAction(t)) /\ PlayedOn /\ step' = "act"
    BY <1>1, DrawFacts
  <1>3. TableTyped' /\ TilesKept' /\ Follows'
    BY <1>1, DrawTyped, DrawKeepsTiles, DrawFollows
  <1>4. ReplayTyped' /\ Begun' /\ AllRebuilt'
    BY <1>1, <1>2, ReplayKeepsTyped, MoveKeepsBegun, MoveKeepsRebuilt DEF Move
  <1>5. DiscardSeen'
    BY <1>2 DEF DiscardSeen
  <1>6. PonsSeen'
    <2>1. table'.board.melds = table.board.melds
      BY <1>1, DrawFacts DEF DrawnFields
    <2>2. NoMore
      BY <1>1, DrawKeepsTiles
    <2> QED  BY <1>1, <1>3, <2>1, <2>2, PonsStay DEF PonsSeen
  <1> QED  BY <1>3, <1>4, <1>5, <1>6 DEF RoundsInv, TilesInv

-----------------------------------------------------------------------------
(***************************************************************************)
(* A discard.                                                              *)
(***************************************************************************)
Fewer == wall' = wall /\ \A s \in Seats, u \in Tiles : table'.hand[s][u] <= table.hand[s][u]

LEMMA FewerKept ==
    ASSUME TableTyped, TableTyped', TilesKept, Fewer
    PROVE  TilesKept' /\ NoMore
  <1>1. \A s \in Seats, u \in Tiles :
            table'.hand[s][u] \in Nat /\ wall'[u] \in Nat /\ Copies[u] \in Nat
    <2>1. table'.hand \in Hands /\ wall' \in [Tiles -> Nat] /\ Copies \in [Tiles -> Nat]
      BY StateFields, CopiesType DEF TableTyped
    <2> QED  BY <2>1 DEF Hands
  <1>2. ASSUME NEW u \in Tiles, NEW s \in Seats, NEW v \in Seats
        PROVE  /\ table'.hand[s][u] + wall'[u] <= Copies[u]
               /\ s # v => table'.hand[s][u] + table'.hand[v][u] + wall'[u] <= Copies[u]
    <2>1. /\ table.hand[s][u] + wall[u] <= Copies[u]
          /\ s # v => table.hand[s][u] + table.hand[v][u] + wall[u] <= Copies[u]
      BY DEF TilesKept
    <2>2. /\ table.hand[s][u] \in Nat /\ table.hand[v][u] \in Nat /\ wall[u] \in Nat
          /\ table'.hand[s][u] \in Nat /\ table'.hand[v][u] \in Nat /\ Copies[u] \in Nat
      BY <1>1, HeldIsNat
    <2>3. /\ table'.hand[s][u] <= table.hand[s][u] /\ table'.hand[v][u] <= table.hand[v][u]
          /\ wall'[u] = wall[u]
      BY DEF Fewer
    <2> QED  BY <2>1, <2>2, <2>3
  <1>3. ASSUME NEW u \in Tiles, NEW s \in Seats
        PROVE  table'.hand[s][u] + wall'[u] <= table.hand[s][u] + wall[u]
    <2>1. /\ table.hand[s][u] \in Nat /\ wall[u] \in Nat /\ table'.hand[s][u] \in Nat
      BY <1>1, HeldIsNat
    <2>2. table'.hand[s][u] <= table.hand[s][u] /\ wall'[u] = wall[u]
      BY DEF Fewer
    <2> QED  BY <2>1, <2>2
  <1> QED  BY <1>2, <1>3 DEF TilesKept, NoMore

SetOut(x, s, t, river, riichi) ==
    [x EXCEPT !.hand[s][t] = @ - 1, !.last[s] = None, !.board.rivers[s] = river,
              !.board.riichi[s] = riichi]

OutFields(x, y, s, t, river, riichi) ==
    /\ y \in StateType
    /\ y.hand = [x.hand EXCEPT ![s] = RemoveTile(@, t, 1)]
    /\ y.last = [x.last EXCEPT ![s] = None]
    /\ y.board.rivers = [x.board.rivers EXCEPT ![s] = river]
    /\ y.board.riichi = [x.board.riichi EXCEPT ![s] = riichi]
    /\ y.board.left = x.board.left /\ y.board.sticks = x.board.sticks
    /\ y.board.scores = x.board.scores /\ y.board.melds = x.board.melds

LEMMA MadeOfFields ==
    ASSUME NEW y, NEW h \in Hands, NEW l \in [Seats -> Tiles \cup {None}], NEW b \in BoardType,
           y = [hand |-> h, last |-> l, board |-> b]
    PROVE  y \in StateType
  BY DEF StateType

LEMMA OutSet ==
    ASSUME NEW x \in StateType, NEW s \in Seats, NEW t \in Tiles, x.hand[s][t] > 0,
           NEW river \in Seq(Tiles), NEW riichi \in BOOLEAN,
           NEW y, y = SetOut(x, s, t, river, riichi)
    PROVE  OutFields(x, y, s, t, river, riichi)
  <1>1. y.hand = [x.hand EXCEPT ![s] = RemoveTile(@, t, 1)]
    BY DEF StateType, Hands, SetOut, RemoveTile
  <1>2. y.last = [x.last EXCEPT ![s] = None]
    BY DEF StateType, SetOut
  <1>3. y.board.rivers = [x.board.rivers EXCEPT ![s] = river]
    BY DEF StateType, BoardType, SetOut
  <1>4. y.board.riichi = [x.board.riichi EXCEPT ![s] = riichi]
    BY DEF StateType, BoardType, SetOut
  <1>5. /\ y.board.left = x.board.left /\ y.board.sticks = x.board.sticks
        /\ y.board.scores = x.board.scores /\ y.board.melds = x.board.melds
    BY DEF StateType, BoardType, SetOut
  <1>6. y.board \in BoardType
    BY DEF StateType, BoardType, SetOut
  <1>7. y.hand \in Hands /\ y.last \in [Seats -> Tiles \cup {None}]
    <2>1. x.hand[s] \in [Tiles -> Nat] /\ x.hand \in Hands /\ x.last \in [Seats -> Tiles \cup {None}]
      BY StateFields
    <2>2. x.hand[s][t] >= 1
      BY <2>1
    <2>3. RemoveTile(x.hand[s], t, 1) \in [Tiles -> Nat]
      BY <2>1, <2>2, RemoveType
    <2> QED  BY <1>1, <1>2, <2>1, <2>3 DEF Hands
  <1>8. y = [hand |-> y.hand, last |-> y.last, board |-> y.board]
    BY DEF StateType, SetOut
  <1>9. y \in StateType
    BY <1>6, <1>7, <1>8, MadeOfFields
  <1> QED  BY <1>1, <1>2, <1>3, <1>4, <1>5, <1>9 DEF OutFields

DiscardAction(t, riichi) ==
    [name |-> "DiscardTile", at |-> length, seat |-> turn, tile |-> t, riichi |-> riichi]
NewRiver(t) == Append(River(turn), t)
TheDecision(t, riichi) ==
    Decision(table, length, turn, TurnNo(played[Last].decisions, turn), t, riichi)

DiscardWith(t, riichi) ==
    /\ Discard(t) /\ riichi \in BOOLEAN
    /\ step \in {"act", "discard"} /\ table.hand[turn][t] > 0
    /\ table' = SetOut(table, turn, t, NewRiver(t), table.board.riichi[turn] \/ riichi)
    /\ step' = "claim" /\ wall' = wall /\ turn' = turn /\ mixed' = mixed
    /\ declared' = IF riichi THEN turn ELSE declared
    /\ played' = [played EXCEPT ![Last].decisions = Append(@, TheDecision(t, riichi))]
    /\ Replay(DiscardAction(t, riichi))

LEMMA DiscardPicked ==
    ASSUME NEW t \in Tiles, Discard(t)
    PROVE  \E riichi \in BOOLEAN : DiscardWith(t, riichi)
  <1>1. PICK riichi \in BOOLEAN :
            /\ step \in {"act", "discard"} /\ table.hand[turn][t] > 0
            /\ table' = [table EXCEPT
                   !.hand[turn][t] = @ - 1, !.last[turn] = None,
                   !.board.rivers[turn] = Append(@, t), !.board.riichi[turn] = @ \/ riichi]
            /\ declared' = IF riichi THEN turn ELSE declared
            /\ step' = "claim"
            /\ played' = [played EXCEPT ![Last].decisions =
                    Append(@, Decision(table, length, turn, TurnNo(@, turn), t, riichi))]
            /\ UNCHANGED <<wall, turn, mixed>>
            /\ Replay(DiscardAction(t, riichi))
    BY DEF Discard, DiscardAction
  <1>2. table' = SetOut(table, turn, t, NewRiver(t), table.board.riichi[turn] \/ riichi)
    BY <1>1 DEF SetOut, NewRiver, River
  <1>3. played' = [played EXCEPT ![Last].decisions = Append(@, TheDecision(t, riichi))]
    BY <1>1 DEF TheDecision
  <1> QED  BY <1>1, <1>2, <1>3 DEF DiscardWith

LEMMA DiscardFacts ==
    ASSUME TableTyped, ReplayTyped, NEW t \in Tiles, NEW riichi, DiscardWith(t, riichi)
    PROVE  /\ NewRiver(t) \in Seq(Tiles)
           /\ OutFields(table, table', turn, t, NewRiver(t), table.board.riichi[turn] \/ riichi)
           /\ Move(DiscardAction(t, riichi)) /\ PlayedOn
           /\ played' \in Seq(PlayedType) /\ Last \in 1..Last
           /\ played'[Last].decisions = Append(played[Last].decisions, TheDecision(t, riichi))
           /\ played'[Last].status = played[Last].status
           /\ TableTyped'
  <1>1. /\ table \in StateType /\ table.board \in BoardType /\ turn \in Seats /\ length \in Nat
        /\ riichi \in BOOLEAN /\ declared \in Seats \cup {None}
        /\ step \in {"act", "discard"} /\ step' = "claim"
    BY StateFields DEF TableTyped, ReplayTyped, DiscardWith
  <1>2. NewRiver(t) \in Seq(Tiles) /\ (table.board.riichi[turn] \/ riichi) \in BOOLEAN
    <2>1. River(turn) \in Seq(Tiles) /\ table.board.riichi[turn] \in BOOLEAN
      BY <1>1, BoardFields DEF River
    <2> QED  BY <1>1, <2>1 DEF NewRiver
  <1>3. OutFields(table, table', turn, t, NewRiver(t), table.board.riichi[turn] \/ riichi)
    BY <1>1, <1>2, OutSet DEF DiscardWith
  <1>4. /\ GoodAction(DiscardAction(t, riichi)) /\ DiscardAction(t, riichi).at = length
        /\ DiscardAction(t, riichi).name \in InRound
    BY <1>1 DEF GoodAction, DiscardAction, InRound
  <1>5. Move(DiscardAction(t, riichi))
    BY <1>1, <1>4 DEF Move, MixedStep, DiscardWith
  <1> DEFINE d == TheDecision(t, riichi)
             p == played[Last]
             ds == Append(p.decisions, d)
             q == [p EXCEPT !.decisions = ds]
  <1>6. Last \in 1..Last /\ p \in PlayedType /\ played \in Seq(PlayedType) /\ Last = Len(played)
    BY <1>1, LastPlayed DEF TableTyped, Last
  <1>7. p.decisions \in Seq(DecisionType)
    BY <1>6 DEF PlayedType
  <1>8. d \in DecisionType
    BY <1>1, <1>7, TurnNoType, DecisionIsTyped DEF TheDecision
  <1>9. ds \in Seq(DecisionType)
    BY <1>7, <1>8
  <1>10. played' = [played EXCEPT ![Last].decisions = ds]
    BY DEF DiscardWith
  <1> HIDE DEF d, ds
  <1>11. q \in PlayedType /\ q.first = p.first /\ q.status = p.status /\ q.decisions = ds
    BY <1>6, <1>9 DEF PlayedType
  <1>12. played' = [played EXCEPT ![Last] = q]
    BY <1>10
  <1> HIDE DEF q
  <1>13. /\ played' \in Seq(PlayedType) /\ Len(played') = Len(played)
         /\ \A i \in 1..Len(played) : played'[i] = IF i = Last THEN q ELSE played[i]
    <2> HIDE DEF Last
    <2>1. Last \in 1..Len(played)
      BY <1>6
    <2> QED  BY <1>6, <1>11, <1>12, <2>1
  <1>14. Last' = Last
    BY <1>13 DEF Last
  <1>15. PlayedOn /\ played'[Last] = q
    BY <1>6, <1>11, <1>13, <1>14 DEF PlayedOn
  <1>16. TableTyped'
    <2>1. declared' \in Seats \cup {None}
      BY <1>1 DEF DiscardWith
    <2>2. turn' = turn /\ wall' = wall /\ step' = "claim"
      BY DEF DiscardWith
    <2>3. table' \in StateType
      BY <1>3 DEF OutFields
    <2>4. Last' > 0
      BY <1>6, <1>14
    <2>5. table'.board.rivers[turn'] # << >>
      <3>1. table.board.rivers \in [Seats -> Seq(Tiles)]
        BY <1>1, BoardFields
      <3>2. table'.board.rivers[turn] = Append(River(turn), t) /\ River(turn) \in Seq(Tiles)
        BY <1>1, <1>3, <3>1 DEF OutFields, NewRiver, River
      <3> QED  BY <2>2, <3>2
    <2> QED  BY <1>1, <1>13, <2>1, <2>2, <2>3, <2>4, <2>5 DEF TableTyped, Steps
  <1> QED  BY <1>2, <1>3, <1>5, <1>6, <1>11, <1>13, <1>15, <1>16 DEF ds, d

LEMMA DiscardTakesOne ==
    ASSUME TableTyped, ReplayTyped, NEW t \in Tiles, NEW riichi, DiscardWith(t, riichi)
    PROVE  /\ Fewer /\ table'.hand[turn][t] = table.hand[turn][t] - 1
           /\ \A s \in Seats \ {turn}, u \in Tiles : table'.hand[s][u] = table.hand[s][u]
  <1>1. table'.hand = [table.hand EXCEPT ![turn] = RemoveTile(@, t, 1)] /\ wall' = wall
        /\ turn \in Seats /\ table.hand \in Hands
    BY DiscardFacts, StateFields DEF OutFields, DiscardWith, TableTyped
  <1>2. ASSUME NEW s \in Seats, NEW u \in Tiles
        PROVE  /\ table.hand[s][u] \in Nat
               /\ table'.hand[s][u] = IF s = turn /\ u = t THEN table.hand[s][u] - 1 ELSE table.hand[s][u]
    BY <1>1 DEF Hands, RemoveTile
  <1> QED  BY <1>1, <1>2 DEF Fewer

LEMMA DiscardFollows ==
    ASSUME TableTyped, ReplayTyped, Begun, Follows, NEW t \in Tiles, NEW riichi, DiscardWith(t, riichi)
    PROVE  Follows'
  <1> SUFFICES ASSUME Unspoiled'
               PROVE  /\ round' # NoRound
                      /\ round'.first = played'[Last'].first /\ round'.state = table'
                      /\ round'.decisions = played'[Last'].decisions
                      /\ round'.issues = {} /\ round'.status = "open"
                      /\ played'[Last'].status = "truncated"
    BY DEF Follows
  <1> DEFINE a == DiscardAction(t, riichi)
             river == NewRiver(t)
             inRiichi == table.board.riichi[turn] \/ riichi
  <1>1. /\ Move(a) /\ PlayedOn /\ Last \in 1..Last
        /\ OutFields(table, table', turn, t, river, inRiichi)
        /\ played'[Last].decisions = Append(played[Last].decisions, TheDecision(t, riichi))
        /\ played'[Last].status = played[Last].status
    BY DiscardFacts
  <1>2. /\ round \in RoundType /\ round.state = table
        /\ round.first = played[Last].first /\ round.decisions = played[Last].decisions
        /\ round.issues = {} /\ round.status = "open" /\ played[Last].status = "truncated"
        /\ round' = Applied(round, a)
    BY <1>1, MoveFollowed
  <1>3. /\ a.name = "DiscardTile" /\ a.seat = turn /\ a.tile = t /\ a.riichi = riichi
        /\ a.at = length /\ length \in Nat
    BY DEF DiscardAction, ReplayTyped
  <1>4. GoodAction(a)
    BY <1>1 DEF Move
  <1> HIDE DEF a
  <1>5. round' = AfterDiscard(round, a)
    BY <1>2, <1>3 DEF Applied
  <1>6. ~ Missing(round, a)
    BY <1>2, <1>3, HeldIsNat DEF Missing, DiscardWith, TableTyped
  <1>7. Advances(round, round', a.at)
    BY <1>2, <1>3, <1>4, <1>5, ReplayedDiscard DEF GoodAction
  <1>8. PlayedOut(round, round', a)
    BY <1>2, <1>3, <1>4, <1>5, <1>6, ReplayedDiscard DEF GoodAction
  <1>9. round'.decisions = played'[Last].decisions
    BY <1>1, <1>2, <1>3, <1>8 DEF TheDecision, PlayedOut
  <1>10. /\ round'.state \in StateType /\ table' \in StateType
         /\ round'.state.board \in BoardType /\ table'.board \in BoardType
    BY <1>1, <1>7, RoundFields, StateFields DEF Advances, OutFields
  <1>11. /\ round'.state.hand = table'.hand /\ round'.state.last = table'.last
         /\ round'.state.board.rivers = table'.board.rivers
         /\ round'.state.board.riichi = table'.board.riichi
    BY <1>1, <1>2, <1>3, <1>8 DEF OutFields, NewRiver, River, PlayedOut
  <1>12. /\ round'.state.board.scores = table'.board.scores
         /\ round'.state.board.sticks = table'.board.sticks
         /\ round'.state.board.left = table'.board.left
         /\ round'.state.board.melds = table'.board.melds
    BY <1>1, <1>2, <1>8 DEF OutFields, PlayedOut
  <1>13. round'.state.board = table'.board
    BY <1>10, <1>11, <1>12, SameBoard
  <1>14. round'.state = table'
    BY <1>10, <1>11, <1>13, SameState
  <1> QED  BY <1>1, <1>2, <1>7, <1>8, <1>9, <1>14, RoundFields DEF Advances, PlayedOn, PlayedOut

LEMMA DiscardKeepsTyped ==
    ASSUME TilesInv, NEW t \in Tiles, Discard(t)
    PROVE  TilesInv' /\ NoMore
  <1>1. PICK riichi \in BOOLEAN : DiscardWith(t, riichi)
    BY DiscardPicked
  <1>2. /\ TableTyped' /\ Fewer /\ Move(DiscardAction(t, riichi)) /\ PlayedOn
    BY <1>1, DiscardFacts, DiscardTakesOne DEF TilesInv
  <1> QED  BY <1>2, FewerKept, ReplayKeepsTyped, MoveKeepsBegun DEF TilesInv, Move

(* The tile that may be claimed is the one of the river, and it is one of   *)
(* the tiles the other hands and the wall do not have.                      *)
LEMMA DiscardKeepsInv ==
    ASSUME RoundsInv, NEW t \in Tiles, Discard(t)
    PROVE  RoundsInv'
  <1>1. TableTyped /\ ReplayTyped /\ Begun /\ TilesKept /\ PonsSeen /\ Follows /\ AllRebuilt
    BY DEF RoundsInv, TilesInv
  <1>2. PICK riichi \in BOOLEAN : DiscardWith(t, riichi)
    BY DiscardPicked
  <1>3. TilesInv' /\ NoMore /\ TableTyped'
    BY DiscardKeepsTyped DEF RoundsInv, TilesInv
  <1>4. Follows'
    BY <1>1, <1>2, DiscardFollows
  <1>5. AllRebuilt'
    BY <1>1, <1>2, DiscardFacts, MoveKeepsRebuilt
  <1>6. PonsSeen'
    <2>1. table'.board.melds = table.board.melds
      BY <1>1, <1>2, DiscardFacts DEF OutFields
    <2> QED  BY <1>1, <1>3, <2>1, PonsStay DEF PonsSeen
  <1>7. DiscardSeen'
    <2>1. turn \in Seats /\ turn' = turn /\ wall' = wall /\ NewRiver(t) = Append(River(turn), t)
          /\ River(turn) \in Seq(Tiles)
      BY <1>1, <1>2, StateFields, BoardFields DEF TableTyped, DiscardWith, NewRiver, River
    <2>2. River(turn)' = NewRiver(t)
      <3>1. table.board.rivers \in [Seats -> Seq(Tiles)]
        BY <1>1, StateFields, BoardFields DEF TableTyped
      <3> QED  BY <1>1, <1>2, <2>1, <3>1, DiscardFacts DEF OutFields, River
    <2>3. River(turn)' # << >> /\ River(turn)'[Len(River(turn)')] = t
      BY <2>1, <2>2
    <2>4. ASSUME NEW s \in Seats \ {turn} PROVE table'.hand[s][t] + wall'[t] <= Copies[t] - 1
      <3>1. table.hand[turn][t] >= 1
        BY <1>1, <1>2, <2>1, HeldIsNat DEF DiscardWith
      <3>2. table.hand[s][t] + table.hand[turn][t] + wall[t] <= Copies[t]
        BY <1>1, <2>1 DEF TilesKept
      <3>3. table'.hand[s][t] = table.hand[s][t]
        BY <1>1, <1>2, DiscardTakesOne
      <3>4. /\ table.hand[s][t] \in Nat /\ table.hand[turn][t] \in Nat /\ wall[t] \in Nat
            /\ Copies[t] \in Nat
        BY <1>1, <2>1, HeldIsNat
      <3> QED  BY SMTT(30), <2>1, <3>1, <3>2, <3>3, <3>4
    <2> QED  BY <2>1, <2>3, <2>4 DEF DiscardSeen
  <1> QED  BY <1>3, <1>4, <1>5, <1>6, <1>7 DEF RoundsInv

-----------------------------------------------------------------------------
(***************************************************************************)
(* Calls and kans.                                                         *)
(***************************************************************************)
MeldFields(x, y, s, h, l, meld) ==
    /\ y \in StateType
    /\ y.hand = [x.hand EXCEPT ![s] = h]
    /\ y.last = l
    /\ y.board.melds = [x.board.melds EXCEPT ![s] = Append(@, meld)]
    /\ y.board.left = x.board.left /\ y.board.sticks = x.board.sticks
    /\ y.board.scores = x.board.scores /\ y.board.rivers = x.board.rivers
    /\ y.board.riichi = x.board.riichi

MeldMove(s, h, l, meld, a) ==
    /\ s \in Seats /\ h \in [Tiles -> Nat] /\ meld \in Seq(Tiles)
    /\ \A u \in Tiles : h[u] <= table.hand[s][u]
    /\ MeldFields(table, table', s, h, l, meld)
    /\ wall' = wall /\ declared' = declared /\ played' = played
    /\ turn' \in Seats /\ step' \in {"discard", "replace"}
    /\ Move(a)

(* The replay of the action, from the same state, has the same effect.      *)
SameEffect(s, h, l, meld, a) ==
    \A r \in RoundType : r.state = table =>
        /\ Advances(r, Applied(r, a), a.at)
        /\ Applied(r, a).issues = r.issues /\ Applied(r, a).decisions = r.decisions
        /\ MeldFields(table, Applied(r, a).state, s, h, l, meld)

LEMMA SameMeld ==
    ASSUME NEW x, NEW y, NEW z, NEW s, NEW h, NEW l, NEW meld,
           MeldFields(x, y, s, h, l, meld), MeldFields(x, z, s, h, l, meld)
    PROVE  y = z
  <1>1. y \in StateType /\ z \in StateType /\ y.board \in BoardType /\ z.board \in BoardType
    BY StateFields DEF MeldFields
  <1>2. y.board = z.board
    BY <1>1, SameBoard DEF MeldFields
  <1> QED  BY <1>1, <1>2, SameState DEF MeldFields

LEMMA MeldTakes ==
    ASSUME TableTyped, NEW s, NEW h, NEW l, NEW meld, NEW a, MeldMove(s, h, l, meld, a)
    PROVE  /\ Fewer /\ \A u \in Tiles : table'.hand[s][u] = h[u]
           /\ table.board.melds \in [Seats -> Seq(Seq(Tiles))]
           /\ \A v \in Seats :
                table'.board.melds[v] = IF v = s THEN Append(table.board.melds[s], meld)
                                        ELSE table.board.melds[v]
  <1>1. /\ table'.hand = [table.hand EXCEPT ![s] = h] /\ table.hand \in Hands /\ s \in Seats
        /\ \A u \in Tiles : h[u] <= table.hand[s][u]
    BY StateFields DEF MeldMove, MeldFields, TableTyped
  <1>2. ASSUME NEW v \in Seats, NEW u \in Tiles
        PROVE  table'.hand[v][u] = IF v = s THEN h[u] ELSE table.hand[v][u]
    BY <1>1 DEF Hands
  <1>3. ASSUME NEW v \in Seats, NEW u \in Tiles PROVE table'.hand[v][u] <= table.hand[v][u]
    <2>1. table.hand[v][u] \in Nat
      BY HeldIsNat
    <2> QED  BY <1>1, <1>2, <2>1
  <1>4. table.board.melds \in [Seats -> Seq(Seq(Tiles))]
    BY StateFields, BoardFields DEF TableTyped
  <1>5. table'.board.melds = [table.board.melds EXCEPT ![s] = Append(@, meld)]
    BY DEF MeldMove, MeldFields
  <1> QED  BY <1>1, <1>2, <1>3, <1>4, <1>5 DEF Fewer, MeldMove

LEMMA MeldKeepsTyped ==
    ASSUME TilesInv, NEW s, NEW h, NEW l, NEW meld, NEW a, MeldMove(s, h, l, meld, a)
    PROVE  TilesInv' /\ NoMore /\ PlayedOn
  <1>1. TableTyped /\ ReplayTyped /\ Begun /\ TilesKept
    BY DEF TilesInv
  <1>2. PlayedOn
    BY DEF MeldMove, PlayedOn, Last
  <1>3. TableTyped'
    <2>1. Last' > 0
      BY <1>1 DEF MeldMove, Move, TableTyped, Last
    <2>2. table' \in StateType
      BY DEF MeldMove, MeldFields
    <2> QED  BY <1>1, <2>1, <2>2 DEF TableTyped, MeldMove, Steps
  <1>4. TilesKept' /\ NoMore
    BY <1>1, <1>3, MeldTakes, FewerKept
  <1>5. ReplayTyped' /\ Begun'
    BY <1>1, <1>2, ReplayKeepsTyped, MoveKeepsBegun DEF MeldMove, Move
  <1> QED  BY <1>2, <1>3, <1>4, <1>5 DEF TilesInv

LEMMA MeldKeepsInv ==
    ASSUME RoundsInv, NEW s, NEW h, NEW l, NEW meld, NEW a, MeldMove(s, h, l, meld, a),
           Unspoiled' => SameEffect(s, h, l, meld, a),
           Len(meld) = 3 => PonOf(meld, h, wall)
    PROVE  RoundsInv'
  <1>1. TilesInv /\ TableTyped /\ ReplayTyped /\ Begun /\ TilesKept /\ PonsSeen /\ Follows /\ AllRebuilt
    BY DEF RoundsInv, TilesInv
  <1>2. TilesInv' /\ NoMore /\ TableTyped' /\ PlayedOn
    BY <1>1, MeldKeepsTyped DEF TilesInv
  <1>3. Move(a) /\ played' = played /\ s \in Seats /\ wall' = wall /\ meld \in Seq(Tiles)
    BY DEF MeldMove
  <1>4. AllRebuilt'
    BY <1>1, <1>2, <1>3, MoveKeepsRebuilt
  <1>5. DiscardSeen'
    BY DEF DiscardSeen, MeldMove
  <1>6. PonsSeen'
    <2> SUFFICES ASSUME NEW v \in Seats, NEW i \in DOMAIN table'.board.melds[v],
                        Len(table'.board.melds[v][i]) = 3
                 PROVE  PonOf(table'.board.melds[v][i], table'.hand[v], wall')
      BY DEF PonsSeen
    <2> DEFINE old == table.board.melds[v]
    <2>1. /\ old \in Seq(Seq(Tiles)) /\ \A u \in Tiles : table'.hand[s][u] = h[u]
          /\ table'.board.melds[v] = IF v = s THEN Append(old, meld) ELSE old
      BY <1>1, MeldTakes
    <2>2. CASE i \in DOMAIN old
      <3>1. table'.board.melds[v][i] = old[i]
        BY <2>1, <2>2
      <3> QED  BY <1>1, <1>2, <2>2, <3>1, PonsStay
    <2>3. CASE i \notin DOMAIN old
      <3>1. v = s /\ table'.board.melds[v][i] = meld
        BY <1>3, <2>1, <2>3
      <3>2. PonOf(meld, h, wall)
        BY <3>1
      <3> QED  BY <1>3, <2>1, <3>1, <3>2 DEF PonOf
    <2> QED  BY <2>2, <2>3
  <1>7. Follows'
    <2> SUFFICES ASSUME Unspoiled'
                 PROVE  /\ round' # NoRound
                        /\ round'.first = played'[Last'].first /\ round'.state = table'
                        /\ round'.decisions = played'[Last'].decisions
                        /\ round'.issues = {} /\ round'.status = "open"
                        /\ played'[Last'].status = "truncated"
      BY DEF Follows
    <2>1. /\ round \in RoundType /\ round.state = table
          /\ round.first = played[Last].first /\ round.decisions = played[Last].decisions
          /\ round.issues = {} /\ round.status = "open" /\ played[Last].status = "truncated"
          /\ round' = Applied(round, a)
      BY <1>1, <1>2, <1>3, MoveFollowed
    <2>2. /\ Advances(round, round', a.at)
          /\ round'.issues = round.issues /\ round'.decisions = round.decisions
          /\ MeldFields(table, round'.state, s, h, l, meld)
      BY <2>1 DEF SameEffect
    <2>3. round'.state = table'
      BY <2>2, SameMeld DEF MeldMove
    <2>4. Last' = Last /\ played' = played
      BY <1>2, <1>3 DEF PlayedOn
    <2> QED  BY <2>1, <2>2, <2>3, <2>4, RoundFields DEF Advances
  <1> QED  BY <1>2, <1>4, <1>5, <1>6, <1>7 DEF RoundsInv

SetCalled(x, s, h, melds) == [x EXCEPT !.hand[s] = h, !.last[s] = None, !.board.melds[s] = melds]
SetKanned(x, s, h, melds) == [x EXCEPT !.hand[s] = h, !.board.melds[s] = melds]

LEMMA CalledSet ==
    ASSUME NEW x \in StateType, NEW s \in Seats, NEW h \in [Tiles -> Nat], NEW meld \in Seq(Tiles),
           NEW melds \in Seq(Seq(Tiles)), melds = Append(x.board.melds[s], meld),
           NEW y, y = SetCalled(x, s, h, melds)
    PROVE  MeldFields(x, y, s, h, [x.last EXCEPT ![s] = None], meld)
  <1>1. y.hand = [x.hand EXCEPT ![s] = h] /\ y.last = [x.last EXCEPT ![s] = None]
    BY DEF StateType, Hands, SetCalled
  <1>2. y.board.melds = [x.board.melds EXCEPT ![s] = melds]
    BY DEF StateType, BoardType, SetCalled
  <1>3. y.board.left = x.board.left /\ y.board.sticks = x.board.sticks
    BY DEF StateType, BoardType, SetCalled
  <1>4. /\ y.board.scores = x.board.scores /\ y.board.rivers = x.board.rivers
        /\ y.board.riichi = x.board.riichi
    BY DEF StateType, BoardType, SetCalled
  <1>5. y.board \in BoardType
    BY DEF StateType, BoardType, SetCalled
  <1>6. y.hand \in Hands /\ y.last \in [Seats -> Tiles \cup {None}]
    BY <1>1, StateFields DEF Hands
  <1>7. y = [hand |-> y.hand, last |-> y.last, board |-> y.board]
    BY DEF StateType, SetCalled
  <1>8. y \in StateType
    BY <1>5, <1>6, <1>7, MadeOfFields
  <1> QED  BY <1>1, <1>2, <1>3, <1>4, <1>8 DEF MeldFields

LEMMA KannedSet ==
    ASSUME NEW x \in StateType, NEW s \in Seats, NEW h \in [Tiles -> Nat], NEW meld \in Seq(Tiles),
           NEW melds \in Seq(Seq(Tiles)), melds = Append(x.board.melds[s], meld),
           NEW y, y = SetKanned(x, s, h, melds)
    PROVE  MeldFields(x, y, s, h, x.last, meld)
  <1>1. y.hand = [x.hand EXCEPT ![s] = h] /\ y.last = x.last
    BY DEF StateType, Hands, SetKanned
  <1>2. y.board.melds = [x.board.melds EXCEPT ![s] = melds]
    BY DEF StateType, BoardType, SetKanned
  <1>3. y.board.left = x.board.left /\ y.board.sticks = x.board.sticks
    BY DEF StateType, BoardType, SetKanned
  <1>4. /\ y.board.scores = x.board.scores /\ y.board.rivers = x.board.rivers
        /\ y.board.riichi = x.board.riichi
    BY DEF StateType, BoardType, SetKanned
  <1>5. y.board \in BoardType
    BY DEF StateType, BoardType, SetKanned
  <1>6. y.hand \in Hands /\ y.last \in [Seats -> Tiles \cup {None}]
    BY <1>1, StateFields DEF Hands
  <1>7. y = [hand |-> y.hand, last |-> y.last, board |-> y.board]
    BY DEF StateType, SetKanned
  <1>8. y \in StateType
    BY <1>5, <1>6, <1>7, MadeOfFields
  <1> QED  BY <1>1, <1>2, <1>3, <1>4, <1>8 DEF MeldFields

LEMMA MoreMelds ==
    ASSUME NEW x \in StateType, NEW s \in Seats, NEW meld \in Seq(Tiles)
    PROVE  Append(x.board.melds[s], meld) \in Seq(Seq(Tiles))
  <1>1. x.board.melds[s] \in Seq(Seq(Tiles))
    BY StateFields, BoardFields
  <1> QED  BY <1>1

(* What a seat takes when it calls                                          *)
Claimed == River(turn)[Len(River(turn))]
CallHand(s, own, n) == Without(table.hand[s], own, n)
CallLast(s) == [table.last EXCEPT ![s] = None]
CallAction(s, own) ==
    [name |-> "ChiPengGang", at |-> length, seat |-> s, own |-> own, tile |-> Claimed]

LEMMA CallFacts ==
    ASSUME TableTyped, ReplayTyped, NEW s \in Seats, NEW n \in {2, 3}, Call(s, n)
    PROVE  \E own \in Seq(Tiles) :
              /\ Len(own) = n /\ Claimed \in Tiles /\ step = "claim" /\ s # turn
              /\ \A i \in 1..n : KindOf[own[i]] = KindOf[Claimed]
              /\ Holds(table.hand[s], own, n)
              /\ MeldMove(s, CallHand(s, own, n), CallLast(s), Append(own, Claimed), CallAction(s, own))
  <1>1. PICK own \in [1..n -> Tiles] :
            /\ step = "claim" /\ s # turn
            /\ \A i \in 1..n : KindOf[own[i]] = KindOf[Claimed]
            /\ \A t \in Tiles : Cardinality({i \in 1..n : own[i] = t}) <= table.hand[s][t]
            /\ table' = [table EXCEPT
                   !.hand[s] = [t \in Tiles |-> @[t] - Cardinality({i \in 1..n : own[i] = t})],
                   !.last[s] = None,
                   !.board.melds[s] = Append(@, Append(own, Claimed))]
            /\ turn' = s /\ step' = IF n = 2 THEN "discard" ELSE "replace"
            /\ wall' = wall /\ declared' = declared /\ played' = played /\ mixed' = mixed
            /\ Replay(CallAction(s, own))
    BY DEF Call, Claimed, CallAction, River
  <1> DEFINE h == CallHand(s, own, n)
             meld == Append(own, Claimed)
  <1>2. table \in StateType /\ table.hand[s] \in [Tiles -> Nat] /\ n \in Nat /\ length \in Nat /\ turn \in Seats
    BY StateFields DEF TableTyped, ReplayTyped
  <1>3. Claimed \in Tiles
    <2>1. River(turn) \in Seq(Tiles) /\ River(turn) # << >>
      BY <1>1, <1>2, StateFields, BoardFields DEF TableTyped, River
    <2>2. Len(River(turn)) \in DOMAIN River(turn)
      BY <2>1
    <2> QED  BY <2>1, <2>2 DEF Claimed
  <1>4. own \in Seq(Tiles) /\ Len(own) = n
    BY <1>2
  <1>5. Holds(table.hand[s], own, n)
    BY <1>1 DEF Holds
  <1>6. h \in [Tiles -> Nat]
    BY <1>2, <1>5, WithoutType DEF CallHand
  <1>7. meld \in Seq(Tiles)
    BY <1>3, <1>4
  <1>8. ASSUME NEW u \in Tiles PROVE h[u] <= table.hand[s][u]
    <2>1. h[u] = table.hand[s][u] - Counted(own, n, u)
      BY DEF CallHand, Without, Counted
    <2>2. table.hand[s][u] \in Nat /\ Counted(own, n, u) \in Nat
      BY <1>2, CountedType
    <2> QED  BY <2>1, <2>2
  <1> DEFINE melds == Append(table.board.melds[s], meld)
  <1>9. table' = SetCalled(table, s, h, melds)
    BY <1>1 DEF SetCalled, CallHand, Without
  <1> HIDE DEF h, meld
  <1>10. MeldFields(table, table', s, h, CallLast(s), meld)
    <2>1. melds \in Seq(Seq(Tiles))
      BY <1>2, <1>7, MoreMelds
    <2> HIDE DEF melds
    <2>2. melds = Append(table.board.melds[s], meld)
      BY DEF melds
    <2> QED  BY <1>2, <1>6, <1>7, <1>9, <2>1, <2>2, CalledSet DEF CallLast
  <1>11. Move(CallAction(s, own))
    <2>1. step' \in {"discard", "replace"}
      BY <1>1
    <2>2. GoodAction(CallAction(s, own))
      BY <1>3, <1>4 DEF GoodAction, CallAction
    <2> QED  BY <1>1, <2>1, <2>2 DEF Move, MixedStep, CallAction, InRound
  <1>12. MeldMove(s, h, CallLast(s), meld, CallAction(s, own))
    <2>1. step' \in {"discard", "replace"}
      BY <1>1
    <2> QED  BY <1>1, <1>6, <1>7, <1>8, <1>10, <1>11, <2>1 DEF MeldMove
  <1> QED  BY <1>1, <1>3, <1>4, <1>5, <1>12 DEF h, meld

LEMMA CallKeepsTyped ==
    ASSUME TilesInv, NEW s \in Seats, NEW n \in {2, 3}, Call(s, n)
    PROVE  TilesInv'
  BY CallFacts, MeldKeepsTyped DEF TilesInv

LEMMA CallSameEffect ==
    ASSUME ReplayTyped, NEW s \in Seats, NEW n \in Nat, NEW own \in Seq(Tiles), Len(own) = n,
           Claimed \in Tiles, Holds(table.hand[s], own, n)
    PROVE  SameEffect(s, CallHand(s, own, n), CallLast(s), Append(own, Claimed), CallAction(s, own))
  <1> SUFFICES ASSUME NEW r \in RoundType, r.state = table, NEW a, a = CallAction(s, own)
               PROVE  /\ Advances(r, Applied(r, a), a.at)
                      /\ Applied(r, a).issues = r.issues /\ Applied(r, a).decisions = r.decisions
                      /\ MeldFields(table, Applied(r, a).state, s, CallHand(s, own, n), CallLast(s),
                                    Append(own, Claimed))
    BY DEF SameEffect
  <1> DEFINE q == Applied(r, a)
  <1>1. /\ a.name = "ChiPengGang" /\ a.seat = s /\ a.own = own /\ a.tile = Claimed
        /\ a.at = length /\ length \in Nat
    BY DEF CallAction, ReplayTyped
  <1>2. q = AfterCall(r, a)
    BY <1>1 DEF Applied
  <1> HIDE DEF q
  <1>3. Advances(r, q, a.at) /\ CalledOut(r, q, a)
    BY <1>1, <1>2, ReplayedCall
  <1>4. q.state \in StateType
    BY <1>3, RoundFields DEF Advances
  <1>5. MeldFields(table, q.state, s, CallHand(s, own, n), CallLast(s), Append(own, Claimed))
    BY <1>1, <1>3, <1>4 DEF CalledOut, MeldFields, CallHand, CallLast
  <1> QED  BY <1>3, <1>5 DEF CalledOut, q

OneMore(m, q, x) == m[1] = q[1] /\ m[2] = q[2] /\ m[3] = x

LEMMA AppendedToTwo ==
    ASSUME NEW S, NEW q \in Seq(S), NEW x \in S
    PROVE  Len(q) = 2 => OneMore(Append(q, x), q, x)
  <1> DEFINE m == Append(q, x)
  <1>1. m[Len(q) + 1] = x /\ \A i \in 1..Len(q) : m[i] = q[i]
    OBVIOUS
  <1> HIDE DEF m
  <1>2. ASSUME Len(q) = 2 PROVE 1 \in 1..Len(q) /\ 2 \in 1..Len(q) /\ Len(q) + 1 = 3
    BY <1>2
  <1>3. ASSUME Len(q) = 2 PROVE m[1] = q[1] /\ m[2] = q[2] /\ m[3] = x
    BY <1>1, <1>2, <1>3
  <1> QED  BY <1>3 DEF OneMore, m

LEMMA CountedAppended ==
    ASSUME NEW own \in Seq(Tiles), Len(own) = 2, NEW x \in Tiles, NEW u \in Tiles
    PROVE  /\ x = u => Counted(Append(own, x), 3, u) = Counted(own, 2, u) + 1
           /\ x # u => Counted(Append(own, x), 3, u) = Counted(own, 2, u)
  <1> DEFINE meld == Append(own, x)
             S == {i \in 1..2 : own[i] = u}
             T == {i \in 1..3 : meld[i] = u}
  <1>1. OneMore(meld, own, x)
    BY AppendedToTwo
  <1>2. Counted(own, 2, u) = Cardinality(S) /\ Counted(meld, 3, u) = Cardinality(T)
    BY DEF Counted
  <1> HIDE DEF meld
  <1>3. IsFiniteSet(S)
    BY CountedType
  <1>4. 3 \notin S
    OBVIOUS
  <1>5. ASSUME x = u PROVE T = S \cup {3}
    BY <1>1, <1>5 DEF OneMore
  <1>6. ASSUME x # u PROVE T = S
    BY <1>1, <1>6 DEF OneMore
  <1> HIDE DEF S, T
  <1>7. Cardinality(S \cup {3}) = Cardinality(S) + 1
    BY <1>3, <1>4, FS_AddElement
  <1> QED  BY <1>2, <1>5, <1>6, <1>7 DEF meld

(* The tiles of a pon leave the hand, but for the claimed one, which was    *)
(* already in another's river.                                              *)
LEMMA PonTaken ==
    ASSUME TableTyped, TilesKept, DiscardSeen, step = "claim", NEW s \in Seats, s # turn,
           NEW own \in Seq(Tiles), Len(own) = 2, Claimed \in Tiles, Holds(table.hand[s], own, 2),
           \A i \in 1..2 : KindOf[own[i]] = KindOf[Claimed]
    PROVE  PonOf(Append(own, Claimed), CallHand(s, own, 2), wall)
  <1> DEFINE t == Claimed
             meld == Append(own, t)
  <1>1. own[1] \in Tiles /\ own[2] \in Tiles
    <2>1. 1 \in DOMAIN own /\ 2 \in DOMAIN own
      OBVIOUS
    <2> QED  BY <2>1, ElementOf
  <1>2. OneMore(meld, own, t)
    BY AppendedToTwo
  <1>3. \A i \in 1..3 : meld[i] \in Tiles /\ KindOf[meld[i]] = KindOf[meld[1]]
    <2>1. KindOf[own[1]] = KindOf[t] /\ KindOf[own[2]] = KindOf[t]
      OBVIOUS
    <2>2. \A i \in 1..3 : i = 1 \/ i = 2 \/ i = 3
      OBVIOUS
    <2> HIDE DEF meld, t
    <2>3. t \in Tiles
      BY DEF t
    <2> QED  BY <1>1, <1>2, <2>1, <2>2, <2>3 DEF OneMore
  <1>4. ASSUME NEW u \in Tiles
        PROVE  CallHand(s, own, 2)[u] + wall[u] + Counted(meld, 3, u) <= Copies[u]
    <2>1. CallHand(s, own, 2)[u] = table.hand[s][u] - Counted(own, 2, u)
      BY DEF CallHand, Without, Counted
    <2>2. /\ t = u => Counted(meld, 3, u) = Counted(own, 2, u) + 1
          /\ t # u => Counted(meld, 3, u) = Counted(own, 2, u)
      BY CountedAppended
    <2>3. /\ table.hand[s][u] \in Nat /\ wall[u] \in Nat /\ Copies[u] \in Nat
          /\ Counted(own, 2, u) \in Nat
      BY HeldIsNat, CountedType
    <2>4. t = u => table.hand[s][u] + wall[u] <= Copies[u] - 1
      BY DEF DiscardSeen, Claimed
    <2>5. table.hand[s][u] + wall[u] <= Copies[u]
      BY DEF TilesKept
    <2> DEFINE c == Counted(own, 2, u)
               m == Counted(meld, 3, u)
               h == table.hand[s][u]
               w == wall[u]
               n == Copies[u]
    <2> HIDE DEF t, meld, c, m, h, w, n
    <2>6. CASE t = u
      <3>1. h \in Nat /\ w \in Nat /\ n \in Nat /\ c \in Nat /\ m = c + 1 /\ h + w <= n - 1
        BY <2>2, <2>3, <2>4, <2>6 DEF c, m, h, w, n
      <3>2. (h - c) + w + m <= n
        BY <3>1
      <3> QED  BY <2>1, <3>2 DEF c, m, h, w, n
    <2>7. CASE t # u
      <3>1. h \in Nat /\ w \in Nat /\ n \in Nat /\ c \in Nat /\ m = c /\ h + w <= n
        BY <2>2, <2>3, <2>5, <2>7 DEF c, m, h, w, n
      <3>2. (h - c) + w + m <= n
        BY <3>1
      <3> QED  BY <2>1, <3>2 DEF c, m, h, w, n
    <2> QED  BY <2>6, <2>7
  <1> QED  BY <1>3, <1>4 DEF PonOf

LEMMA CallKeepsInv ==
    ASSUME RoundsInv, NEW s \in Seats, NEW n \in {2, 3}, Call(s, n)
    PROVE  RoundsInv'
  <1>1. TableTyped /\ ReplayTyped /\ TilesKept /\ DiscardSeen
    BY DEF RoundsInv, TilesInv
  <1>2. PICK own \in Seq(Tiles) :
              /\ Len(own) = n /\ Claimed \in Tiles /\ step = "claim" /\ s # turn
              /\ \A i \in 1..n : KindOf[own[i]] = KindOf[Claimed]
              /\ Holds(table.hand[s], own, n)
              /\ MeldMove(s, CallHand(s, own, n), CallLast(s), Append(own, Claimed), CallAction(s, own))
    BY <1>1, CallFacts
  <1> DEFINE meld == Append(own, Claimed)
             h == CallHand(s, own, n)
  <1>3. SameEffect(s, h, CallLast(s), meld, CallAction(s, own))
    BY <1>1, <1>2, CallSameEffect
  <1>4. ASSUME Len(meld) = 3 PROVE PonOf(meld, h, wall)
    <2>1. n = 2
      BY <1>2, <1>4
    <2> QED  BY <1>1, <1>2, <2>1, PonTaken
  <1> HIDE DEF meld, h
  <1>5. MeldMove(s, h, CallLast(s), meld, CallAction(s, own))
    BY <1>2 DEF meld, h
  <1> QED  BY <1>3, <1>4, <1>5, MeldKeepsInv

NamedMeld(named) == [i \in 1..4 |-> named]
WithoutKind(k) == [t \in Tiles |-> IF KindOf[t] = k THEN 0 ELSE table.hand[turn][t]]
KanAction(t) == [name |-> "AnGangAddGang", at |-> length, seat |-> turn, tile |-> t]

LEMMA ClosedKanFacts ==
    ASSUME TableTyped, ReplayTyped, NEW k \in Kinds, ClosedKan(k)
    PROVE  \E named \in Tiles :
              /\ named \in OfKind(k, turn)
              /\ Size([t \in OfKind(k, turn) |-> table.hand[turn][t]]) = 4
              /\ length \notin mixed' => OfKind(k, turn) = {named}
              /\ MeldMove(turn, WithoutKind(k), table.last, NamedMeld(named), KanAction(named))
  <1>1. PICK named \in OfKind(k, turn) :
            /\ step = "act"
            /\ Size([t \in OfKind(k, turn) |-> table.hand[turn][t]]) = 4
            /\ table' = [table EXCEPT !.hand[turn] = [t \in Tiles |-> IF KindOf[t] = k THEN 0 ELSE @[t]],
                                      !.board.melds[turn] = Append(@, NamedMeld(named))]
            /\ step' = "replace"
            /\ mixed' = IF OfKind(k, turn) = {named} THEN mixed ELSE mixed \cup {length}
            /\ wall' = wall /\ turn' = turn /\ declared' = declared /\ played' = played
            /\ Replay(KanAction(named))
    BY DEF ClosedKan, NamedMeld, KanAction
  <1> DEFINE h == WithoutKind(k)
             meld == NamedMeld(named)
             melds == Append(table.board.melds[turn], meld)
  <1>2. /\ table \in StateType /\ turn \in Seats /\ table.hand[turn] \in [Tiles -> Nat] /\ length \in Nat
        /\ named \in Tiles
    BY StateFields DEF TableTyped, ReplayTyped, OfKind
  <1>3. h \in [Tiles -> Nat] /\ \A u \in Tiles : h[u] <= table.hand[turn][u]
    BY <1>2 DEF WithoutKind
  <1>4. meld \in Seq(Tiles)
    BY <1>2 DEF NamedMeld
  <1>5. table' = SetKanned(table, turn, h, melds)
    BY <1>1 DEF SetKanned, WithoutKind
  <1> HIDE DEF h, meld
  <1>6. MeldFields(table, table', turn, h, table.last, meld)
    <2>1. melds \in Seq(Seq(Tiles))
      BY <1>2, <1>4, MoreMelds
    <2> HIDE DEF melds
    <2>2. melds = Append(table.board.melds[turn], meld)
      BY DEF melds
    <2> QED  BY <1>2, <1>3, <1>4, <1>5, <2>1, <2>2, KannedSet
  <1>7. Move(KanAction(named))
    <2>1. GoodAction(KanAction(named))
      BY <1>2 DEF GoodAction, KanAction
    <2>2. MixedStep
      BY <1>1 DEF MixedStep
    <2> QED  BY <1>1, <2>1, <2>2 DEF Move, KanAction, InRound
  <1>8. MeldMove(turn, h, table.last, meld, KanAction(named))
    BY <1>1, <1>2, <1>3, <1>4, <1>6, <1>7 DEF MeldMove
  <1>9. length \notin mixed' => OfKind(k, turn) = {named}
    BY <1>1
  <1> QED  BY <1>1, <1>2, <1>8, <1>9 DEF h, meld

WithoutOne(t) == RemoveTile(table.hand[turn], t, 1)

LEMMA AddedKanFacts ==
    ASSUME TableTyped, ReplayTyped, NEW t \in Tiles, AddedKan(t)
    PROVE  /\ table.hand[turn][t] > 0
           /\ \E i \in DOMAIN table.board.melds[turn] :
                /\ Len(table.board.melds[turn][i]) = 3
                /\ KindOf[table.board.melds[turn][i][1]] = KindOf[t]
           /\ MeldMove(turn, WithoutOne(t), table.last, <<t>>, KanAction(t))
  <1>1. /\ step = "act" /\ table.hand[turn][t] > 0
        /\ \E i \in DOMAIN table.board.melds[turn] :
                /\ Len(table.board.melds[turn][i]) = 3
                /\ KindOf[table.board.melds[turn][i][1]] = KindOf[t]
        /\ table' = [table EXCEPT !.hand[turn][t] = @ - 1,
                              !.board.melds[turn] = Append(@, <<t>>)]
        /\ step' = "replace"
        /\ wall' = wall /\ turn' = turn /\ declared' = declared /\ played' = played
        /\ mixed' = mixed /\ Replay(KanAction(t))
    BY DEF AddedKan, KanAction
  <1> DEFINE h == WithoutOne(t)
             meld == <<t>>
             melds == Append(table.board.melds[turn], meld)
  <1>2. /\ table \in StateType /\ turn \in Seats /\ table.hand[turn] \in [Tiles -> Nat] /\ length \in Nat
    BY StateFields DEF TableTyped, ReplayTyped
  <1>3. h \in [Tiles -> Nat] /\ \A u \in Tiles : h[u] <= table.hand[turn][u]
    <2>1. 1 <= table.hand[turn][t]
      BY <1>1, <1>2
    <2> QED  BY <1>2, <2>1, RemoveType DEF WithoutOne, RemoveTile
  <1>4. meld \in Seq(Tiles)
    OBVIOUS
  <1>5. table' = SetKanned(table, turn, h, melds)
    BY <1>1 DEF SetKanned, WithoutOne, RemoveTile
  <1> HIDE DEF h, meld
  <1>6. MeldFields(table, table', turn, h, table.last, meld)
    <2>1. melds \in Seq(Seq(Tiles))
      BY <1>2, <1>4, MoreMelds
    <2> HIDE DEF melds
    <2>2. melds = Append(table.board.melds[turn], meld)
      BY DEF melds
    <2> QED  BY <1>2, <1>3, <1>4, <1>5, <2>1, <2>2, KannedSet
  <1>7. Move(KanAction(t))
    <2>1. GoodAction(KanAction(t))
      BY <1>2 DEF GoodAction, KanAction
    <2> QED  BY <1>1, <2>1 DEF Move, MixedStep, KanAction, InRound
  <1>8. MeldMove(turn, h, table.last, meld, KanAction(t))
    BY <1>1, <1>2, <1>3, <1>4, <1>6, <1>7 DEF MeldMove
  <1> QED  BY <1>1, <1>8 DEF h, meld

LEMMA ClosedKanKeepsTyped ==
    ASSUME TilesInv, NEW k \in Kinds, ClosedKan(k)
    PROVE  TilesInv'
  <1>1. PICK named \in Tiles :
           MeldMove(turn, WithoutKind(k), table.last, NamedMeld(named), KanAction(named))
    BY ClosedKanFacts DEF TilesInv
  <1> QED  BY <1>1, MeldKeepsTyped

LEMMA AddedKanKeepsTyped ==
    ASSUME TilesInv, NEW t \in Tiles, AddedKan(t)
    PROVE  TilesInv'
  BY AddedKanFacts, MeldKeepsTyped DEF TilesInv

(* The replay takes four tiles of one code, or one.                         *)
LEMMA KanSameEffect ==
    ASSUME ReplayTyped, TableTyped, NEW t \in Tiles,
           table.hand[turn][t] >= 4 \/ table.hand[turn][t] = 1,
           NEW n, n = KanSize(table.hand[turn][t])
    PROVE  SameEffect(turn, RemoveTile(table.hand[turn], t, n), table.last, [i \in 1..n |-> t],
                      KanAction(t))
  <1> SUFFICES ASSUME NEW r \in RoundType, r.state = table, NEW a, a = KanAction(t)
               PROVE  /\ Advances(r, Applied(r, a), a.at)
                      /\ Applied(r, a).issues = r.issues /\ Applied(r, a).decisions = r.decisions
                      /\ MeldFields(table, Applied(r, a).state, turn, RemoveTile(table.hand[turn], t, n),
                                    table.last, [i \in 1..n |-> t])
    BY DEF SameEffect
  <1> DEFINE q == Applied(r, a)
  <1>1. /\ a.name = "AnGangAddGang" /\ a.seat = turn /\ a.tile = t /\ a.at = length /\ length \in Nat
        /\ turn \in Seats
    BY DEF KanAction, ReplayTyped, TableTyped
  <1>2. q = AfterKan(r, a)
    BY <1>1 DEF Applied
  <1> HIDE DEF q
  <1>3. Advances(r, q, a.at) /\ KanOut(r, q, a)
    BY <1>1, <1>2, ReplayedKan
  <1>4. q.state \in StateType
    BY <1>3, RoundFields DEF Advances
  <1>5. MeldFields(table, q.state, turn, RemoveTile(table.hand[turn], t, n), table.last, [i \in 1..n |-> t])
    BY <1>1, <1>3, <1>4 DEF KanOut, MeldFields
  <1> QED  BY <1>3, <1>5 DEF KanOut, q

(* Four tiles of one code are all of the kind that the hand has.            *)
LEMMA ClosedKanFollowed ==
    ASSUME TableTyped, ReplayTyped, TilesKept, NEW k \in Kinds, NEW named \in Tiles,
           OfKind(k, turn) = {named}, Size([t \in {named} |-> table.hand[turn][t]]) = 4
    PROVE  SameEffect(turn, WithoutKind(k), table.last, NamedMeld(named), KanAction(named))
  <1>1. turn \in Seats /\ table.hand[turn] \in [Tiles -> Nat] /\ table.hand[turn][named] \in Nat
    BY StateFields DEF TableTyped
  <1>2. /\ KindOf[named] = k
        /\ \A t \in Tiles : KindOf[t] = k /\ t # named => table.hand[turn][t] = 0
    <2>1. \A t \in Tiles : KindOf[t] = k /\ t # named => ~(table.hand[turn][t] > 0)
      BY DEF OfKind
    <2>2. KindOf[named] = k
      BY DEF OfKind
    <2> QED  BY <1>1, <2>1, <2>2
  <1>3. table.hand[turn][named] >= 4
    <2> DEFINE bag == [t \in {named} |-> table.hand[turn][t]]
    <2>1. bag \in [{named} -> Nat] /\ Size(bag) = 4 /\ bag[named] = table.hand[turn][named]
      BY <1>1
    <2> HIDE DEF bag
    <2> QED  BY <2>1, SizeOfOne
  <1>4. table.hand[turn][named] = 4
    <2>1. table.hand[turn][named] + wall[named] <= Copies[named]
      BY <1>1 DEF TilesKept
    <2>2. wall[named] \in Nat /\ Copies[named] \in 0..4
      BY <1>1, HeldIsNat, TableAssumption DEF Bags
    <2> QED  BY <1>1, <1>3, <2>1, <2>2
  <1>5. 4 = KanSize(table.hand[turn][named])
    BY <1>4 DEF KanSize
  <1>6. RemoveTile(table.hand[turn], named, 4) = WithoutKind(k)
    BY <1>1, <1>2, <1>4 DEF RemoveTile, WithoutKind
  <1>7. SameEffect(turn, RemoveTile(table.hand[turn], named, 4), table.last,
                   [i \in 1..4 |-> named], KanAction(named))
    BY <1>3, <1>5, KanSameEffect
  <1> QED  BY <1>6, <1>7 DEF NamedMeld

LEMMA ClosedKanKeepsInv ==
    ASSUME RoundsInv, NEW k \in Kinds, ClosedKan(k)
    PROVE  RoundsInv'
  <1>1. TilesInv /\ TableTyped /\ ReplayTyped /\ Begun /\ TilesKept
    BY DEF RoundsInv, TilesInv
  <1>2. PICK named \in Tiles :
              /\ named \in OfKind(k, turn)
              /\ Size([t \in OfKind(k, turn) |-> table.hand[turn][t]]) = 4
              /\ length \notin mixed' => OfKind(k, turn) = {named}
              /\ MeldMove(turn, WithoutKind(k), table.last, NamedMeld(named), KanAction(named))
    BY <1>1, ClosedKanFacts
  <1>3. ASSUME Unspoiled'
        PROVE  SameEffect(turn, WithoutKind(k), table.last, NamedMeld(named), KanAction(named))
    <2>1. PlayedOn /\ Move(KanAction(named))
      BY <1>1, <1>2, MeldKeepsTyped DEF MeldMove
    <2>2. length \notin mixed'
      BY <1>1, <1>3, <2>1, MoveUnspoiled DEF Spoils
    <2> QED  BY <1>1, <1>2, <2>2, ClosedKanFollowed
  <1>4. Len(NamedMeld(named)) # 3
    BY DEF NamedMeld
  <1> QED  BY <1>2, <1>3, <1>4, MeldKeepsInv

(* One tile of the kind of a pon is left at most, whichever code it has.    *)
LEMMA FourthOfPon ==
    ASSUME TableTyped, NEW s \in Seats, NEW meld, PonOf(meld, table.hand[s], wall),
           NEW t \in Tiles, KindOf[meld[1]] = KindOf[t]
    PROVE  table.hand[s][t] <= 1
  <1> DEFINE In(u) == {i \in 1..3 : meld[i] = u}
  <1>1. /\ meld[1] \in Tiles /\ \A i \in 1..3 : meld[i] \in Tiles /\ KindOf[meld[i]] = KindOf[t]
        /\ \A u \in Tiles : table.hand[s][u] + wall[u] + Counted(meld, 3, u) <= Copies[u]
    BY DEF PonOf
  <1>2. \A u \in Tiles : /\ table.hand[s][u] \in Nat /\ wall[u] \in Nat /\ Copies[u] \in 0..4
                          /\ Counted(meld, 3, u) \in Nat /\ IsFiniteSet(In(u))
                          /\ Counted(meld, 3, u) = Cardinality(In(u))
    <2> SUFFICES ASSUME NEW u \in Tiles
                 PROVE  /\ table.hand[s][u] \in Nat /\ wall[u] \in Nat /\ Copies[u] \in 0..4
                        /\ Counted(meld, 3, u) \in Nat /\ IsFiniteSet(In(u))
                        /\ Counted(meld, 3, u) = Cardinality(In(u))
      OBVIOUS
    <2>1. table.hand[s][u] \in Nat /\ wall[u] \in Nat
      BY HeldIsNat
    <2>2. Counted(meld, 3, u) \in Nat /\ IsFiniteSet(In(u))
      BY CountedType
    <2>3. Counted(meld, 3, u) = Cardinality(In(u))
      BY DEF Counted
    <2>4. Copies[u] \in 0..4
      BY TableAssumption DEF Bags
    <2> QED  BY <2>1, <2>2, <2>3, <2>4
  <1>3. Cardinality(1..3) = 3
    BY CountTo
  <1>4. CASE \A i \in 1..3 : meld[i] = t
    <2>1. In(t) = 1..3
      BY <1>4
    <2>2. Counted(meld, 3, t) = 3
      BY <1>2, <1>3, <2>1
    <2> HIDE DEF In
    <2> QED  BY <1>1, <1>2, <2>2
  <1>5. CASE ~ \A i \in 1..3 : meld[i] = t
    <2>1. PICK n \in 1..3 : meld[n] # t
      BY <1>5
    <2> DEFINE u == meld[n]
    <2>2. u \in Tiles /\ KindOf[u] = KindOf[t] /\ u # t
      BY <1>1, <2>1
    <2> HIDE DEF u
    <2>3. \A i \in 1..3 : meld[i] = t \/ meld[i] = u
      BY <1>1, <2>2, TableAssumption
    <2>4. In(t) \cup In(u) = 1..3 /\ In(t) \cap In(u) = {}
      BY <2>2, <2>3
    <2>5. Cardinality(In(t)) + Cardinality(In(u)) = 3
      <3> HIDE DEF In
      <3>1. Cardinality(In(t) \cup In(u))
              = Cardinality(In(t)) + Cardinality(In(u)) - Cardinality(In(t) \cap In(u))
        BY <1>2, <2>2, FS_Union
      <3>2. Cardinality(In(t) \cap In(u)) = 0
        BY <2>4, FS_EmptySet
      <3>3. Cardinality(In(t)) \in Nat /\ Cardinality(In(u)) \in Nat
        BY <1>2, <2>2, FS_CardinalityType
      <3>4. Cardinality(In(t) \cup In(u)) = 3
        BY <1>3, <2>4
      <3> QED  BY <3>1, <3>2, <3>3, <3>4
    <2>6. Copies[t] + Copies[u] <= 4
      BY <2>2, TableAssumption
    <2>7. /\ table.hand[s][t] + wall[t] + Counted(meld, 3, t) <= Copies[t]
          /\ table.hand[s][u] + wall[u] + Counted(meld, 3, u) <= Copies[u]
      BY <1>1, <2>2
    <2> HIDE DEF In
    <2> QED  BY <1>2, <2>2, <2>5, <2>6, <2>7
  <1> QED  BY <1>4, <1>5

LEMMA AddedKanKeepsInv ==
    ASSUME RoundsInv, NEW t \in Tiles, AddedKan(t)
    PROVE  RoundsInv'
  <1>1. TableTyped /\ ReplayTyped /\ PonsSeen
    BY DEF RoundsInv, TilesInv
  <1>2. turn \in Seats /\ table.hand[turn][t] \in Nat
    BY <1>1, HeldIsNat DEF TableTyped
  <1>3. table.hand[turn][t] = 1
    <2>1. PICK i \in DOMAIN table.board.melds[turn] :
                /\ Len(table.board.melds[turn][i]) = 3
                /\ KindOf[table.board.melds[turn][i][1]] = KindOf[t]
      BY <1>1, AddedKanFacts
    <2>2. PonOf(table.board.melds[turn][i], table.hand[turn], wall)
      BY <1>1, <1>2, <2>1 DEF PonsSeen
    <2>3. table.hand[turn][t] > 0
      BY <1>1, AddedKanFacts
    <2>4. table.hand[turn][t] <= 1
      BY <1>1, <1>2, <2>1, <2>2, FourthOfPon
    <2> QED  BY <1>2, <2>3, <2>4
  <1>4. KanSize(table.hand[turn][t]) = 1
    BY <1>3 DEF KanSize
  <1>5. [i \in 1..1 |-> t] = <<t>>
    OBVIOUS
  <1>6. SameEffect(turn, WithoutOne(t), table.last, <<t>>, KanAction(t))
    BY <1>1, <1>3, <1>4, <1>5, KanSameEffect DEF WithoutOne
  <1>7. Len(<<t>>) # 3
    OBVIOUS
  <1> QED  BY <1>1, <1>6, <1>7, AddedKanFacts, MeldKeepsInv

-----------------------------------------------------------------------------
(***************************************************************************)
(* A round begins, a round ends, the record ends.                          *)
(***************************************************************************)
RoundsGrow == DOMAIN rounds \subseteq DOMAIN rounds' /\ \A j \in DOMAIN rounds : rounds'[j] = rounds[j]

LEMMA RebuiltStays ==
    ASSUME RoundsGrow, NEW i, Rebuilt(i), played'[i] = played[i]
    PROVE  Rebuilt(i)'
  BY DEF RoundsGrow, Rebuilt

Left(deal) == [t \in Tiles |-> Copies[t] - Dealt(deal, t)]
FirstAction(deal) ==
    [name |-> "NewRound", at |-> length, deal |-> deal, left |-> Size(Left(deal))]
NewPlayed == [first |-> length, decisions |-> << >>, status |-> "truncated"]

DealWith(deal) ==
    /\ deal \in Deals /\ step = "deal" /\ wall' = Left(deal)
    /\ table' = NewState(deal, Size(Left(deal)))
    /\ turn' = 0 /\ step' = "act" /\ declared' = None
    /\ played' = Append(played, NewPlayed) /\ mixed' = mixed
    /\ Replay(FirstAction(deal))

LEMMA DealPicked ==
    ASSUME DealHands
    PROVE  \E deal : DealWith(deal)
  BY DEF DealHands, DealWith, Left, FirstAction, NewPlayed

LEMMA DealtTo ==
    ASSUME NEW deal \in Deals, NEW t \in Tiles, NEW s \in Seats, NEW u \in Seats
    PROVE  /\ deal[s][t] \in Nat /\ deal[u][t] \in Nat /\ Left(deal)[t] \in Nat
           /\ deal[s][t] + Left(deal)[t] <= Copies[t]
           /\ s # u => deal[s][t] + deal[u][t] + Left(deal)[t] <= Copies[t]
  <1>1. deal \in [Seats -> Bags] /\ Dealt(deal, t) <= Copies[t] /\ Copies[t] \in Nat
    BY TableAssumption, CopiesType
  <1>2. deal[s][t] \in Nat /\ deal[u][t] \in Nat
    BY <1>1 DEF Bags
  <1>3. PICK v \in Seats : v # s
    <2>1. 0 \in Seats /\ 1 \in Seats
      BY TableAssumption DEF Seats
    <2> QED  BY <2>1
  <1>4. deal[v][t] \in Nat
    BY <1>1 DEF Bags
  <1>5. deal[s][t] + deal[v][t] <= Dealt(deal, t) /\ Dealt(deal, t) \in Nat
    BY <1>1, <1>3, DealtToTwo
  <1>6. s # u => deal[s][t] + deal[u][t] <= Dealt(deal, t)
    BY <1>1, DealtToTwo
  <1>7. Left(deal)[t] = Copies[t] - Dealt(deal, t)
    BY DEF Left
  <1> QED  BY <1>1, <1>2, <1>4, <1>5, <1>6, <1>7

LEMMA NewStateType ==
    ASSUME NEW deal \in Deals, NEW n \in Int
    PROVE  NewState(deal, n) \in StateType
  <1>1. deal \in [Seats -> Bags] /\ StartScore \in Int
    BY TableAssumption
  <1>2. deal \in Hands
    BY <1>1 DEF Hands, Bags
  <1>3. NewBoard(n) \in BoardType
    BY <1>1 DEF NewBoard, BoardType
  <1> QED  BY <1>2, <1>3 DEF NewState, StateType

LEMMA DealFacts ==
    ASSUME TableTyped, ReplayTyped, Begun, NEW deal, DealWith(deal)
    PROVE  /\ TableTyped' /\ GoodAction(FirstAction(deal)) /\ Begun'
           /\ Last \in Nat /\ Last' = Last + 1 /\ played'[Last'] = NewPlayed
           /\ \A i \in 1..Last : played'[i] = played[i]
           /\ deal \in Deals /\ Size(Left(deal)) \in Int
  <1>1. deal \in Deals /\ length \in Nat /\ played \in Seq(PlayedType)
    BY DEF DealWith, ReplayTyped, TableTyped
  <1>2. Left(deal) \in [Tiles -> Nat]
    <2>1. ASSUME NEW t \in Tiles PROVE Left(deal)[t] \in Nat
      BY <1>1, SeatsAre, DealtTo
    <2> QED  BY <2>1 DEF Left
  <1>3. Size(Left(deal)) \in Int
    <2>1. Size(Left(deal)) \in Nat
      BY <1>2, SizeType, TableAssumption
    <2> QED  BY <2>1
  <1>4. NewState(deal, Size(Left(deal))) \in StateType
    BY <1>1, <1>3, NewStateType
  <1>5. GoodAction(FirstAction(deal))
    BY <1>4 DEF GoodAction, FirstAction, FreshState
  <1>6. NewPlayed \in PlayedType
    BY <1>1 DEF NewPlayed, PlayedType, Endings
  <1>7. /\ Last \in Nat /\ Last' = Last + 1 /\ played'[Last'] = NewPlayed
        /\ \A i \in 1..Last : played'[i] = played[i]
        /\ played' \in Seq(PlayedType)
    <2>1. played' = Append(played, NewPlayed)
      BY DEF DealWith
    <2> HIDE DEF NewPlayed
    <2> QED  BY <1>1, <1>6, <2>1 DEF Last
  <1>8. TableTyped'
    <2>1. step' = "act" /\ turn' = 0 /\ declared' = None /\ wall' = Left(deal)
          /\ table' = NewState(deal, Size(Left(deal)))
      BY DEF DealWith
    <2>2. Last' > 0
      BY <1>7
    <2> QED  BY <1>2, <1>4, <1>7, <2>1, <2>2, SeatsAre DEF TableTyped, Steps
  <1>9. Begun'
    <2>1. length' = length + 1
      BY DEF DealWith, Replay
    <2>2. ASSUME NEW i \in 1..Last' PROVE played'[i].first < length'
      <3>1. CASE i = Last'
        BY <1>1, <1>7, <2>1, <3>1 DEF NewPlayed
      <3>2. CASE i # Last'
        <4>1. i \in 1..Last
          BY <1>7, <3>2
        <4>2. played'[i] = played[i] /\ played[i].first < length /\ played[i].first \in Nat
          BY <1>7, <4>1, LastPlayed DEF Begun, PlayedType
        <4> QED  BY <1>1, <2>1, <4>2
      <3> QED  BY <3>1, <3>2
    <2> QED  BY <2>2 DEF Begun
  <1> QED  BY <1>1, <1>3, <1>5, <1>7, <1>8, <1>9

LEMMA DealKeepsTyped ==
    ASSUME TilesInv, DealHands
    PROVE  TilesInv'
  <1>1. PICK deal : DealWith(deal)
    BY DealPicked
  <1>2. TableTyped' /\ GoodAction(FirstAction(deal)) /\ Begun' /\ deal \in Deals
    BY <1>1, DealFacts DEF TilesInv
  <1>3. ReplayTyped'
    BY <1>1, <1>2, ReplayKeepsTyped DEF TilesInv, DealWith, FirstAction, MixedStep
  <1>4. TilesKept'
    <2>1. table'.hand = deal /\ wall' = Left(deal)
      BY <1>1 DEF DealWith, NewState
    <2> QED  BY <1>2, <2>1, DealtTo DEF TilesKept
  <1> QED  BY <1>2, <1>3, <1>4 DEF TilesInv

LEMMA DealKeepsInv ==
    ASSUME RoundsInv, DealHands
    PROVE  RoundsInv'
  <1>1. TilesInv /\ TableTyped /\ ReplayTyped /\ Begun /\ AllRebuilt
    BY DEF RoundsInv, TilesInv
  <1>2. PICK deal : DealWith(deal)
    BY DealPicked
  <1> DEFINE a == FirstAction(deal)
  <1>3. TilesInv'
    BY <1>1, DealKeepsTyped
  <1>4. /\ GoodAction(a) /\ deal \in Deals /\ Last \in Nat /\ Last' = Last + 1
        /\ played'[Last'] = NewPlayed /\ \A i \in 1..Last : played'[i] = played[i]
    BY <1>1, <1>2, DealFacts
  <1>5. /\ step' = "act" /\ step = "deal" /\ table' = NewState(deal, Size(Left(deal))) /\ Replay(a)
        /\ length' = length + 1 /\ length \in Nat /\ Spoils \subseteq Spoils'
        /\ mixed' = mixed
    BY <1>1, <1>2, <1>4, ReplayKeepsTyped DEF DealWith, FirstAction, ReplayTyped, MixedStep
  <1>6. NotDecodable(a) \/ NewRound(a)
    BY <1>5 DEF Replay, FirstAction, ApplyToRound, OutsideRound, FinishRound, InRound, Ends
  <1>7. DiscardSeen'
    BY <1>5 DEF DiscardSeen
  <1>8. PonsSeen'
    <2>1. \A s \in Seats : table'.board.melds[s] = << >>
      BY <1>5 DEF NewState, NewBoard
    <2> QED  BY <2>1 DEF PonsSeen
  <1>9. RoundsGrow
    <2>1. CASE NotDecodable(a)
      BY <2>1 DEF NotDecodable, RoundsGrow
    <2>2. CASE NewRound(a)
      <3>1. rounds' = Finish(round, "interrupted_by_new_round")
        BY <2>2 DEF NewRound
      <3> QED  BY <1>1, <3>1, FinishType DEF RoundsGrow, ReplayTyped, Endings
    <2> QED  BY <1>6, <2>1, <2>2
  <1>10. Follows'
    <2> SUFFICES ASSUME Unspoiled'
                 PROVE  /\ round' # NoRound
                        /\ round'.first = played'[Last'].first /\ round'.state = table'
                        /\ round'.decisions = played'[Last'].decisions
                        /\ round'.issues = {} /\ round'.status = "open"
                        /\ played'[Last'].status = "truncated"
      BY DEF Follows
    <2>1. length \notin Spoils'
      <3>1. length..(length' - 1) \cap Spoils' = {}
        BY <1>4 DEF Unspoiled, NewPlayed
      <3>2. length \in length..(length' - 1)
        BY <1>5
      <3> QED  BY <3>1, <3>2
    <2>2. NewRound(a)
      BY <1>6, <2>1 DEF NotDecodable, FirstAction, Spoils
    <2>3. round' = [first |-> length, state |-> table', decisions |-> << >>,
                    issues |-> {}, status |-> "open"]
      BY <1>5, <2>2 DEF NewRound, FirstAction, FreshState
    <2>4. round' # NoRound
      <3>1. round' # NoRound \/ round' = NoRound
        OBVIOUS
      <3>2. round' \in [first : Nat, state : {table'}, decisions : {<< >>}, issues : {{}}, status : {"open"}]
        BY <1>5, <2>3
      <3> QED  BY <3>2 DEF NoRound
    <2> QED  BY <1>4, <2>3, <2>4 DEF NewPlayed
  <1>11. AllRebuilt'
    <2>1. ASSUME NEW i \in 1..Last', Over(i)', ActionsOf(i)' \cap Spoils' = {} PROVE Rebuilt(i)'
      <3>1. i \in 1..Last /\ i < Last'
        BY <1>4, <1>5, <2>1 DEF Over
      <3>2. played'[i] = played[i]
        BY <1>4, <3>1
      <3>3. ActionsOf(i)' = ActionsOf(i)
        <4>1. CASE i < Last
          <5>1. i + 1 \in 1..Last
            BY <1>4, <3>1, <4>1
          <5>2. played'[i + 1] = played[i + 1]
            BY <1>4, <5>1
          <5> QED  BY <3>1, <3>2, <4>1, <5>2 DEF ActionsOf
        <4>2. CASE ~ (i < Last)
          <5>1. i = Last /\ i + 1 = Last'
            BY <1>4, <3>1, <4>2
          <5>2. played'[i + 1].first = length
            BY <1>4, <5>1 DEF NewPlayed
          <5> QED  BY <3>1, <3>2, <4>2, <5>2 DEF ActionsOf
        <4> QED  BY <4>1, <4>2
      <3>4. Rebuilt(i)
        BY <1>1, <1>5, <2>1, <3>1, <3>3 DEF AllRebuilt, Over
      <3> QED  BY <1>9, <3>2, <3>4, RebuiltStays
    <2> QED  BY <2>1 DEF AllRebuilt
  <1> QED  BY <1>3, <1>7, <1>8, <1>10, <1>11 DEF RoundsInv

OverAction(name) == [name |-> name, at |-> length, oldScores |-> table.board.scores]

LEMMA OverFacts ==
    ASSUME TableTyped, ReplayTyped, Begun, NEW name \in Ends, RoundOver(name)
    PROVE  /\ step \notin {"deal", "end"} /\ step' = "deal"
           /\ table' = table /\ wall' = wall /\ turn' = turn /\ declared' = declared
           /\ MixedStep /\ Replay(OverAction(name)) /\ GoodAction(OverAction(name))
           /\ PlayedOn /\ Last \in 1..Last
           /\ played'[Last].decisions = played[Last].decisions /\ played'[Last].status = name
           /\ TableTyped'
  <1>1. /\ step \notin {"deal", "end"} /\ step' = "deal"
        /\ table' = table /\ wall' = wall /\ turn' = turn /\ declared' = declared
        /\ Replay(OverAction(name)) /\ played' = [played EXCEPT ![Last].status = name]
        /\ MixedStep
    BY DEF RoundOver, OverAction, MixedStep
  <1>2. GoodAction(OverAction(name))
    BY DEF GoodAction, OverAction, Ends
  <1> DEFINE p == played[Last]
             q == [p EXCEPT !.status = name]
  <1>3. Last \in 1..Last /\ p \in PlayedType /\ played \in Seq(PlayedType) /\ Last = Len(played)
    BY <1>1, LastPlayed DEF TableTyped, Last
  <1>4. q \in PlayedType /\ q.first = p.first /\ q.status = name /\ q.decisions = p.decisions
    BY <1>3 DEF PlayedType, Ends, Endings
  <1>5. played' = [played EXCEPT ![Last] = q]
    BY <1>1
  <1> HIDE DEF q
  <1>6. /\ played' \in Seq(PlayedType) /\ Len(played') = Len(played)
        /\ \A i \in 1..Len(played) : played'[i] = IF i = Last THEN q ELSE played[i]
    <2> HIDE DEF Last
    <2>1. Last \in 1..Len(played)
      BY <1>3
    <2> QED  BY <1>3, <1>4, <1>5, <2>1
  <1>7. Last' = Last
    BY <1>6 DEF Last
  <1>8. PlayedOn /\ played'[Last] = q
    BY <1>3, <1>4, <1>6, <1>7 DEF PlayedOn
  <1>9. TableTyped'
    BY <1>1, <1>6 DEF TableTyped, Steps
  <1> QED  BY <1>1, <1>2, <1>3, <1>4, <1>8, <1>9

LEMMA OverKeepsTyped ==
    ASSUME TilesInv, NEW name \in Ends, RoundOver(name)
    PROVE  TilesInv'
  <1>1. TableTyped /\ ReplayTyped /\ Begun /\ TilesKept
    BY DEF TilesInv
  <1>2. /\ TableTyped' /\ table' = table /\ wall' = wall /\ PlayedOn
        /\ Replay(OverAction(name)) /\ GoodAction(OverAction(name)) /\ MixedStep
    BY <1>1, OverFacts
  <1>3. ReplayTyped' /\ length' = length + 1 /\ length \in Nat
    BY <1>1, <1>2, ReplayKeepsTyped DEF OverAction, ReplayTyped
  <1>4. Begun'
    <2>1. ASSUME NEW i \in 1..Last PROVE played'[i].first < length'
      <3>1. played[i].first < length /\ played[i].first \in Nat /\ played'[i].first = played[i].first
        BY <1>1, <1>2, LastPlayed DEF Begun, PlayedType, PlayedOn
      <3> QED  BY <1>3, <3>1
    <2> QED  BY <1>2, <2>1 DEF Begun, PlayedOn
  <1>5. TilesKept'
    BY <1>1, <1>2 DEF TilesKept
  <1> QED  BY <1>2, <1>3, <1>4, <1>5 DEF TilesInv

(* A round that ends as it was played is finished as it was played; the     *)
(* scores that its end names are the ones the replay has.                   *)
LEMMA OverRebuilds ==
    ASSUME RoundsInv, NEW name \in Ends, RoundOver(name)
    PROVE  /\ RoundsGrow
           /\ ActionsOf(Last)' \cap Spoils' = {} => Rebuilt(Last)'
  <1>1. TableTyped /\ ReplayTyped /\ Begun /\ Follows
    BY DEF RoundsInv, TilesInv
  <1> DEFINE a == OverAction(name)
  <1>2. /\ step \notin {"deal", "end"} /\ Replay(a) /\ PlayedOn /\ Last \in 1..Last
        /\ played'[Last].decisions = played[Last].decisions /\ played'[Last].status = name
        /\ GoodAction(a) /\ MixedStep
    BY <1>1, OverFacts
  <1>3. /\ length \in Nat /\ length' = length + 1 /\ a.at = length /\ a.name = name
        /\ a.oldScores = table.board.scores /\ Spoils \subseteq Spoils' /\ name \in Endings
    BY <1>1, <1>2, ReplayKeepsTyped DEF OverAction, ReplayTyped, Ends, Endings
  <1>4. NotDecodable(a) \/ (FinishRound(a) /\ lost' = lost)
    BY <1>2, <1>3 DEF Replay, NewRound, ApplyToRound, OutsideRound, InRound, Ends
  <1>5. round # NoRound => /\ round \in RoundType /\ CheckScores(round, a) \in RoundType
                           /\ CheckScores(round, a) # NoRound
    BY <1>1, <1>3, ChecksAdvance, RoundFields DEF ReplayTyped, Advances
  <1>6. RoundsGrow
    <2>1. CASE NotDecodable(a)
      BY <2>1 DEF NotDecodable, RoundsGrow
    <2>2. CASE FinishRound(a)
      <3>1. rounds' = IF round = NoRound THEN rounds ELSE Finish(CheckScores(round, a), name)
        BY <1>3, <2>2 DEF FinishRound
      <3>2. CASE round = NoRound
        BY <3>1, <3>2 DEF RoundsGrow
      <3>3. CASE round # NoRound
        <4> DEFINE r == CheckScores(round, a)
        <4>1. r \in RoundType /\ rounds' = Finish(r, name)
          BY <1>5, <3>1, <3>3
        <4> HIDE DEF r
        <4> QED  BY <1>1, <1>3, <4>1, FinishType DEF RoundsGrow
      <3> QED  BY <3>2, <3>3
    <2> QED  BY <1>4, <2>1, <2>2
  <1>7. ASSUME ActionsOf(Last)' \cap Spoils' = {} PROVE Rebuilt(Last)'
    <2> DEFINE first == played[Last].first
    <2>1. first \in Nat /\ first < length
      BY <1>1, <1>2, LastPlayed DEF Begun, PlayedType
    <2>2. ActionsOf(Last)' = first..(length' - 1)
      BY <1>2 DEF ActionsOf, PlayedOn
    <2> HIDE DEF first
    <2>3. length \in first..(length' - 1) /\ \A x \in first..(length - 1) : x \in first..(length' - 1)
      BY <1>3, <2>1
    <2>4. length \notin Spoils'
      BY <1>7, <2>2, <2>3
    <2>5. FinishRound(a) /\ lost' = lost
      BY <1>3, <1>4, <2>4 DEF NotDecodable, Spoils
    <2>6. Unspoiled
      BY <1>3, <1>7, <2>2, <2>3 DEF Unspoiled, first
    <2>7. /\ round # NoRound
          /\ round.first = first /\ round.state = table
          /\ round.decisions = played[Last].decisions
          /\ round.issues = {} /\ round \in RoundType
      BY <1>1, <1>2, <2>6 DEF Follows, first, ReplayTyped
    <2>8. CheckScores(round, a) = round
      BY <1>3, <2>7, ChecksAdvance
    <2>9. rounds' = Finish(round, name)
      BY <1>3, <2>5, <2>7, <2>8 DEF FinishRound
    <2>10. PICK j \in DOMAIN rounds' :
              /\ rounds'[j].first = round.first /\ rounds'[j].decisions = round.decisions
              /\ rounds'[j].issues = round.issues /\ rounds'[j].status = name
      BY SMTT(30), <1>1, <1>3, <2>7, <2>9, FinishType
    <2>11. Last' = Last /\ played'[Last].first = first
      BY <1>2 DEF PlayedOn, first
    <2> QED  BY <1>2, <2>7, <2>10, <2>11 DEF Rebuilt
  <1> QED  BY <1>6, <1>7

LEMMA OverKeepsInv ==
    ASSUME RoundsInv, NEW name \in Ends, RoundOver(name)
    PROVE  RoundsInv'
  <1>1. TilesInv /\ TableTyped /\ ReplayTyped /\ Begun /\ PonsSeen /\ AllRebuilt
    BY DEF RoundsInv, TilesInv
  <1>2. /\ step' = "deal" /\ table' = table /\ wall' = wall /\ PlayedOn /\ Last \in 1..Last
        /\ Replay(OverAction(name)) /\ GoodAction(OverAction(name)) /\ MixedStep
    BY <1>1, OverFacts
  <1>3. Spoils \subseteq Spoils'
    BY <1>1, <1>2, ReplayKeepsTyped DEF OverAction
  <1>4. DiscardSeen' /\ PonsSeen' /\ Follows'
    BY <1>1, <1>2 DEF DiscardSeen, PonsSeen, Follows
  <1>5. AllRebuilt'
    <2>1. ASSUME NEW i \in 1..Last, ActionsOf(i)' \cap Spoils' = {} PROVE Rebuilt(i)'
      <3>1. CASE i = Last
        <4>1. Last' = Last
          BY <1>2 DEF PlayedOn
        <4> QED  BY <2>1, <3>1, <4>1, OverRebuilds
      <3>2. CASE i # Last
        <4>1. i < Last /\ i + 1 \in 1..Last
          BY <1>1, <3>2, LastPlayed
        <4>2. ActionsOf(i)' = ActionsOf(i) /\ played'[i] = played[i]
          BY <1>2, <4>1 DEF ActionsOf, PlayedOn
        <4>3. Rebuilt(i)
          BY <1>1, <1>3, <2>1, <4>1, <4>2 DEF AllRebuilt, Over
        <4> QED  BY <4>2, <4>3, OverRebuilds, RebuiltStays
      <3> QED  BY <3>1, <3>2
    <2> QED  BY <1>2, <2>1 DEF AllRebuilt, PlayedOn
  <1> QED  BY <1>1, <1>4, <1>5, OverKeepsTyped DEF RoundsInv

LEMMA EndKeepsTyped ==
    ASSUME TilesInv, EndRecord
    PROVE  TilesInv' /\ RoundsGrow
  <1>1. TableTyped /\ ReplayTyped /\ Begun /\ TilesKept
    BY DEF TilesInv
  <1>2. /\ step' = "end" /\ rounds' = Finish(round, "truncated") /\ round' = NoRound
        /\ UNCHANGED <<table, wall, turn, declared, played, length, lost, mixed, issues>>
    BY DEF EndRecord
  <1>3. rounds' \in Seq(RoundType) /\ RoundsGrow
    BY <1>1, <1>2, FinishType DEF ReplayTyped, RoundsGrow, Endings
  <1>4. TableTyped'
    BY <1>1, <1>2 DEF TableTyped, Steps, Last
  <1>5. ReplayTyped' /\ Begun' /\ TilesKept'
    BY <1>1, <1>2, <1>3 DEF ReplayTyped, Begun, TilesKept, Last
  <1> QED  BY <1>3, <1>4, <1>5 DEF TilesInv

LEMMA EndKeepsInv ==
    ASSUME RoundsInv, EndRecord
    PROVE  RoundsInv'
  <1>1. TilesInv /\ TableTyped /\ ReplayTyped /\ Begun /\ PonsSeen /\ AllRebuilt /\ Follows
    BY DEF RoundsInv, TilesInv
  <1>2. /\ step # "end" /\ step' = "end" /\ rounds' = Finish(round, "truncated") /\ round' = NoRound
        /\ UNCHANGED <<table, wall, turn, declared, played, length, lost, mixed, issues>>
    BY DEF EndRecord
  <1>3. TilesInv' /\ RoundsGrow
    BY <1>1, EndKeepsTyped
  <1>4. DiscardSeen' /\ PonsSeen' /\ Follows'
    BY <1>1, <1>2 DEF DiscardSeen, PonsSeen, Follows
  <1>5. AllRebuilt'
    <2>1. ASSUME NEW i \in 1..Last, ActionsOf(i) \cap Spoils = {} PROVE Rebuilt(i)'
      <3>1. CASE Over(i)
        <4>1. Rebuilt(i)
          BY <1>1, <2>1, <3>1 DEF AllRebuilt
        <4> QED  BY <1>2, <1>3, <4>1, RebuiltStays
      <3>2. CASE ~ Over(i)
        <4>1. i = Last /\ step \notin {"deal", "end"}
          BY <1>1, <3>2, LastPlayed DEF Over
        <4>2. Unspoiled
          BY <2>1, <4>1 DEF ActionsOf, Unspoiled
        <4>3. /\ round # NoRound /\ round \in RoundType
              /\ round.first = played[Last].first
              /\ round.decisions = played[Last].decisions
              /\ round.issues = {} /\ played[Last].status = "truncated"
          BY <1>1, <4>1, <4>2 DEF Follows, ReplayTyped
        <4>4. PICK j \in DOMAIN rounds' :
                /\ rounds'[j].first = round.first /\ rounds'[j].decisions = round.decisions
                /\ rounds'[j].issues = round.issues /\ rounds'[j].status = "truncated"
          <5>1. "truncated" \in Endings
            BY DEF Endings
          <5> DEFINE ended == Finish(round, "truncated")
          <5>2. \E j \in DOMAIN ended :
                  /\ ended[j].first = round.first /\ ended[j].decisions = round.decisions
                  /\ ended[j].issues = round.issues /\ ended[j].status = "truncated"
            BY <1>1, <4>3, <5>1, FinishType
          <5>3. rounds' = ended
            BY <1>2
          <5> HIDE DEF ended
          <5> QED  BY <5>2, <5>3
        <4> QED  BY <1>2, <4>1, <4>3, <4>4 DEF Rebuilt
      <3> QED  BY <3>1, <3>2
    <2>2. Last' = Last /\ Spoils' = Spoils /\ \A i \in 1..Last : ActionsOf(i)' = ActionsOf(i)
      BY <1>2 DEF Last, ActionsOf, Spoils
    <2> QED  BY <1>2, <2>1, <2>2 DEF AllRebuilt
  <1> QED  BY <1>3, <1>4, <1>5 DEF RoundsInv

-----------------------------------------------------------------------------
(***************************************************************************)
(* The theorems.                                                           *)
(***************************************************************************)
LEMMA InitHolds ==
    ASSUME Init
    PROVE  RoundsInv
  <1>1. /\ table = NewState([s \in Seats |-> [t \in Tiles |-> 0]], 0)
        /\ wall = [t \in Tiles |-> 0] /\ turn = 0 /\ step = "deal" /\ declared = None
        /\ played = << >> /\ length = 0 /\ lost = {} /\ mixed = {}
        /\ round = NoRound /\ rounds = << >> /\ issues = {}
    BY DEF Init
  <1>2. table \in StateType
    <2>1. [s \in Seats |-> [t \in Tiles |-> 0]] \in Hands
      BY DEF Hands
    <2>2. NewBoard(0) \in BoardType
      BY TableAssumption DEF NewBoard, BoardType
    <2> QED  BY <1>1, <2>1, <2>2 DEF NewState, StateType
  <1>3. Last = 0
    BY <1>1 DEF Last
  <1>4. TableTyped
    BY <1>1, <1>2, <1>3, SeatsAre DEF TableTyped, Steps
  <1>5. ReplayTyped
    BY <1>1, TableAssumption DEF ReplayTyped
  <1>6. TilesKept
    <2>1. \A s \in Seats, t \in Tiles : table.hand[s][t] = 0 /\ wall[t] = 0 /\ Copies[t] \in Nat
      BY <1>1, CopiesType DEF NewState
    <2> QED  BY <2>1 DEF TilesKept
  <1>7. PonsSeen
    <2>1. \A s \in Seats : table.board.melds[s] = << >>
      BY <1>1 DEF NewState, NewBoard
    <2> QED  BY <2>1 DEF PonsSeen
  <1>8. Begun /\ AllRebuilt
    <2>1. \A i \in 1..Last : FALSE
      BY <1>3
    <2> QED  BY <2>1 DEF Begun, AllRebuilt
  <1>9. DiscardSeen /\ Follows
    BY <1>1 DEF DiscardSeen, Follows
  <1> QED  BY <1>4, <1>5, <1>6, <1>7, <1>8, <1>9 DEF RoundsInv, TilesInv

LEMMA StutterKeeps ==
    ASSUME UNCHANGED vars
    PROVE  (TilesInv => TilesInv') /\ (RoundsInv => RoundsInv')
  <1>1. TilesInv => TilesInv'
    BY DEF vars, TilesInv, TableTyped, ReplayTyped, Begun, TilesKept, Last
  <1>2. RoundsInv => RoundsInv'
    BY <1>1 DEF vars, RoundsInv, DiscardSeen, River, PonsSeen, Follows, Unspoiled, Spoils, AllRebuilt, Rebuilt,
                Over, ActionsOf, Last
  <1> QED  BY <1>1, <1>2

(* Tiles only move: no hand, and no wall, ever has more of a tile than      *)
(* there is, whatever does not decode.                                      *)
THEOREM TilesInvariant == Spec => []TilesInv
  <1>1. Init => TilesInv
    BY InitHolds DEF RoundsInv
  <1>2. TilesInv /\ [Next]_vars => TilesInv'
    <2> SUFFICES ASSUME TilesInv, [Next]_vars PROVE TilesInv'
      OBVIOUS
    <2>1. ASSUME DealHands PROVE TilesInv'
      BY <2>1, DealKeepsTyped
    <2>2. ASSUME NEW t \in Tiles, Draw(t) PROVE TilesInv'
      <3>1. TableTyped /\ ReplayTyped /\ Begun /\ TilesKept
        BY DEF TilesInv
      <3> QED  BY <2>2, <3>1, DrawTyped, DrawFacts, DrawKeepsTiles, ReplayKeepsTyped, MoveKeepsBegun
               DEF TilesInv, Move
    <2>3. ASSUME NEW t \in Tiles, Discard(t) PROVE TilesInv'
      BY <2>3, DiscardKeepsTyped
    <2>4. ASSUME NEW t \in Tiles, AddedKan(t) PROVE TilesInv'
      BY <2>4, AddedKanKeepsTyped
    <2>5. ASSUME NEW s \in Seats, NEW n \in {2, 3}, Call(s, n) PROVE TilesInv'
      BY <2>5, CallKeepsTyped
    <2>6. ASSUME NEW k \in Kinds, ClosedKan(k) PROVE TilesInv'
      BY <2>6, ClosedKanKeepsTyped
    <2>7. ASSUME NEW name \in Ends, RoundOver(name) PROVE TilesInv'
      BY <2>7, OverKeepsTyped
    <2>8. ASSUME EndRecord PROVE TilesInv'
      BY <2>8, EndKeepsTyped
    <2>9. ASSUME UNCHANGED vars PROVE TilesInv'
      BY <2>9, StutterKeeps
    <2> QED  BY <2>1, <2>2, <2>3, <2>4, <2>5, <2>6, <2>7, <2>8, <2>9 DEF Next, Ended
  <1> QED  BY <1>1, <1>2, PTL DEF Spec

(* Every hand and the wall hold the tiles of the set, the replay's hands    *)
(* never go below zero, and every issue names an action of the record.      *)
THEOREM RoundsTyped == Spec => []TypeOK
  <1>1. TilesInv => TypeOK
    <2> SUFFICES ASSUME TilesInv PROVE TypeOK
      OBVIOUS
    <2>1. TableTyped /\ ReplayTyped /\ TilesKept
      BY DEF TilesInv
    <2>2. ASSUME NEW s \in Seats, NEW t \in Tiles
          PROVE  table.hand[s][t] \in 0..Copies[t] /\ wall[t] \in 0..Copies[t]
      <3>1. table.hand[s][t] \in Nat /\ wall[t] \in Nat /\ Copies[t] \in Nat
        BY <2>1, HeldIsNat
      <3>2. table.hand[s][t] + wall[t] <= Copies[t]
        BY <2>1 DEF TilesKept
      <3> QED  BY <3>1, <3>2
    <2>3. length \in 0..MaxActions
      BY <2>1, TableAssumption DEF ReplayTyped
    <2>4. round # NoRound => /\ round.state.hand \in [Seats -> [Tiles -> Nat]]
                             /\ round.state.last \in [Seats -> Tiles \cup {None}]
                             /\ round.issues \subseteq 0..(length - 1)
      BY <2>1, RoundFields, StateFields DEF ReplayTyped, Hands
    <2> QED  BY <2>1, <2>2, <2>3, <2>4 DEF TypeOK, TableTyped, ReplayTyped
  <1> QED  BY <1>1, TilesInvariant, PTL

(* While nothing of a round is lost the replay is in the state of the      *)
(* table, and the rounds that are over were rebuilt                         *)
(* (Rounds and applyToRound in internal/extract/extract.go).                *)
THEOREM RoundsInvariant == Spec => []RoundsInv
  <1>1. Init => RoundsInv
    BY InitHolds
  <1>2. RoundsInv /\ [Next]_vars => RoundsInv'
    <2> SUFFICES ASSUME RoundsInv, [Next]_vars PROVE RoundsInv'
      OBVIOUS
    <2>1. ASSUME DealHands PROVE RoundsInv'
      BY <2>1, DealKeepsInv
    <2>2. ASSUME NEW t \in Tiles, Draw(t) PROVE RoundsInv'
      BY <2>2, DrawKeepsInv
    <2>3. ASSUME NEW t \in Tiles, Discard(t) PROVE RoundsInv'
      BY <2>3, DiscardKeepsInv
    <2>4. ASSUME NEW t \in Tiles, AddedKan(t) PROVE RoundsInv'
      BY <2>4, AddedKanKeepsInv
    <2>5. ASSUME NEW s \in Seats, NEW n \in {2, 3}, Call(s, n) PROVE RoundsInv'
      BY <2>5, CallKeepsInv
    <2>6. ASSUME NEW k \in Kinds, ClosedKan(k) PROVE RoundsInv'
      BY <2>6, ClosedKanKeepsInv
    <2>7. ASSUME NEW name \in Ends, RoundOver(name) PROVE RoundsInv'
      BY <2>7, OverKeepsInv
    <2>8. ASSUME EndRecord PROVE RoundsInv'
      BY <2>8, EndKeepsInv
    <2>9. ASSUME UNCHANGED vars PROVE RoundsInv'
      BY <2>9, StutterKeeps
    <2> QED  BY <2>1, <2>2, <2>3, <2>4, <2>5, <2>6, <2>7, <2>8, <2>9 DEF Next, Ended
  <1> QED  BY <1>1, <1>2, PTL DEF Spec

(* A round none of whose actions was lost is rebuilt exactly, whatever was  *)
(* lost of the rounds around it (extract.go:99-101), unless it has a closed *)
(* kan with a red five, where it need not be: the run rounds_kan.           *)
THEOREM UnspoiledRebuilt == Spec => []UnspoiledRounds
  <1>1. RoundsInv => UnspoiledRounds
    BY DEF RoundsInv, AllRebuilt, Over, Rebuilt, Spoils, UnspoiledRounds
  <1> QED  BY <1>1, RoundsInvariant, PTL
=============================================================================
