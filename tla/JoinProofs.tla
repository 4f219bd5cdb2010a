------------------------------ MODULE JoinProofs ------------------------------
(***************************************************************************)
(* Proofs about MakaJoin, for any number of seats, any record, any actions *)
(* lost of it and any comments of MAKA: an event of a report reaches the   *)
(* move that answered it, and goes astray only over lost actions.          *)
(***************************************************************************)
EXTENDS MakaJoin, FiniteSetTheorems, WellFoundedInduction, TLAPS

(* The record is what the table wrote, and the rounds and decisions are of  *)
(* actions that decode.                                                     *)
RecordSound ==
    /\ actions \in Seq([name : Names, who : SUBSET Seats, status : Statuses])
    /\ Len(actions) <= MaxActions
    /\ turn \in Seats /\ step \in Steps /\ open \in BOOLEAN
    /\ firsts = {p \in Positions : Decoded(p, "NewRound")}
    /\ decisions \subseteq {p \in Positions : Decoded(p, "DiscardTile")}
    /\ \A p \in Positions : actions[p].name = "DiscardTile" => \E s \in Seats : actions[p].who = {s}

(* A record begins with a round, and a round that is over is followed by    *)
(* the next one.                                                            *)
Overs == {"Hule", "LiuJu"}
Outside == {"deal", "join", "end"}
RoundsBegin ==
    /\ Len(actions) > 0 => actions[1].name = "NewRound"
    /\ step \notin Outside => Len(actions) > 0
    /\ \A p \in Positions : actions[p].name \in Overs =>
           \/ p = Len(actions) /\ step \in Outside
           \/ p < Len(actions) /\ actions[p + 1].name = "NewRound"

(* After an event that is not about a discard the table waits for its seat, *)
(* and the next action is that seat's move, or ends the round without one.  *)
Moves == {"DiscardTile", "AnGangAddGang", "Hule"}
NextAfter(p, q) == q > p /\ TypeOne(q) /\ \A n \in (p + 1)..(q - 1) : ~TypeOne(n)
SeatMoves(e) == LET p == events[e].trigger IN actions[p].name # "DiscardTile" =>
    /\ \A q \in Positions : NextAfter(p, q) =>
           \/ actions[q].name = "LiuJu"
           \/ actions[q].name \in Moves /\ actions[q].who = {events[e].seat}
    /\ \/ \E q \in Positions : q > p /\ TypeOne(q)
       \/ step \in {"act", "discard"} /\ turn = events[e].seat
       \/ step \in {"join", "end"}

EventsSound ==
    /\ events \in Seq([trigger : Nat, index : Nat, seat : Seats])
    /\ \A e \in DOMAIN events :
        /\ events[e].trigger \in Positions /\ TypeOne(events[e].trigger)
        /\ events[e].index = RecordIndex(events[e].trigger)
        /\ SeatMoves(e)
    /\ \A e, f \in DOMAIN events : e < f =>
        /\ events[e].trigger <= events[f].trigger
        /\ events[e].trigger = events[f].trigger => events[e].seat # events[f].seat

(* A discard of a round of which nothing before it is lost is a decision.   *)
Whole(q) == \A n \in TrueFirst(q)..q : actions[n].status = "decoded"
DecisionsKept ==
    /\ \A q \in Positions : actions[q].name = "DiscardTile" /\ Whole(q) => q \in decisions
    /\ step \notin Outside /\ Whole(Len(actions)) => open

JoinTyped ==
    /\ maka \in [1..MaxActions -> Nat]
    /\ next \in 1..(Len(events) + 1)
    /\ step \notin {"join", "end"} => next = 1
    /\ step = "join" => firsts # {}
    /\ step = "end" /\ firsts # {} => next = Len(events) + 1
    /\ \A p \in 1..MaxActions : maka[p] # 0 => maka[p] < next
    /\ \A s \in side : s.kind \in Kinds /\ s.event < next /\ s.event \in Nat /\ s.round \in firsts
    /\ \A i \in issues : i.event < next /\ i.event \in Nat /\ i.why \in Whys

Answered(e, q) ==
    /\ q \in decisions
    /\ q \in Answers(events[e].trigger, events[e].seat)
    /\ \A a \in Answers(events[e].trigger, events[e].seat) : q <= a

JoinSound ==
    /\ \A q \in 1..MaxActions : maka[q] # 0 => Answered(maka[q], q)
    /\ \A e \in 1..(next - 1) : Intact(events[e].trigger) => JoinedRightly(e)

JoinInv == RecordSound /\ RoundsBegin /\ EventsSound /\ DecisionsKept /\ JoinTyped /\ JoinSound

-----------------------------------------------------------------------------
(***************************************************************************)
(* Numbers and finite sets.                                                *)
(***************************************************************************)
LEMMA LeastOfNaturals ==
    ASSUME NEW S, S \subseteq Nat, S # {}
    PROVE  Min(S) \in S /\ \A y \in S : Min(S) <= y
  <1> DEFINE R == {p \in Nat \X Nat : p[1] < p[2]}
  <1>1. IsWellFoundedOn(R, Nat)
    BY NatLessThanWellFounded DEF OpToRel
  <1>2. \A x, y \in Nat : <<y, x>> \in R <=> y < x
    OBVIOUS
  <1> HIDE DEF R
  <1>3. PICK x \in S : \A y \in S : ~ (<<y, x>> \in R)
    BY <1>1, WFMin
  <1>4. ASSUME NEW y \in S PROVE x <= y
    <2>1. x \in Nat /\ y \in Nat
      OBVIOUS
    <2>2. ~ (y < x)
      BY <1>2, <1>3, <2>1
    <2> QED  BY <2>1, <2>2
  <1> QED  BY <1>4 DEF Min

LEMMA MinIs ==
    ASSUME NEW S, S \subseteq Nat, NEW m \in S, \A k \in S : m <= k
    PROVE  Min(S) = m
  <1>1. ASSUME NEW x \in S, \A k \in S : x <= k PROVE x = m
    BY <1>1
  <1> QED  BY <1>1 DEF Min

LEMMA MaxIs ==
    ASSUME NEW S, S \subseteq Nat, NEW m \in S, \A k \in S : k <= m
    PROVE  Max(S) = m
  <1>1. m \in S /\ \A k \in S : m >= k
    OBVIOUS
  <1>2. ASSUME NEW x \in S, \A k \in S : x >= k PROVE x = m
    BY <1>2
  <1> QED  BY <1>1, <1>2 DEF Max

LEMMA MaxOfBounded ==
    ASSUME NEW n \in Nat, NEW S, S \subseteq 0..n, S # {}
    PROVE  Max(S) \in S /\ \A k \in S : k <= Max(S)
  <1> DEFINE below == {n - k : k \in S}
  <1>1. below \subseteq Nat /\ below # {}
    <2>1. ASSUME NEW k \in S PROVE n - k \in Nat
      <3>1. k \in 0..n
        OBVIOUS
      <3> QED  BY <3>1
    <2> QED  BY <2>1
  <1>2. PICK x \in below : \A y \in below : x <= y
    BY <1>1, LeastOfNaturals
  <1>3. PICK m \in S : x = n - m
    BY <1>2
  <1>4. ASSUME NEW k \in S PROVE k <= m
    <2>1. n - m <= n - k
      BY <1>2, <1>3
    <2>2. k \in 0..n /\ m \in 0..n
      OBVIOUS
    <2> QED  BY <2>1, <2>2
  <1>5. Max(S) = m
    <2>1. S \subseteq Nat
      OBVIOUS
    <2> QED  BY <1>4, <2>1, MaxIs
  <1> QED  BY <1>4, <1>5

(* The elements of a finite set, each once, in some order.                  *)
LEMMA SeqOfSet ==
    ASSUME NEW S, IsFiniteSet(S)
    PROVE  /\ SetToSeq(S) \in [1..Cardinality(S) -> S] /\ IsInjective(SetToSeq(S))
           /\ SetToSeq(S) \in Seq(S) /\ Len(SetToSeq(S)) = Cardinality(S)
           /\ Cardinality(S) \in Nat
  <1>1. Cardinality(S) \in Nat /\ ExistsBijection(1..Cardinality(S), S)
    BY FS_CardinalityType
  <1>2. PICK f \in [1..Cardinality(S) -> S] : IsInjective(f)
    BY <1>1 DEF ExistsBijection, Bijection, Injection
  <1>3. SetToSeq(S) \in [1..Cardinality(S) -> S] /\ IsInjective(SetToSeq(S))
    BY <1>2 DEF SetToSeq
  <1> QED  BY <1>1, <1>3

-----------------------------------------------------------------------------
(***************************************************************************)
(* The record.                                                             *)
(***************************************************************************)
ActionType == [name : Names, who : SUBSET Seats, status : Statuses]

(* A position of the record, and the round it is in.                        *)
LEMMA ActionTyped ==
    ASSUME RecordSound, NEW p \in Positions
    PROVE  /\ actions[p] \in ActionType /\ p \in Nat /\ p >= 1
           /\ Len(actions) \in Nat /\ p <= Len(actions)
  <1>1. actions \in Seq(ActionType)
    BY DEF RecordSound, ActionType
  <1>2. Len(actions) \in Nat /\ p \in 1..Len(actions)
    BY <1>1 DEF Positions
  <1>3. actions[p] \in ActionType
    BY <1>1, <1>2
  <1> QED  BY <1>2, <1>3

LEMMA RoundBegins ==
    ASSUME RecordSound, RoundsBegin, NEW p \in Positions
    PROVE  /\ TrueFirst(p) \in 1..p /\ TrueFirst(p) \in Positions
           /\ actions[TrueFirst(p)].name = "NewRound"
           /\ \A q \in 1..p : actions[q].name = "NewRound" => q <= TrueFirst(p)
  <1> DEFINE begun == {q \in 1..p : actions[q].name = "NewRound"}
  <1>1. p \in Nat /\ p >= 1 /\ Len(actions) \in Nat /\ p <= Len(actions)
    BY ActionTyped
  <1>2. 1 \in begun /\ begun \subseteq 0..p
    BY <1>1 DEF RoundsBegin
  <1>3. Max(begun) \in begun /\ \A q \in begun : q <= Max(begun)
    BY <1>1, <1>2, MaxOfBounded
  <1>4. TrueFirst(p) = Max(begun)
    BY DEF TrueFirst
  <1> HIDE DEF begun
  <1>5. TrueFirst(p) \in begun
    BY <1>3, <1>4
  <1> QED  BY <1>1, <1>3, <1>4, <1>5 DEF begun, Positions

LEMMA RoundBeginsAt ==
    ASSUME RecordSound, NEW p \in Positions, NEW f \in 1..p, actions[f].name = "NewRound",
           \A q \in 1..p : actions[q].name = "NewRound" => q <= f
    PROVE  TrueFirst(p) = f
  <1> DEFINE begun == {q \in 1..p : actions[q].name = "NewRound"}
  <1>1. f \in begun /\ begun \subseteq Nat /\ \A q \in begun : q <= f
    OBVIOUS
  <1>2. Max(begun) = f
    BY <1>1, MaxIs
  <1> QED  BY <1>2 DEF TrueFirst

(* One action more leaves what was there as it was.                         *)
Written(a) == actions' = Append(actions, a) /\ a \in ActionType

LEMMA Grown ==
    ASSUME RecordSound, NEW a, Written(a)
    PROVE  /\ Len(actions) \in Nat /\ Len(actions') = Len(actions) + 1
           /\ actions' \in Seq(ActionType)
           /\ Positions' = Positions \cup {Len(actions) + 1}
           /\ Len(actions) + 1 \notin Positions
           /\ actions'[Len(actions) + 1] = a
           /\ \A p \in Positions : p \in 1..Len(actions) /\ actions'[p] = actions[p]
  BY DEF RecordSound, Positions, Written, ActionType

LEMMA SameRound ==
    ASSUME RecordSound, RoundsBegin, NEW a, Written(a), NEW p \in Positions
    PROVE  TrueFirst(p)' = TrueFirst(p)
  <1>1. p \in 1..Len(actions) /\ \A q \in 1..p : q \in Positions
    BY Grown DEF Positions
  <1>2. {q \in 1..p : actions'[q].name = "NewRound"} = {q \in 1..p : actions[q].name = "NewRound"}
    BY <1>1, Grown
  <1> QED  BY <1>2 DEF TrueFirst

LEMMA SameIndex ==
    ASSUME RecordSound, NEW a, Written(a), NEW p \in Positions \cup {Len(actions) + 1}
    PROVE  RecordIndex(p)' = RecordIndex(p)
  <1>1. \A q \in 1..(p - 1) : q \in Positions
    BY Grown DEF Positions
  <1>2. {q \in 1..(p - 1) : actions'[q].name # "input"} = {q \in 1..(p - 1) : actions[q].name # "input"}
    BY <1>1, Grown
  <1> QED  BY <1>2 DEF RecordIndex, TypeOne

(* The new action begins a round, or belongs to the one the record was in.  *)
LEMMA NewestRound ==
    ASSUME RecordSound, RoundsBegin, NEW a, Written(a), NEW at, at = Len(actions) + 1
    PROVE  /\ a.name = "NewRound" => TrueFirst(at)' = at
           /\ a.name # "NewRound" /\ Len(actions) > 0 => TrueFirst(at)' = TrueFirst(Len(actions))
  <1> DEFINE begun == {q \in 1..at : actions'[q].name = "NewRound"}
  <1>1. /\ Len(actions) \in Nat /\ actions'[at] = a
        /\ \A p \in 1..Len(actions) : actions'[p] = actions[p]
    <2>1. /\ actions'[Len(actions) + 1] = a /\ Len(actions) \in Nat
          /\ \A p \in Positions : actions'[p] = actions[p]
      BY Grown
    <2> QED  BY <2>1 DEF Positions
  <1>2. TrueFirst(at)' = Max(begun)
    BY DEF TrueFirst
  <1>3. ASSUME a.name = "NewRound" PROVE Max(begun) = at
    <2>1. at \in begun /\ begun \subseteq Nat /\ \A q \in begun : q <= at
      BY <1>1, <1>3
    <2> HIDE DEF begun
    <2> QED  BY <2>1, MaxIs
  <1>4. ASSUME a.name # "NewRound", Len(actions) > 0
        PROVE  Max(begun) = TrueFirst(Len(actions))
    <2>1. Len(actions) \in Positions
      BY <1>1, <1>4 DEF Positions
    <2>2. /\ TrueFirst(Len(actions)) \in 1..Len(actions)
          /\ actions[TrueFirst(Len(actions))].name = "NewRound"
          /\ \A q \in 1..Len(actions) : actions[q].name = "NewRound" => q <= TrueFirst(Len(actions))
      BY <2>1, RoundBegins
    <2>3. TrueFirst(Len(actions)) \in begun
      BY <1>1, <2>2
    <2>4. \A q \in begun : q <= TrueFirst(Len(actions))
      BY <1>1, <1>4, <2>2
    <2>5. begun \subseteq Nat
      BY <1>1
    <2> HIDE DEF begun
    <2> QED  BY <2>3, <2>4, <2>5, MaxIs
  <1> QED  BY <1>2, <1>3, <1>4

-----------------------------------------------------------------------------
(***************************************************************************)
(* The moves of the table.                                                 *)
(***************************************************************************)
(* Which action is written when, who makes it, whom MAKA may comment on,    *)
(* and what the table waits for afterwards.                                 *)
Move(name, who, asked) ==
    \/ /\ name = "NewRound" /\ who = {} /\ asked = {0}
       /\ step = "deal" /\ step' = "act" /\ turn' = 0
    \/ /\ name = "DealTile" /\ who = {turn'} /\ asked = {turn'}
       /\ step \in {"claim", "replace"} /\ step' = "act" /\ turn' \in Seats
    \/ /\ name = "DiscardTile" /\ who = {turn} /\ asked \subseteq Seats
       /\ step \in {"act", "discard"} /\ step' = "claim" /\ turn' = turn
    \/ /\ name = "ChiPengGang" /\ who = {turn'} /\ asked \subseteq {turn'}
       /\ step = "claim" /\ step' \in {"discard", "replace"} /\ turn' \in Seats
       /\ asked # {} => step' = "discard"
    \/ /\ name = "AnGangAddGang" /\ who = {turn} /\ asked = {}
       /\ step = "act" /\ step' = "replace" /\ turn' = turn
    \/ /\ name = "Hule" /\ who \subseteq Seats /\ asked = {}
       /\ step = "claim" \/ (step = "act" /\ who = {turn})
       /\ step' = "deal" /\ turn' = turn
    \/ /\ name = "LiuJu" /\ who = {} /\ asked = {}
       /\ step \in {"act", "claim"} /\ step' = "deal" /\ turn' = turn
    \/ /\ name = "input" /\ who = {} /\ asked = {}
       /\ step \in {"act", "discard", "claim"} /\ step' = step /\ turn' = turn

TableStep == \E name \in Names : \E who, asked \in SUBSET Seats :
    Move(name, who, asked) /\ Record(name, who, asked)

LEMMA TableMoves ==
    ASSUME RecordSound,
           \/ DealHands \/ Draw \/ Discard \/ Kan \/ Abort
           \/ (\E s \in Seats, kan \in BOOLEAN : Call(s, kan))
           \/ (\E winners \in SUBSET Seats : Win(winners))
    PROVE  TableStep
  <1>0. /\ turn \in Seats /\ 0 \in Seats
        /\ {"NewRound", "DealTile", "DiscardTile", "ChiPengGang", "AnGangAddGang", "Hule",
            "LiuJu"} \subseteq Names
    BY JoinAssumption DEF RecordSound, Seats, Names
  <1>1. CASE DealHands
    BY <1>0, <1>1 DEF DealHands, TableStep, Move
  <1>2. CASE Draw
    <2>1. turn' \in Seats
      <3>1. turn \in Int /\ Players \in Nat /\ Players > 0
        BY <1>0, JoinAssumption DEF Seats
      <3>2. (turn + 1) % Players \in Seats
        BY <3>1 DEF Seats
      <3> QED  BY <1>0, <1>2, <3>2 DEF Draw
    <2>2. Move("DealTile", {turn'}, {turn'}) /\ Record("DealTile", {turn'}, {turn'})
      BY <1>2, <2>1 DEF Draw, Move
    <2> QED  BY <1>0, <2>1, <2>2 DEF TableStep
  <1>3. CASE Discard
    <2>1. Move("DiscardTile", {turn}, Seats \ {turn}) /\ Record("DiscardTile", {turn}, Seats \ {turn})
      BY <1>3 DEF Discard, Move
    <2> QED  BY <1>0, <2>1 DEF TableStep
  <1>4. CASE Kan
    <2>1. Move("AnGangAddGang", {turn}, {}) /\ Record("AnGangAddGang", {turn}, {})
      BY <1>4 DEF Kan, Move
    <2> QED  BY <1>0, <2>1 DEF TableStep
  <1>5. CASE Abort
    <2>1. Move("LiuJu", {}, {}) /\ Record("LiuJu", {}, {})
      BY <1>5 DEF Abort, Move
    <2> QED  BY <1>0, <2>1 DEF TableStep
  <1>6. ASSUME NEW s \in Seats, NEW kan \in BOOLEAN, Call(s, kan) PROVE TableStep
    <2> DEFINE asked == IF kan THEN {} ELSE {s}
    <2>1. turn' = s /\ step = "claim" /\ step' = (IF kan THEN "replace" ELSE "discard")
          /\ Record("ChiPengGang", {s}, asked)
      BY <1>6 DEF Call
    <2>2. Move("ChiPengGang", {s}, asked)
      BY <2>1 DEF Move
    <2> QED  BY <1>0, <2>1, <2>2 DEF TableStep
  <1>7. ASSUME NEW winners \in SUBSET Seats, Win(winners) PROVE TableStep
    <2>1. Move("Hule", winners, {}) /\ Record("Hule", winners, {})
      BY <1>7 DEF Win, Move
    <2> QED  BY <1>0, <2>1 DEF TableStep
  <1> QED  BY <1>1, <1>2, <1>3, <1>4, <1>5, <1>6, <1>7

EventType == [trigger : Nat, index : Nat, seat : Seats]

(* Record writes the action, and the comments on it in some order.          *)
Recorded(name, who, asked, status, new) ==
    /\ Len(actions) + 1 <= MaxActions
    /\ Written([name |-> name, who |-> who, status |-> status])
    /\ events' = events \o new
    /\ \A i \in 1..Len(new) : /\ new[i].trigger = Len(actions) + 1
                              /\ new[i].index = RecordIndex(Len(actions) + 1)
                              /\ new[i].seat \in asked
    /\ \A i, j \in 1..Len(new) : i # j => new[i].seat # new[j].seat
    /\ Reconstruct(name, Len(actions) + 1, status = "decoded")
    /\ UNCHANGED <<next, maka, side, issues>>

LEMMA Recording ==
    ASSUME RecordSound, NEW name \in Names, NEW who \in SUBSET Seats,
           NEW asked \in SUBSET Seats, Record(name, who, asked)
    PROVE  \E status \in Statuses, new \in Seq(EventType) : Recorded(name, who, asked, status, new)
  <1> DEFINE at == Len(actions) + 1
  <1>1. PICK status \in Statuses, commented \in SUBSET asked :
          /\ at <= MaxActions
          /\ actions' = Append(actions, [name |-> name, who |-> who, status |-> status])
          /\ events' = events \o SetToSeq({[trigger |-> at, index |-> RecordIndex(at), seat |-> s] :
                                              s \in commented})
          /\ Reconstruct(name, at, status = "decoded")
          /\ UNCHANGED <<next, maka, side, issues>>
    BY DEF Record
  <1> DEFINE event(s) == [trigger |-> at, index |-> RecordIndex(at), seat |-> s]
             comments == {event(s) : s \in commented}
             new == SetToSeq(comments)
  <1>2. at \in Nat /\ RecordIndex(at) \in Nat
    <2>1. Len(actions) \in Nat
      BY DEF RecordSound
    <2>2. IsFiniteSet(1..(at - 1)) /\ {q \in 1..(at - 1) : TypeOne(q)} \subseteq 1..(at - 1)
      BY <2>1, FS_Interval
    <2>3. IsFiniteSet({q \in 1..(at - 1) : TypeOne(q)})
      BY <2>2, FS_Subset
    <2> QED  BY <2>1, <2>3, FS_CardinalityType DEF RecordIndex
  <1>3. IsFiniteSet(comments)
    <2>1. IsFiniteSet(Seats) /\ commented \in SUBSET Seats
      BY JoinAssumption, FS_Interval DEF Seats
    <2>2. IsFiniteSet(commented)
      BY <2>1, FS_Subset
    <2>3. [s \in commented |-> event(s)] \in Surjection(commented, comments)
      BY DEF Surjection
    <2> QED  BY <2>2, <2>3, FS_Surjection
  <1>4. comments \subseteq EventType /\ \A c \in comments :
            c.trigger = at /\ c.index = RecordIndex(at) /\ c.seat \in asked
    BY <1>2 DEF EventType
  <1>5. \A c, d \in comments : c.seat = d.seat => c = d
    OBVIOUS
  <1> HIDE DEF comments
  <1>6. /\ new \in [1..Cardinality(comments) -> comments] /\ IsInjective(new)
        /\ new \in Seq(comments) /\ Len(new) = Cardinality(comments) /\ Cardinality(comments) \in Nat
    BY <1>3, SeqOfSet
  <1>7. events' = events \o new
    BY <1>1 DEF comments
  <1> HIDE DEF new
  <1>8. new \in Seq(EventType)
    BY <1>4, <1>6
  <1>9. \A i \in 1..Len(new) : new[i] \in comments
    BY <1>6
  <1>10. \A i, j \in 1..Len(new) : i # j => new[i].seat # new[j].seat
    BY <1>5, <1>6, <1>9 DEF IsInjective
  <1>11. Written([name |-> name, who |-> who, status |-> status])
    BY <1>1 DEF Written, ActionType
  <1>12. Recorded(name, who, asked, status, new)
    BY <1>1, <1>4, <1>7, <1>9, <1>10, <1>11 DEF Recorded
  <1> QED  BY <1>8, <1>12

(* Every step that writes to the record; the operation of a client is one   *)
(* without comments, and without effect on the reconstruction.              *)
Grows(name, who, asked, status, new) ==
    /\ name \in Names /\ who \in SUBSET Seats /\ asked \in SUBSET Seats
    /\ status \in Statuses /\ new \in Seq(EventType)
    /\ Move(name, who, asked) /\ Recorded(name, who, asked, status, new)

LEMMA TableGrows ==
    ASSUME RecordSound, EventsSound,
           \/ DealHands \/ Draw \/ Discard \/ Kan \/ Abort \/ Input
           \/ (\E s \in Seats, kan \in BOOLEAN : Call(s, kan))
           \/ (\E winners \in SUBSET Seats : Win(winners))
    PROVE  \E name, who, asked, status, new : Grows(name, who, asked, status, new)
  <1>1. CASE Input
    <2>1. "input" \in Names /\ "decoded" \in Statuses
      BY DEF Names, Statuses
    <2>2. Move("input", {}, {})
      BY <1>1 DEF Input, Move
    <2>3. Written([name |-> "input", who |-> {}, status |-> "decoded"])
      BY <1>1, <2>1 DEF Input, Written, ActionType
    <2>4. << >> \in Seq(EventType) /\ Len(<< >>) = 0
      OBVIOUS
    <2>5. events' = events \o << >>
      BY <1>1 DEF Input, EventsSound
    <2>6. Reconstruct("input", Len(actions) + 1, TRUE)
      BY <1>1 DEF Input, Reconstruct
    <2>7. Len(actions) + 1 <= MaxActions
      BY <1>1, JoinAssumption DEF Input, RecordSound
    <2>8. \A i \in 1..0 : FALSE
      OBVIOUS
    <2>9. UNCHANGED <<next, maka, side, issues>>
      BY <1>1 DEF Input
    <2>10. Recorded("input", {}, {}, "decoded", << >>)
      BY <2>3, <2>4, <2>5, <2>6, <2>7, <2>8, <2>9 DEF Recorded
    <2> QED  BY <2>1, <2>2, <2>4, <2>10 DEF Grows
  <1>2. CASE TableStep
    <2>1. PICK name \in Names, who \in SUBSET Seats, asked \in SUBSET Seats :
            Move(name, who, asked) /\ Record(name, who, asked)
      BY <1>2 DEF TableStep
    <2>2. PICK status \in Statuses, new \in Seq(EventType) : Recorded(name, who, asked, status, new)
      BY <2>1, Recording
    <2>3. Grows(name, who, asked, status, new)
      BY <2>1, <2>2 DEF Grows
    <2> QED  BY <2>3
  <1> QED  BY <1>1, <1>2, TableMoves

-----------------------------------------------------------------------------
(***************************************************************************)
(* What the table keeps while it writes.                                   *)
(***************************************************************************)
LEMMA RecordKept ==
    ASSUME RecordSound, NEW name, NEW who, NEW asked, NEW status, NEW new,
           Grows(name, who, asked, status, new)
    PROVE  RecordSound'
  <1> DEFINE at == Len(actions) + 1
             a == [name |-> name, who |-> who, status |-> status]
  <1>1. Written(a) /\ at <= MaxActions /\ Reconstruct(name, at, status = "decoded")
    BY DEF Grows, Recorded
  <1> HIDE DEF a
  <1>2. /\ Len(actions) \in Nat /\ Len(actions') = at
        /\ actions' \in Seq(ActionType)
        /\ Positions' = Positions \cup {at} /\ at \notin Positions
        /\ actions'[at] = a
        /\ \A p \in Positions : actions'[p] = actions[p]
    BY <1>1, Grown
  <1>3. a.name = name /\ a.who = who /\ a.status = status
    BY DEF a
  <1>4. turn' \in Seats /\ step' \in Steps
    BY JoinAssumption DEF Grows, Move, RecordSound, Steps, Seats
  <1>5. open' \in BOOLEAN
    BY <1>1 DEF Reconstruct, RecordSound
  <1> HIDE DEF at
  <1>6. firsts' = {p \in Positions' : Decoded(p, "NewRound")'}
    <2>1. firsts = {p \in Positions : Decoded(p, "NewRound")}
      BY DEF RecordSound
    <2>2. firsts' = IF status = "decoded" /\ name = "NewRound" THEN firsts \cup {at} ELSE firsts
      BY <1>1 DEF Reconstruct
    <2> QED  BY <1>2, <1>3, <2>1, <2>2 DEF Decoded
  <1>7. decisions' \subseteq {p \in Positions' : Decoded(p, "DiscardTile")'}
    <2>1. decisions \subseteq {p \in Positions : Decoded(p, "DiscardTile")}
      BY DEF RecordSound
    <2>2. decisions' = decisions \/ (decisions' = decisions \cup {at} /\ status = "decoded" /\ name = "DiscardTile")
      BY <1>1 DEF Reconstruct
    <2> QED  BY <1>2, <1>3, <2>1, <2>2 DEF Decoded
  <1>8. \A p \in Positions' : actions'[p].name = "DiscardTile" => \E s \in Seats : actions'[p].who = {s}
    <2>1. \A p \in Positions : actions[p].name = "DiscardTile" => \E s \in Seats : actions[p].who = {s}
      BY DEF RecordSound
    <2>2. name = "DiscardTile" => who = {turn} /\ turn \in Seats
      BY DEF Grows, Move, RecordSound
    <2> QED  BY <1>2, <1>3, <2>1, <2>2
  <1> QED  BY <1>1, <1>2, <1>4, <1>5, <1>6, <1>7, <1>8 DEF RecordSound, ActionType

LEMMA RoundsKept ==
    ASSUME RecordSound, RoundsBegin, NEW name, NEW who, NEW asked, NEW status, NEW new,
           Grows(name, who, asked, status, new)
    PROVE  RoundsBegin'
  <1> DEFINE at == Len(actions) + 1
             a == [name |-> name, who |-> who, status |-> status]
  <1>1. Written(a)
    BY DEF Grows, Recorded
  <1> HIDE DEF a
  <1>2. /\ Len(actions) \in Nat /\ Len(actions') = at
        /\ Positions' = Positions \cup {at}
        /\ actions'[at] = a
        /\ \A p \in Positions : p \in 1..Len(actions) /\ actions'[p] = actions[p]
    BY <1>1, Grown
  <1>3. a.name = name
    BY DEF a
  <1>4. step \in Outside => name = "NewRound"
    BY DEF Grows, Move, Outside
  <1>5. name \in Overs => step' \in Outside
    BY DEF Grows, Move, Outside, Overs
  <1>6. actions'[1].name = "NewRound"
    <2>1. CASE Len(actions) = 0
      BY <1>2, <1>3, <1>4, <2>1 DEF RoundsBegin
    <2>2. CASE Len(actions) > 0
      <3>1. 1 \in Positions
        BY <1>2, <2>2 DEF Positions
      <3> QED  BY <1>2, <2>2, <3>1 DEF RoundsBegin
    <2> QED  BY <1>2, <2>1, <2>2
  <1>7. ASSUME NEW p \in Positions', actions'[p].name \in Overs
        PROVE  \/ p = Len(actions') /\ step' \in Outside
               \/ p < Len(actions') /\ actions'[p + 1].name = "NewRound"
    <2>1. CASE p = at
      BY <1>2, <1>3, <1>5, <1>7, <2>1
    <2>2. CASE p \in Positions
      <3>1. \/ p = Len(actions) /\ step \in Outside
            \/ p < Len(actions) /\ actions[p + 1].name = "NewRound"
        BY <1>2, <1>7, <2>2 DEF RoundsBegin
      <3>2. CASE p = Len(actions) /\ step \in Outside
        BY <1>2, <1>3, <1>4, <3>2
      <3>3. CASE p < Len(actions) /\ actions[p + 1].name = "NewRound"
        <4>1. p + 1 \in Positions
          BY <1>2, <2>2, <3>3 DEF Positions
        <4> QED  BY <1>2, <2>2, <3>3, <4>1
      <3> QED  BY <3>1, <3>2, <3>3
    <2> QED  BY <1>2, <2>1, <2>2
  <1> QED  BY <1>2, <1>6, <1>7 DEF RoundsBegin

(* A comment stays a comment on what it was about, and the seat it is about *)
(* is still to move, or has moved by this very action.                      *)
LEMMA SeatStillMoves ==
    ASSUME RecordSound, EventsSound, NEW name, NEW who, NEW asked, NEW status, NEW new,
           Grows(name, who, asked, status, new), NEW e \in DOMAIN events, events'[e] = events[e]
    PROVE  SeatMoves(e)'
  <1> DEFINE at == Len(actions) + 1
             a == [name |-> name, who |-> who, status |-> status]
             p == events[e].trigger
  <1>1. Written(a)
    BY DEF Grows, Recorded
  <1> HIDE DEF a
  <1>2. /\ Len(actions) \in Nat /\ Len(actions') = at
        /\ Positions' = Positions \cup {at} /\ at \notin Positions
        /\ actions'[at] = a
        /\ \A n \in Positions : n \in 1..Len(actions) /\ actions'[n] = actions[n]
    BY <1>1, Grown
  <1>3. a.name = name /\ a.who = who
    BY DEF a
  <1>4. p \in Positions /\ p \in 1..Len(actions) /\ SeatMoves(e)
    BY <1>2 DEF EventsSound
  <1> DEFINE s == events[e].seat
  <1> SUFFICES ASSUME actions[p].name # "DiscardTile"
               PROVE  /\ \A q \in Positions' :
                            (q > p /\ actions'[q].name # "input"
                             /\ \A n \in (p + 1)..(q - 1) : ~ (actions'[n].name # "input")) =>
                              \/ actions'[q].name = "LiuJu"
                              \/ actions'[q].name \in Moves /\ actions'[q].who = {s}
                      /\ \/ \E q \in Positions' : q > p /\ actions'[q].name # "input"
                         \/ step' \in {"act", "discard"} /\ turn' = s
                         \/ step' \in {"join", "end"}
    BY <1>2, <1>4 DEF SeatMoves, NextAfter, TypeOne
  <1>5. /\ \A q \in Positions : NextAfter(p, q) =>
               \/ actions[q].name = "LiuJu"
               \/ actions[q].name \in Moves /\ actions[q].who = {s}
        /\ \/ \E q \in Positions : q > p /\ TypeOne(q)
           \/ step \in {"act", "discard"} /\ turn = s
           \/ step \in {"join", "end"}
    BY <1>4 DEF SeatMoves
  <1> HIDE DEF p, s, at
  <1>6. step \notin {"join", "end"}
    BY DEF Grows, Move
  <1>7. ASSUME NEW q \in Positions', q > p, actions'[q].name # "input",
               \A n \in (p + 1)..(q - 1) : ~ (actions'[n].name # "input")
        PROVE  \/ actions'[q].name = "LiuJu"
               \/ actions'[q].name \in Moves /\ actions'[q].who = {s}
    <2>1. CASE q \in Positions
      <3>1. \A n \in (p + 1)..(q - 1) : n \in Positions
        BY <1>2, <1>4, <2>1 DEF Positions
      <3>2. NextAfter(p, q)
        BY <1>2, <1>7, <2>1, <3>1 DEF NextAfter, TypeOne
      <3> QED  BY <1>2, <1>5, <2>1, <3>2
    <2>2. CASE q = at
      <3>1. ASSUME NEW n \in Positions, n > p, TypeOne(n) PROVE FALSE
        <4>1. n \in (p + 1)..(q - 1)
          BY <1>2, <1>4, <2>2, <3>1 DEF at
        <4> QED  BY <1>2, <1>7, <3>1, <4>1 DEF TypeOne
      <3>2. step \in {"act", "discard"} /\ turn = s
        BY <1>5, <1>6, <3>1
      <3>3. name # "input"
        BY <1>2, <1>3, <1>7, <2>2
      <3>4. name = "LiuJu" \/ (name \in Moves /\ who = {s})
        BY <3>2, <3>3 DEF Grows, Move, Moves
      <3> QED  BY <1>2, <1>3, <2>2, <3>4
    <2> QED  BY <1>2, <2>1, <2>2
  <1>8. \/ \E q \in Positions' : q > p /\ actions'[q].name # "input"
        \/ step' \in {"act", "discard"} /\ turn' = s
    <2>1. CASE \E q \in Positions : q > p /\ TypeOne(q)
      BY <1>2, <2>1 DEF TypeOne
    <2>2. CASE step \in {"act", "discard"} /\ turn = s
      <3>1. CASE name = "input"
        BY <2>2, <3>1 DEF Grows, Move
      <3>2. CASE name # "input"
        <4>1. at > p /\ at \in Positions'
          BY <1>2, <1>4 DEF at
        <4> QED  BY <1>2, <1>3, <3>2, <4>1
      <3> QED  BY <3>1, <3>2
    <2> QED  BY <1>5, <1>6, <2>1, <2>2
  <1> QED  BY <1>7, <1>8

LEMMA SeatWillMove ==
    ASSUME RecordSound, NEW name, NEW who, NEW asked, NEW status, NEW new,
           Grows(name, who, asked, status, new), NEW e,
           events'[e].trigger = Len(actions) + 1, events'[e].seat \in asked
    PROVE  SeatMoves(e)' /\ name # "input"
  <1> DEFINE at == Len(actions) + 1
             a == [name |-> name, who |-> who, status |-> status]
  <1>1. Written(a)
    BY DEF Grows, Recorded
  <1> HIDE DEF a
  <1>2. Len(actions) \in Nat /\ Len(actions') = at /\ actions'[at] = a
    BY <1>1, Grown
  <1>3. a.name = name
    BY DEF a
  <1>4. \A q \in Positions' : ~ (q > at)
    BY <1>2 DEF Positions
  <1>5. name # "input" /\ (name # "DiscardTile" => step' \in {"act", "discard"} /\ turn' = events'[e].seat)
    BY DEF Grows, Move
  <1> QED  BY <1>2, <1>3, <1>4, <1>5 DEF SeatMoves, NextAfter, TypeOne

LEMMA EventsKept ==
    ASSUME RecordSound, EventsSound, NEW name, NEW who, NEW asked, NEW status, NEW new,
           Grows(name, who, asked, status, new)
    PROVE  EventsSound'
  <1> DEFINE at == Len(actions) + 1
             a == [name |-> name, who |-> who, status |-> status]
  <1>1. /\ Written(a) /\ events' = events \o new /\ new \in Seq(EventType)
        /\ \A i \in 1..Len(new) : /\ new[i].trigger = at
                                  /\ new[i].index = RecordIndex(at)
                                  /\ new[i].seat \in asked
        /\ \A i, j \in 1..Len(new) : i # j => new[i].seat # new[j].seat
    BY DEF Grows, Recorded
  <1> HIDE DEF a
  <1>2. /\ Len(actions) \in Nat /\ Len(actions') = at
        /\ Positions' = Positions \cup {at} /\ at \notin Positions
        /\ actions'[at] = a
        /\ \A n \in Positions : n \in 1..Len(actions) /\ actions'[n] = actions[n]
    BY <1>1, Grown
  <1>3. a.name = name
    BY DEF a
  <1>4. events \in Seq(EventType)
    BY DEF EventsSound, EventType
  <1>5. Len(events) \in Nat /\ Len(new) \in Nat /\ events' \in Seq(EventType)
        /\ DOMAIN events = 1..Len(events)
        /\ DOMAIN events' = 1..(Len(events) + Len(new))
    BY <1>1, <1>4
  <1>6. \A e \in 1..Len(events) : events'[e] = events[e]
    BY <1>1, <1>4
  <1>7. \A e \in DOMAIN events' : e \notin DOMAIN events =>
            /\ e - Len(events) \in 1..Len(new)
            /\ events'[e] = new[e - Len(events)]
    BY <1>1, <1>4, <1>5
  <1>8. \A n \in Positions \cup {at} : RecordIndex(n)' = RecordIndex(n)
    BY <1>1, SameIndex
  <1> HIDE DEF at
  <1>9. ASSUME NEW e \in DOMAIN events'
        PROVE  /\ (events[e].trigger \in Positions)' /\ TypeOne(events[e].trigger)'
               /\ (events[e].index = RecordIndex(events[e].trigger))'
               /\ SeatMoves(e)'
    <2>1. CASE e \in DOMAIN events
      <3>1. events'[e] = events[e] /\ events[e].trigger \in Positions /\ TypeOne(events[e].trigger)
            /\ events[e].index = RecordIndex(events[e].trigger)
        BY <1>5, <1>6, <2>1 DEF EventsSound
      <3>2. SeatMoves(e)'
        BY <2>1, <3>1, SeatStillMoves
      <3>3. RecordIndex(events[e].trigger)' = events[e].index
        BY <1>8, <3>1
      <3>4. TypeOne(events[e].trigger)'
        BY <1>2, <3>1 DEF TypeOne
      <3> QED  BY <1>2, <3>1, <3>2, <3>3, <3>4
    <2>2. CASE e \notin DOMAIN events
      <3>1. events'[e].trigger = at /\ events'[e].index = RecordIndex(at) /\ events'[e].seat \in asked
        BY <1>1, <1>7, <2>2
      <3>2. SeatMoves(e)' /\ name # "input"
        BY <3>1, SeatWillMove DEF at
      <3>3. TypeOne(events[e].trigger)'
        BY <1>2, <1>3, <3>1, <3>2 DEF TypeOne
      <3>4. (events[e].index = RecordIndex(events[e].trigger))'
        BY <1>8, <3>1
      <3> QED  BY <1>2, <3>1, <3>2, <3>3, <3>4
    <2> QED  BY <2>1, <2>2
  <1>10. ASSUME NEW e \in DOMAIN events', NEW f \in DOMAIN events', e < f
         PROVE  /\ events'[e].trigger <= events'[f].trigger
                /\ events'[e].trigger = events'[f].trigger => events'[e].seat # events'[f].seat
    <2>1. CASE f \in DOMAIN events
      <3>1. e \in DOMAIN events
        BY <1>5, <1>10, <2>1
      <3> QED  BY <1>5, <1>6, <1>10, <2>1, <3>1 DEF EventsSound
    <2>2. CASE f \notin DOMAIN events /\ e \in DOMAIN events
      <3>1. events'[f].trigger = at
        BY <1>1, <1>7, <2>2
      <3>2. events'[e].trigger \in Positions
        BY <1>5, <1>6, <2>2 DEF EventsSound
      <3> QED  BY <1>2, <3>1, <3>2 DEF at
    <2>3. CASE f \notin DOMAIN events /\ e \notin DOMAIN events
      <3>1. e - Len(events) \in 1..Len(new) /\ f - Len(events) \in 1..Len(new)
            /\ events'[e] = new[e - Len(events)] /\ events'[f] = new[f - Len(events)]
        BY <1>7, <2>3
      <3>2. e - Len(events) # f - Len(events)
        BY <1>5, <1>10
      <3>3. events'[e].seat # events'[f].seat
        BY <1>1, <3>1, <3>2
      <3>4. at \in Nat
        BY <1>2 DEF at
      <3>5. events'[e].trigger = at
        BY <1>1, <3>1
      <3>6. events'[f].trigger = at
        BY <1>1, <3>1
      <3> QED  BY <3>3, <3>4, <3>5, <3>6
    <2> QED  BY <2>1, <2>2, <2>3
  <1> QED  BY <1>5, <1>9, <1>10 DEF EventsSound, EventType

LEMMA DecisionsStay ==
    ASSUME RecordSound, RoundsBegin, DecisionsKept, NEW name, NEW who, NEW asked, NEW status, NEW new,
           Grows(name, who, asked, status, new)
    PROVE  DecisionsKept'
  <1> DEFINE a == [name |-> name, who |-> who, status |-> status]
  <1>1. PICK at : at = Len(actions) + 1
    OBVIOUS
  <1>2. Written(a) /\ Reconstruct(name, at, status = "decoded")
    BY <1>1 DEF Grows, Recorded
  <1> HIDE DEF a
  <1>3. /\ Len(actions) \in Nat /\ Len(actions') = at
        /\ Positions' = Positions \cup {at} /\ at \notin Positions
        /\ actions'[at] = a
        /\ \A n \in Positions : n \in 1..Len(actions) /\ actions'[n] = actions[n]
    BY <1>1, <1>2, Grown
  <1>4. a.name = name /\ a.status = status
    BY DEF a
  <1>5. /\ decisions \subseteq decisions'
        /\ open' = IF status = "decoded" /\ name = "NewRound" THEN TRUE
                   ELSE IF status = "decoded" /\ name \in {"Hule", "LiuJu"} THEN FALSE
                   ELSE open
    BY <1>2 DEF Reconstruct
  (* the round of the new action holds the last action before it *)
  <1>6. ASSUME Whole(at)', name # "NewRound" PROVE Whole(Len(actions)) /\ open
    <2>1. step \notin Outside
      BY <1>6 DEF Grows, Move, Outside
    <2>2. Len(actions) > 0 /\ Len(actions) \in Positions
      BY <1>3, <2>1 DEF RoundsBegin, Positions
    <2>3. TrueFirst(at)' = TrueFirst(Len(actions))
      BY <1>1, <1>2, <1>4, <1>6, <2>2, NewestRound
    <2>4. TrueFirst(Len(actions)) \in 1..Len(actions)
      BY <2>2, RoundBegins
    <2>5. ASSUME NEW n \in TrueFirst(Len(actions))..Len(actions) PROVE actions[n].status = "decoded"
      <3>1. n \in Positions /\ n \in TrueFirst(Len(actions))..at
        BY <1>1, <1>3, <2>4 DEF Positions
      <3>2. actions'[n].status = "decoded"
        BY <1>6, <2>3, <3>1 DEF Whole
      <3> QED  BY <1>3, <3>1, <3>2
    <2> QED  BY <2>1, <2>5 DEF Whole, DecisionsKept
  <1>7. ASSUME NEW q \in Positions', actions'[q].name = "DiscardTile", Whole(q)'
        PROVE  q \in decisions'
    <2>1. CASE q \in Positions
      <3>1. TrueFirst(q)' = TrueFirst(q)
        BY <1>2, <2>1, SameRound
      <3>2. TrueFirst(q) \in 1..q
        BY <2>1, RoundBegins
      <3>3. ASSUME NEW n \in TrueFirst(q)..q PROVE actions[n].status = "decoded"
        <4>1. n \in Positions
          BY <1>3, <2>1, <3>2 DEF Positions
        <4>2. actions'[n].status = "decoded"
          BY <1>7, <3>1 DEF Whole
        <4> QED  BY <1>3, <4>1, <4>2
      <3>4. actions[q].name = "DiscardTile"
        BY <1>3, <1>7, <2>1
      <3> QED  BY <1>5, <2>1, <3>3, <3>4 DEF DecisionsKept, Whole
    <2>2. CASE q = at
      <3>1. name = "DiscardTile"
        BY <1>3, <1>4, <1>7, <2>2
      <3>2. Whole(Len(actions)) /\ open
        BY <1>6, <1>7, <2>2, <3>1
      <3>3. Len(actions) > 0 /\ Len(actions) \in Positions
        <4>1. step \notin Outside
          BY <3>1 DEF Grows, Move, Outside
        <4> QED  BY <1>3, <4>1 DEF RoundsBegin, Positions
      <3>4. TrueFirst(Len(actions)) \in 1..Len(actions) /\ actions[TrueFirst(Len(actions))].name = "NewRound"
            /\ TrueFirst(Len(actions)) \in Positions
        BY <3>3, RoundBegins
      <3>5. TrueFirst(Len(actions)) \in firsts
        <4>1. TrueFirst(Len(actions)) \in TrueFirst(Len(actions))..Len(actions)
          BY <1>3, <3>4
        <4> QED  BY <3>2, <3>4, <4>1 DEF Whole, RecordSound, Decoded
      <3>6. ~ Spoiled
        <4>1. SUFFICES ASSUME NEW n \in Positions, actions[n].status # "decoded",
                              TrueFirst(Len(actions)) <= n
                       PROVE  FALSE
          BY <3>5 DEF Spoiled, Lost
        <4>2. n \in TrueFirst(Len(actions))..Len(actions)
          BY <1>3, <3>4, <4>1
        <4> QED  BY <3>2, <4>1, <4>2 DEF Whole
      <3>7. status = "decoded"
        <4>1. at \in TrueFirst(at)'..at
          <5>1. TrueFirst(at)' = TrueFirst(Len(actions))
            BY <1>1, <1>2, <1>4, <3>1, <3>3, NewestRound, <1>3
          <5> QED  BY <1>1, <1>3, <3>4, <5>1
        <4> QED  BY <1>3, <1>4, <1>7, <2>2, <4>1 DEF Whole
      <3>8. decisions' = decisions \cup {at}
        BY <1>2, <3>1, <3>2, <3>6, <3>7 DEF Reconstruct
      <3> QED  BY <2>2, <3>8
    <2> QED  BY <1>3, <2>1, <2>2
  <1>8. ASSUME step' \notin Outside, Whole(at)' PROVE open'
    <2>1. name \notin {"Hule", "LiuJu"}
      BY <1>8 DEF Grows, Move, Outside
    <2>2. CASE name = "NewRound"
      <3>1. TrueFirst(at)' = at
        BY <1>1, <1>2, <1>4, <2>2, NewestRound
      <3>2. at \in TrueFirst(at)'..at
        BY <1>1, <1>3, <3>1
      <3>3. status = "decoded"
        BY <1>3, <1>4, <1>8, <3>2 DEF Whole
      <3> QED  BY <1>5, <2>2, <3>3
    <2>3. CASE name # "NewRound"
      BY <1>5, <1>6, <1>8, <2>1, <2>3
    <2> QED  BY <2>2, <2>3
  <1> QED  BY <1>3, <1>7, <1>8 DEF DecisionsKept

(* While the table writes, nothing is joined.                               *)
LEMMA NothingJoined ==
    ASSUME RecordSound, EventsSound, JoinTyped, JoinSound, NEW name, NEW who, NEW asked, NEW status, NEW new,
           Grows(name, who, asked, status, new)
    PROVE  JoinTyped' /\ JoinSound'
  <1>1. /\ UNCHANGED <<next, maka, side, issues>> /\ events' = events \o new
        /\ new \in Seq(EventType)
        /\ step \notin {"join", "end"} /\ step' \notin {"join", "end"}
        /\ Reconstruct(name, Len(actions) + 1, status = "decoded")
    BY DEF Grows, Recorded, Move
  <1>2. next = 1 /\ next' = 1
    BY <1>1 DEF JoinTyped
  <1>3. 1 \in 1..(Len(events') + 1)
    <2>1. Len(events) \in Nat /\ Len(new) \in Nat /\ Len(events') = Len(events) + Len(new)
      BY <1>1 DEF EventsSound
    <2> QED  BY <2>1
  <1>4. firsts \subseteq firsts'
    BY <1>1 DEF Reconstruct
  <1>5. JoinTyped'
    BY <1>1, <1>2, <1>3, <1>4 DEF JoinTyped
  <1>6. \A q \in 1..MaxActions : maka'[q] = 0
    <2>1. SUFFICES ASSUME NEW q \in 1..MaxActions, maka[q] # 0 PROVE FALSE
      BY <1>1
    <2>2. maka[q] \in Nat /\ maka[q] < 1
      BY <1>2, <2>1 DEF JoinTyped
    <2> QED  BY <2>1, <2>2
  <1>7. \A e \in 1..(next' - 1) : FALSE
    BY <1>2
  <1> QED  BY <1>5, <1>6, <1>7 DEF JoinSound

LEMMA TableKeeps ==
    ASSUME JoinInv, NEW name, NEW who, NEW asked, NEW status, NEW new,
           Grows(name, who, asked, status, new)
    PROVE  JoinInv'
  BY RecordKept, RoundsKept, EventsKept, DecisionsStay, NothingJoined DEF JoinInv

(* The join changes nothing of the record.                                  *)
LEMMA TableStays ==
    ASSUME JoinInv, tableVars' = tableVars, step' = step \/ step' \in {"join", "end"}
    PROVE  RecordSound' /\ RoundsBegin' /\ EventsSound' /\ DecisionsKept'
  <1>1. /\ actions' = actions /\ turn' = turn /\ events' = events /\ open' = open
        /\ firsts' = firsts /\ decisions' = decisions
    BY DEF tableVars
  <1>2. step' \in Steps /\ (step \in Outside => step' \in Outside)
        /\ (step' \notin Outside => step \notin Outside)
    BY DEF JoinInv, RecordSound, Steps, Outside
  <1>3. RecordSound'
    BY <1>1, <1>2 DEF JoinInv, RecordSound, Positions, Decoded
  <1>4. RoundsBegin'
    BY <1>1, <1>2 DEF JoinInv, RoundsBegin, Positions
  <1>5. \A q : TrueFirst(q)' = TrueFirst(q)
    BY <1>1 DEF TrueFirst
  <1>6. DecisionsKept'
    BY <1>1, <1>2, <1>5 DEF JoinInv, DecisionsKept, Positions, Whole
  <1>7. \A q : RecordIndex(q)' = RecordIndex(q) /\ TypeOne(q)' = TypeOne(q)
    BY <1>1 DEF RecordIndex, TypeOne
  <1>8. ASSUME NEW e \in DOMAIN events PROVE SeatMoves(e)'
    <2>1. SeatMoves(e)
      BY DEF JoinInv, EventsSound
    <2> QED  BY <1>1, <2>1 DEF SeatMoves, NextAfter, TypeOne, Positions
  <1>9. EventsSound'
    BY <1>1, <1>7, <1>8 DEF JoinInv, EventsSound, Positions
  <1> QED  BY <1>3, <1>4, <1>6, <1>9

-----------------------------------------------------------------------------
(***************************************************************************)
(* What the join looks at.                                                 *)
(***************************************************************************)
(* An index that counts the type=1 actions before a position leads back to  *)
(* that position, and to no other.                                          *)
LEMMA TriggerFound ==
    ASSUME RecordSound, NEW p \in Positions, TypeOne(p)
    PROVE  Trigger(RecordIndex(p)) = {p}
  <1> DEFINE before(x) == {q \in Indexed : q < x}
  <1>1. Len(actions) \in Nat /\ \A q \in Positions : q \in 1..Len(actions)
    BY ActionTyped DEF Positions
  <1>2. ASSUME NEW x \in Indexed PROVE IsFiniteSet(before(x)) /\ Cardinality(before(x)) \in Nat
    <2>1. IsFiniteSet(1..Len(actions)) /\ before(x) \subseteq 1..Len(actions)
      BY <1>1, FS_Interval DEF Indexed
    <2>2. IsFiniteSet(before(x))
      BY <2>1, FS_Subset
    <2> QED  BY <2>2, FS_CardinalityType
  <1>3. ASSUME NEW x \in Indexed, NEW y \in Indexed, x < y
        PROVE  Cardinality(before(x)) # Cardinality(before(y))
    <2>1. x \in before(y) /\ x \notin before(x) /\ before(x) \subseteq before(y)
      BY <1>1, <1>3 DEF Indexed
    <2> QED  BY <1>2, <2>1, FS_Subset
  <1>4. {q \in 1..(p - 1) : TypeOne(q)} = before(p)
    BY <1>1 DEF Indexed, Positions
  <1>5. p \in Indexed
    BY DEF Indexed
  <1>6. ASSUME NEW x \in Indexed, Cardinality(before(x)) = Cardinality(before(p)) PROVE x = p
    <2>1. x \in Nat /\ p \in Nat
      BY <1>1, <1>5 DEF Indexed
    <2>2. ~ (x < p) /\ ~ (p < x)
      BY <1>3, <1>5, <1>6
    <2> QED  BY <2>1, <2>2
  <1>7. RecordIndex(p) = Cardinality(before(p))
    BY <1>4 DEF RecordIndex
  <1>8. Trigger(RecordIndex(p)) = {x \in Indexed : Cardinality(before(x)) = Cardinality(before(p))}
    BY <1>7 DEF Trigger
  <1> HIDE DEF before
  <1> QED  BY <1>5, <1>6, <1>8

LEMMA RoundOfType ==
    ASSUME RecordSound, NEW p \in Positions
    PROVE  /\ RoundOf(p) # None => RoundOf(p) \in firsts
           /\ (\E f \in firsts : f <= p) => RoundOf(p) # None
  <1> DEFINE begun == {f \in firsts : f <= p}
  <1>1. p \in Nat /\ firsts \subseteq Nat
    BY ActionTyped DEF RecordSound, Positions
  <1>2. ASSUME \E f \in firsts : f <= p PROVE RoundOf(p) \in firsts /\ RoundOf(p) # None
    <2>0. ASSUME NEW f \in begun PROVE f \in 0..p
      BY <1>1, <2>0
    <2>1. begun \subseteq 0..p /\ begun # {}
      BY <1>2, <2>0
    <2>2. Max(begun) \in begun
      BY <1>1, <2>1, MaxOfBounded
    <2>3. RoundOf(p) = Max(begun)
      BY <1>2 DEF RoundOf
    <2> HIDE DEF begun
    <2>4. RoundOf(p) \in begun
      BY <2>2, <2>3
    <2> QED  BY <1>1, <2>4, JoinAssumption DEF begun
  <1> QED  BY <1>2 DEF RoundOf

LEMMA AnswersType ==
    ASSUME RecordSound, NEW p, NEW s
    PROVE  /\ Answers(p, s) \subseteq Positions /\ Answers(p, s) \subseteq Nat
           /\ Answers(p, s) # {} => /\ Min(Answers(p, s)) \in Answers(p, s)
                                    /\ \A a \in Answers(p, s) : Min(Answers(p, s)) <= a
  <1>1. Answers(p, s) \subseteq Positions
    BY DEF Answers, Indexed
  <1>2. Positions \subseteq Nat
    BY ActionTyped DEF Positions
  <1>3. Answers(p, s) \subseteq Nat
    BY <1>1, <1>2
  <1> QED  BY <1>1, <1>3, LeastOfNaturals

(* What can become of an event: it is about the action it names, and what   *)
(* the replay does not know of becomes an issue.                            *)
Becomes(p, s) ==
    \/ /\ RoundOf(p) = None
       /\ AddIssue("outside_round")
    \/ /\ RoundOf(p) # None /\ Known(p, "DiscardTile")
       /\ AddSide("call_opportunity", p)
    \/ /\ RoundOf(p) # None /\ ~Known(p, "DiscardTile") /\ Answers(p, s) = {}
       /\ AddIssue("no_answer")
    \/ /\ RoundOf(p) # None /\ ~Known(p, "DiscardTile")
       /\ \E q \in Answers(p, s) :
            /\ \A a \in Answers(p, s) : q <= a
            /\ \/ actions[q].name = "Hule" /\ AddSide("win_decision", p)
               \/ actions[q].name = "AnGangAddGang" /\ AddSide("kan_decision", p)
               \/ actions[q].name = "DiscardTile" /\ q \in decisions /\ Attach(q)
               \/ actions[q].name = "DiscardTile" /\ q \notin decisions /\ AddIssue("no_decision")

LEMMA EventBecomes ==
    ASSUME JoinInv, JoinEvent
    PROVE  /\ next \in DOMAIN events
           /\ Becomes(events[next].trigger, events[next].seat)
  <1> DEFINE p == events[next].trigger
             s == events[next].seat
  <1>1. next \in DOMAIN events
    <2>1. next \in 1..(Len(events) + 1) /\ next <= Len(events)
      BY DEF JoinInv, JoinTyped, JoinEvent
    <2>2. DOMAIN events = 1..Len(events) /\ Len(events) \in Nat
      BY DEF JoinInv, EventsSound
    <2> QED  BY <2>1, <2>2
  <1>2. p \in Positions /\ TypeOne(p) /\ events[next].index = RecordIndex(p)
    BY <1>1 DEF JoinInv, EventsSound
  <1>3. RecordSound
    BY DEF JoinInv
  <1>4. Trigger(events[next].index) = {p}
    BY <1>2, <1>3, TriggerFound
  <1>5. JoinTo(p, s)
    BY <1>4 DEF JoinEvent
  <1> HIDE DEF p, s
  <1>6. ASSUME RoundOf(p) = None PROVE Becomes(p, s)
    BY <1>5, <1>6 DEF JoinTo, Becomes
  <1>7. ASSUME RoundOf(p) # None /\ Known(p, "DiscardTile") PROVE Becomes(p, s)
    BY <1>5, <1>7 DEF JoinTo, Becomes
  <1>8. ASSUME RoundOf(p) # None /\ ~Known(p, "DiscardTile") /\ Answers(p, s) = {} PROVE Becomes(p, s)
    BY <1>5, <1>8 DEF JoinTo, Becomes
  <1>9. ASSUME RoundOf(p) # None /\ ~Known(p, "DiscardTile") /\ Answers(p, s) # {} PROVE Becomes(p, s)
    <2> DEFINE q == Min(Answers(p, s))
    <2>1. q \in Answers(p, s) /\ \A a \in Answers(p, s) : q <= a
      BY <1>3, <1>9, AnswersType
    <2>2. \/ Decoded(q, "DiscardTile") \/ Decoded(q, "AnGangAddGang") \/ Decoded(q, "Hule")
      BY <2>1 DEF Answers
    <2>3. (CASE Decoded(q, "Hule") -> AddSide("win_decision", p)
             [] Decoded(q, "AnGangAddGang") -> AddSide("kan_decision", p)
             [] Decoded(q, "DiscardTile") ->
                  IF Reconstructed(q) THEN Attach(q) ELSE AddIssue("no_decision"))
      BY <1>5, <1>9 DEF JoinTo
    <2> HIDE DEF q
    <2>4. CASE Decoded(q, "Hule")
      <3>1. AddSide("win_decision", p)
        BY <2>3, <2>4 DEF Decoded
      <3> QED  BY <1>9, <2>1, <2>4, <3>1 DEF Becomes, Decoded
    <2>5. CASE Decoded(q, "AnGangAddGang")
      <3>1. AddSide("kan_decision", p)
        BY <2>3, <2>5 DEF Decoded
      <3> QED  BY <1>9, <2>1, <2>5, <3>1 DEF Becomes, Decoded
    <2>6. CASE Decoded(q, "DiscardTile")
      <3>1. IF Reconstructed(q) THEN Attach(q) ELSE AddIssue("no_decision")
        BY <2>3, <2>6 DEF Decoded
      <3> QED  BY <1>9, <2>1, <2>6, <3>1 DEF Becomes, Decoded, Reconstructed
    <2> QED  BY <2>2, <2>4, <2>5, <2>6
  <1>10. Becomes(p, s)
    BY <1>6, <1>7, <1>8, <1>9
  <1> QED  BY <1>1, <1>10 DEF p, s

-----------------------------------------------------------------------------
(***************************************************************************)
(* A round that is intact.                                                 *)
(***************************************************************************)
LEMMA RoundsInOrder ==
    ASSUME RecordSound, RoundsBegin, NEW p \in Positions, NEW n \in Positions, p <= n
    PROVE  /\ TrueFirst(p) <= TrueFirst(n)
           /\ \A m \in Positions : n <= m /\ TrueFirst(m) = TrueFirst(p) => TrueFirst(n) = TrueFirst(p)
  <1>1. ASSUME NEW x \in Positions, NEW y \in Positions, x <= y
        PROVE  TrueFirst(x) <= TrueFirst(y) /\ TrueFirst(x) \in Nat
    <2>1. x \in Nat /\ y \in Nat
      BY ActionTyped
    <2>2. TrueFirst(x) \in 1..x /\ actions[TrueFirst(x)].name = "NewRound"
      BY RoundBegins
    <2>3. TrueFirst(x) \in 1..y
      BY <1>1, <2>1, <2>2
    <2> QED  BY <2>2, <2>3, RoundBegins
  <1>2. \A x \in Positions : x \in Nat
    BY ActionTyped
  <1>3. \A x \in Positions : TrueFirst(x) \in Nat
    BY <1>1, <1>2
  <1>4. ASSUME NEW m \in Positions, n <= m, TrueFirst(m) = TrueFirst(p) PROVE TrueFirst(n) = TrueFirst(p)
    <2>1. TrueFirst(p) <= TrueFirst(n) /\ TrueFirst(n) <= TrueFirst(m)
      BY <1>1, <1>4
    <2> QED  BY <1>3, <1>4, <2>1
  <1> QED  BY <1>1, <1>4

(* What is not beyond a known boundary is of the same round, if the round   *)
(* is intact.                                                               *)
LEMMA SameRoundBefore ==
    ASSUME RecordSound, RoundsBegin, NEW p \in Positions, NEW q \in Positions, p < q,
           Intact(p), BeforeBoundary(p, q)
    PROVE  TrueFirst(q) = TrueFirst(p)
  <1> DEFINE begins == {n \in (p + 1)..q : actions[n].name = "NewRound"}
  <1>1. /\ p \in Nat /\ q \in Nat /\ p >= 1 /\ Len(actions) \in Nat
        /\ q <= Len(actions) /\ Positions = 1..Len(actions)
    BY ActionTyped DEF Positions
  <1>2. /\ TrueFirst(p) \in 1..p /\ actions[TrueFirst(p)].name = "NewRound"
        /\ \A n \in 1..p : actions[n].name = "NewRound" => n <= TrueFirst(p)
    BY RoundBegins
  <1>3. CASE begins = {}
    <2>1. ASSUME NEW n \in 1..q, actions[n].name = "NewRound" PROVE n <= TrueFirst(p)
      <3>1. n \notin (p + 1)..q
        BY <1>3, <2>1
      <3>2. n \in 1..p
        BY <1>1, <3>1
      <3> QED  BY <1>2, <2>1, <3>2
    <2>2. TrueFirst(p) \in 1..q
      BY <1>1, <1>2
    <2> QED  BY <1>2, <2>1, <2>2, RoundBeginsAt
  <1>4. CASE begins # {}
    <2>1. begins \subseteq Nat
      BY <1>1
    <2>2. PICK n \in begins : \A k \in begins : n <= k
      <3> HIDE DEF begins
      <3> QED  BY <1>4, <2>1, LeastOfNaturals
    <2>3. n \in Positions /\ n > p /\ n \in (p + 1)..q /\ n \in Nat /\ actions[n].name = "NewRound"
      BY <1>1, <2>2
    <2>4. ASSUME NEW m \in p..(n - 1) PROVE TrueFirst(m) = TrueFirst(p)
      <3>1. m \in Positions /\ m \in Nat /\ TrueFirst(p) \in 1..m
        BY <1>1, <1>2, <2>3
      <3>2. ASSUME NEW k \in 1..m, actions[k].name = "NewRound" PROVE k <= TrueFirst(p)
        <4>1. k \notin begins
          BY <1>1, <2>1, <2>2, <2>3, <3>1
        <4>2. k \in 1..p
          BY <1>1, <2>3, <3>1, <3>2, <4>1
        <4> QED  BY <1>2, <3>2, <4>2
      <3> QED  BY <1>2, <3>1, <3>2, RoundBeginsAt
    <2>5. actions[n].status # "no_name"
      BY <2>3, <2>4 DEF Intact
    <2> QED  BY <2>3, <2>5 DEF BeforeBoundary, Known
  <1> QED  BY <1>3, <1>4

(* All actions of an intact round decode.                                   *)
LEMMA IntactDecodes ==
    ASSUME RecordSound, RoundsBegin, NEW p \in Positions, Intact(p)
    PROVE  /\ \A n \in TrueFirst(p)..p : actions[n].status = "decoded"
           /\ \A q \in Positions : q > p /\ TrueFirst(q) = TrueFirst(p) => Whole(q)
           /\ TrueFirst(p) \in firsts /\ TrueFirst(p) <= p
  <1>1. p \in Nat /\ Positions = 1..Len(actions) /\ Len(actions) \in Nat /\ p <= Len(actions)
    BY ActionTyped DEF Positions
  <1>2. TrueFirst(p) \in 1..p /\ TrueFirst(p) \in Positions /\ actions[TrueFirst(p)].name = "NewRound"
    BY RoundBegins
  <1>3. ASSUME NEW n \in TrueFirst(p)..p PROVE actions[n].status = "decoded"
    <2>1. n \in RoundActions(p) /\ n \in Positions
      BY <1>1, <1>2 DEF RoundActions
    <2> QED  BY <2>1 DEF Intact, Lost
  <1>4. ASSUME NEW q \in Positions, q > p, TrueFirst(q) = TrueFirst(p) PROVE Whole(q)
    <2>1. ASSUME NEW n \in TrueFirst(p)..q, n > p PROVE actions[n].status = "decoded"
      <3>1. n \in Positions /\ n <= q /\ p <= n
        BY <1>1, <1>2, <2>1
      <3>2. TrueFirst(n) = TrueFirst(p)
        BY <1>4, <3>1, RoundsInOrder
      <3>3. n \in RoundActions(p)
        BY <2>1, <3>1, <3>2, <1>1 DEF RoundActions
      <3> QED  BY <3>1, <3>3 DEF Intact, Lost
    <2>2. ASSUME NEW n \in TrueFirst(p)..q PROVE actions[n].status = "decoded"
      <3>1. n > p \/ n \in TrueFirst(p)..p
        BY <1>1, <1>2
      <3> QED  BY <1>3, <2>1, <3>1
    <2> QED  BY <1>4, <2>2 DEF Whole
  <1>5. TrueFirst(p) \in firsts
    <2>1. TrueFirst(p) \in TrueFirst(p)..p
      BY <1>1, <1>2
    <2> QED  BY <1>2, <1>3, <2>1 DEF RecordSound, Decoded
  <1> QED  BY <1>1, <1>2, <1>3, <1>4, <1>5

LEMMA FollowingIs ==
    ASSUME RecordSound, NEW p \in Positions
    PROVE  /\ \A q : q \in Following(p) <=>
                 q \in Positions /\ q > p /\ TypeOne(q) /\ TrueFirst(q) = TrueFirst(p)
           /\ Following(p) \subseteq Nat
  <1>1. p \in Nat /\ Positions = 1..Len(actions) /\ Len(actions) \in Nat
    BY ActionTyped DEF Positions
  <1>2. \A q : q \in TrueFirst(p)..p => ~ (q > p)
    BY <1>1
  <1> QED  BY <1>1, <1>2 DEF Following, RoundActions

(* The answer to a decision that is not about a discard: in an intact round *)
(* the search finds the next move of the table, whoever it is by, or the    *)
(* round was drawn and there is none.                                       *)
LEMMA IntactAnswers ==
    ASSUME JoinInv, NEW e \in DOMAIN events, NEW p, p = events[e].trigger,
           Intact(p), actions[p].name # "DiscardTile", NEW s, s = events[e].seat
    PROVE  /\ Following(p) = {} => Answers(p, s) = {}
           /\ Following(p) # {} =>
                 \E m \in Positions :
                    /\ m = Min(Following(p))
                    /\ \/ actions[m].name = "LiuJu" /\ Answers(p, s) = {}
                       \/ /\ actions[m].name \in Moves
                          /\ m \in Answers(p, s) /\ \A a \in Answers(p, s) : m <= a
                          /\ actions[m].name = "DiscardTile" => m \in decisions
  <1>1. RecordSound /\ RoundsBegin /\ EventsSound /\ DecisionsKept
    BY DEF JoinInv
  <1>2. p \in Positions /\ SeatMoves(e) /\ TypeOne(p)
    BY <1>1 DEF EventsSound
  <1>3. p \in Nat /\ p >= 1 /\ Positions = 1..Len(actions) /\ Len(actions) \in Nat
    BY <1>1, <1>2, ActionTyped DEF Positions
  <1>4. /\ \A q : q \in Following(p) <=>
                q \in Positions /\ q > p /\ TypeOne(q) /\ TrueFirst(q) = TrueFirst(p)
        /\ Following(p) \subseteq Nat
    BY <1>1, <1>2, FollowingIs
  <1>5. ASSUME NEW q \in Answers(p, s) PROVE q \in Following(p) /\ actions[q].name \in Moves
    <2>1. q \in Positions /\ TypeOne(q) /\ q > p /\ BeforeBoundary(p, q) /\ actions[q].name \in Moves
      BY DEF Answers, Indexed, Decoded, Moves
    <2>2. TrueFirst(q) = TrueFirst(p)
      BY <1>1, <1>2, <1>3, <2>1, SameRoundBefore
    <2> QED  BY <1>4, <2>1, <2>2
  <1>6. ASSUME Following(p) # {}
        PROVE  \E m \in Positions :
                    /\ m = Min(Following(p))
                    /\ \/ actions[m].name = "LiuJu" /\ Answers(p, s) = {}
                       \/ /\ actions[m].name \in Moves
                          /\ m \in Answers(p, s) /\ \A a \in Answers(p, s) : m <= a
                          /\ actions[m].name = "DiscardTile" => m \in decisions
    <2> DEFINE least == Min(Following(p))
    <2>1. least \in Following(p) /\ \A q \in Following(p) : least <= q
      BY <1>4, <1>6, LeastOfNaturals
    <2>2. PICK m : m = least
      OBVIOUS
    <2> HIDE DEF least
    <2>3. m \in Positions /\ m > p /\ TypeOne(m) /\ TrueFirst(m) = TrueFirst(p)
          /\ \A q \in Following(p) : m <= q
      BY <1>4, <2>1, <2>2
    <2>4. NextAfter(p, m)
      <3>1. SUFFICES ASSUME NEW n \in (p + 1)..(m - 1), TypeOne(n) PROVE FALSE
        BY <2>3 DEF NextAfter
      <3>2. n \in Positions /\ n > p /\ n < m
        BY <1>3, <2>3
      <3>3. TrueFirst(n) = TrueFirst(p)
        BY <1>1, <1>2, <1>3, <2>3, <3>2, RoundsInOrder
      <3>4. n \in Following(p)
        BY <1>4, <3>1, <3>2, <3>3
      <3> QED  BY <1>3, <2>3, <3>2, <3>4
    <2>5. \/ actions[m].name = "LiuJu"
          \/ actions[m].name \in Moves /\ actions[m].who = {s}
      BY <1>2, <2>3, <2>4 DEF SeatMoves
    <2>6. Whole(m) /\ actions[m].status = "decoded"
      <3>1. Whole(m)
        BY <1>1, <1>2, <2>3, IntactDecodes
      <3>2. m \in TrueFirst(m)..m
        <4>1. TrueFirst(m) \in 1..m
          BY <1>1, <2>3, RoundBegins
        <4> QED  BY <1>3, <2>3, <4>1
      <3> QED  BY <3>1, <3>2 DEF Whole
    <2>7. CASE actions[m].name = "LiuJu"
      <3>1. ASSUME NEW q \in Answers(p, s) PROVE FALSE
        <4>1. q \in Following(p) /\ actions[q].name \in Moves
          BY <1>5
        <4>2. q \in Positions /\ TrueFirst(q) = TrueFirst(p) /\ m <= q
          BY <1>4, <2>3, <4>1
        <4>3. q > m /\ m < Len(actions)
          BY <1>3, <2>3, <2>7, <4>1, <4>2 DEF Moves
        <4>4. actions[m + 1].name = "NewRound" /\ m + 1 \in 1..q
          BY <1>1, <1>3, <2>3, <2>7, <4>2, <4>3 DEF RoundsBegin, Overs
        <4>5. m + 1 <= TrueFirst(q)
          BY <1>1, <4>2, <4>4, RoundBegins
        <4>6. TrueFirst(p) \in 1..p
          BY <1>1, <1>2, RoundBegins
        <4> QED  BY <1>3, <2>3, <4>2, <4>5, <4>6
      <3>2. Answers(p, s) = {}
        BY <3>1
      <3> QED  BY <2>2, <2>3, <2>7, <3>2 DEF least
    <2>8. CASE actions[m].name \in Moves /\ actions[m].who = {s}
      <3>1. BeforeBoundary(p, m)
        <4>1. SUFFICES ASSUME NEW n \in (p + 1)..m, actions[n].name = "NewRound" PROVE FALSE
          BY DEF BeforeBoundary, Known
        <4>2. n \in 1..m /\ n > p
          BY <1>3, <2>3
        <4>3. n <= TrueFirst(m)
          BY <1>1, <2>3, <4>1, <4>2, RoundBegins
        <4>4. TrueFirst(p) \in 1..p
          BY <1>1, <1>2, RoundBegins
        <4> QED  BY <1>3, <2>3, <4>2, <4>3, <4>4
      <3>2. m \in Answers(p, s)
        BY <2>3, <2>6, <2>8, <3>1 DEF Answers, Indexed, Decoded, Moves
      <3>3. \A a \in Answers(p, s) : m <= a
        BY <1>5, <2>3
      <3>4. actions[m].name = "DiscardTile" => m \in decisions
        BY <1>1, <2>3, <2>6 DEF DecisionsKept
      <3> QED  BY <2>2, <2>3, <2>8, <3>2, <3>3, <3>4 DEF least
    <2> QED  BY <2>5, <2>7, <2>8
  <1>7. Following(p) = {} => Answers(p, s) = {}
    BY <1>5
  <1> QED  BY <1>6, <1>7

(* What must become of an event, told by the record alone.                  *)
Raised(e) == \E i \in issues : i.event = e
Joins(e, at, kinds, raised) ==
    LET p == events[e].trigger
        m == Min(Following(p))
    IN \/ actions[p].name = "DiscardTile" /\ at = {} /\ kinds = {"call_opportunity"}
       \/ /\ actions[p].name # "DiscardTile" /\ Following(p) = {}
          /\ at = {} /\ kinds = {} /\ raised
       \/ /\ actions[p].name # "DiscardTile" /\ Following(p) # {}
          /\ \/ actions[m].name = "DiscardTile" /\ at = {m} /\ kinds = {}
             \/ actions[m].name = "AnGangAddGang" /\ at = {} /\ kinds = {"kan_decision"}
             \/ actions[m].name = "Hule" /\ at = {} /\ kinds = {"win_decision"}
             \/ actions[m].name = "LiuJu" /\ at = {} /\ kinds = {} /\ raised

LEMMA JoinsIfRightly ==
    ASSUME JoinInv, NEW e \in DOMAIN events, Intact(events[e].trigger), JoinedRightly(e)
    PROVE  Joins(e, Attached(e), Sides(e), Raised(e))
  <1> DEFINE p == events[e].trigger
             m == Min(Following(p))
             answer == IF Following(p) = {} THEN "none" ELSE actions[m].name
  <1>1. CASE actions[p].name = "DiscardTile"
    BY <1>1 DEF JoinedRightly, Joins
  <1>2. CASE actions[p].name # "DiscardTile" /\ Following(p) = {}
    <2>1. Attached(e) = {} /\ Sides(e) = {} /\ \E i \in issues : i.event = e
      BY <1>2 DEF JoinedRightly
    <2> QED  BY <1>2, <2>1 DEF Joins, Raised
  <1>3. CASE actions[p].name # "DiscardTile" /\ Following(p) # {}
    <2>1. actions[m].name = "LiuJu" \/ actions[m].name \in Moves
      BY <1>3, IntactAnswers
    <2>2. CASE actions[m].name = "LiuJu"
      <3>1. Attached(e) = {} /\ Sides(e) = {} /\ \E i \in issues : i.event = e
        BY <1>3, <2>2 DEF JoinedRightly
      <3> QED  BY <1>3, <2>2, <3>1 DEF Joins, Raised
    <2>3. CASE actions[m].name = "DiscardTile"
      <3>1. Attached(e) = {m} /\ Sides(e) = {}
        BY <1>3, <2>3 DEF JoinedRightly
      <3> QED  BY <1>3, <2>3, <3>1 DEF Joins
    <2>4. CASE actions[m].name = "AnGangAddGang"
      <3>1. Attached(e) = {} /\ Sides(e) = {"kan_decision"}
        BY <1>3, <2>4 DEF JoinedRightly
      <3> QED  BY <1>3, <2>4, <3>1 DEF Joins
    <2>5. CASE actions[m].name = "Hule"
      <3>1. Attached(e) = {} /\ Sides(e) = {"win_decision"}
        BY <1>3, <2>5 DEF JoinedRightly
      <3> QED  BY <1>3, <2>5, <3>1 DEF Joins
    <2> QED  BY <2>1, <2>2, <2>3, <2>4, <2>5 DEF Moves
  <1> QED  BY <1>1, <1>2, <1>3

LEMMA RightlyIfJoins ==
    ASSUME tableVars' = tableVars, NEW e, Joins(e, Attached(e)', Sides(e)', Raised(e)')
    PROVE  JoinedRightly(e)'
  <1> DEFINE p == events[e].trigger
             m == Min(Following(p))
  <1>1. actions' = actions /\ events' = events
    BY DEF tableVars
  <1>2. \A x : Following(x)' = Following(x)
    BY <1>1 DEF Following, RoundActions, TrueFirst, TypeOne, Positions
  <1>3. CASE actions[p].name = "DiscardTile"
    <2>1. Attached(e)' = {} /\ Sides(e)' = {"call_opportunity"}
      BY <1>3 DEF Joins
    <2> QED  BY <1>1, <1>3, <2>1 DEF JoinedRightly
  <1>4. CASE actions[p].name # "DiscardTile" /\ Following(p) = {}
    <2>1. Attached(e)' = {} /\ Sides(e)' = {} /\ \E i \in issues' : i.event = e
      BY <1>4 DEF Joins, Raised
    <2> QED  BY <1>1, <1>2, <1>4, <2>1 DEF JoinedRightly
  <1>5. ASSUME actions[p].name # "DiscardTile", Following(p) # {} PROVE JoinedRightly(e)'
    <2>1. CASE actions[m].name = "DiscardTile"
      <3>1. Attached(e)' = {m} /\ Sides(e)' = {}
        BY <1>5, <2>1 DEF Joins
      <3> QED  BY <1>1, <1>2, <1>5, <2>1, <3>1 DEF JoinedRightly
    <2>2. CASE actions[m].name = "AnGangAddGang"
      <3>1. Attached(e)' = {} /\ Sides(e)' = {"kan_decision"}
        BY <1>5, <2>2 DEF Joins
      <3> QED  BY <1>1, <1>2, <1>5, <2>2, <3>1 DEF JoinedRightly
    <2>3. CASE actions[m].name = "Hule"
      <3>1. Attached(e)' = {} /\ Sides(e)' = {"win_decision"}
        BY <1>5, <2>3 DEF Joins
      <3> QED  BY <1>1, <1>2, <1>5, <2>3, <3>1 DEF JoinedRightly
    <2>4. CASE actions[m].name = "LiuJu"
      <3>1. Attached(e)' = {} /\ Sides(e)' = {} /\ \E i \in issues' : i.event = e
        BY <1>5, <2>4 DEF Joins, Raised
      <3> QED  BY <1>1, <1>2, <1>5, <2>4, <3>1 DEF JoinedRightly
    <2> QED  BY <1>5, <2>1, <2>2, <2>3, <2>4 DEF Joins
  <1> QED  BY <1>3, <1>4, <1>5

-----------------------------------------------------------------------------
(***************************************************************************)
(* One event joined.                                                       *)
(***************************************************************************)
LEMMA EventTyped ==
    ASSUME JoinInv, JoinEvent
    PROVE  JoinTyped'
  <1> DEFINE p == events[next].trigger
             s == events[next].seat
  <1>1. next \in DOMAIN events /\ Becomes(p, s)
    BY EventBecomes
  <1>2. DOMAIN events = 1..Len(events) /\ Len(events) \in Nat /\ RecordSound /\ p \in Positions
    BY <1>1 DEF JoinInv, EventsSound
  <1>3. next \in Nat /\ next >= 1 /\ next <= Len(events)
    BY <1>1, <1>2
  <1>4. RoundOf(p) # None => RoundOf(p) \in firsts
    BY <1>2, RoundOfType
  <1> HIDE DEF p, s
  <1>5. next' = next + 1 /\ tableVars' = tableVars /\ step = "join" /\ step' = "join"
    BY DEF JoinEvent
  <1>6. events' = events /\ firsts' = firsts
    BY <1>5 DEF tableVars
  <1>7. /\ maka \in [1..MaxActions -> Nat]
        /\ \A q \in 1..MaxActions : maka[q] # 0 => maka[q] < next
        /\ \A x \in side : x.kind \in Kinds /\ x.event < next /\ x.event \in Nat /\ x.round \in firsts
        /\ \A i \in issues : i.event < next /\ i.event \in Nat /\ i.why \in Whys
        /\ firsts # {}
    BY <1>5 DEF JoinInv, JoinTyped
  <1>8. /\ maka' \in [1..MaxActions -> Nat]
        /\ \A q \in 1..MaxActions : maka'[q] = maka[q] \/ maka'[q] = next
    BY <1>1, <1>3, <1>7 DEF Becomes, Attach, AddSide, AddIssue
  <1>9. \A q \in 1..MaxActions : maka'[q] # 0 => maka'[q] < next + 1
    <2>1. SUFFICES ASSUME NEW q \in 1..MaxActions, maka'[q] # 0 PROVE maka'[q] < next + 1
      OBVIOUS
    <2>2. maka'[q] = maka[q] \/ maka'[q] = next
      BY <1>8
    <2>3. maka[q] \in Nat /\ (maka[q] # 0 => maka[q] < next)
      BY <1>7
    <2> QED  BY <1>3, <2>1, <2>2, <2>3
  <1>10. side' = side \/ \E kind \in Kinds : RoundOf(p) # None /\
            side' = side \cup {[kind |-> kind, event |-> next, round |-> RoundOf(p)]}
    BY <1>1 DEF Becomes, Attach, AddSide, AddIssue, Kinds
  <1>11. \A x \in side' : x.kind \in Kinds /\ x.event < next + 1 /\ x.event \in Nat /\ x.round \in firsts
    <2>1. SUFFICES ASSUME NEW x \in side'
                   PROVE  x.kind \in Kinds /\ x.event < next + 1 /\ x.event \in Nat /\ x.round \in firsts
      OBVIOUS
    <2>2. CASE x \in side
      <3>1. x.kind \in Kinds /\ x.event < next /\ x.event \in Nat /\ x.round \in firsts
        BY <1>7, <2>2
      <3> QED  BY <1>3, <3>1
    <2>3. CASE x \notin side
      <3>1. PICK kind \in Kinds : RoundOf(p) # None /\ x = [kind |-> kind, event |-> next, round |-> RoundOf(p)]
        BY <1>10, <2>3
      <3>2. x.kind = kind /\ x.event = next /\ x.round = RoundOf(p)
        BY <3>1
      <3> QED  BY <1>3, <1>4, <3>1, <3>2
    <2> QED  BY <2>2, <2>3
  <1>12. issues' = issues \/ \E why \in Whys : issues' = issues \cup {[event |-> next, why |-> why]}
    BY <1>1 DEF Becomes, Attach, AddSide, AddIssue, Whys
  <1>13. \A i \in issues' : i.event < next + 1 /\ i.event \in Nat /\ i.why \in Whys
    <2>1. SUFFICES ASSUME NEW i \in issues' PROVE i.event < next + 1 /\ i.event \in Nat /\ i.why \in Whys
      OBVIOUS
    <2>2. CASE i \in issues
      <3>1. i.event < next /\ i.event \in Nat /\ i.why \in Whys
        BY <1>7, <2>2
      <3> QED  BY <1>3, <3>1
    <2>3. CASE i \notin issues
      <3>1. PICK why \in Whys : i = [event |-> next, why |-> why]
        BY <1>12, <2>3
      <3>2. i.event = next /\ i.why = why
        BY <3>1
      <3> QED  BY <1>3, <3>2
    <2> QED  BY <2>2, <2>3
  <1>14. next' \in 1..(Len(events) + 1)
    BY <1>2, <1>3, <1>5
  <1> QED  BY <1>5, <1>6, <1>7, <1>8, <1>9, <1>11, <1>13, <1>14 DEF JoinTyped

(* What the event leaves behind: nothing was attached to it before.         *)
LEMMA EventLeaves ==
    ASSUME JoinInv, JoinEvent, NEW e, e = next
    PROVE  /\ \A why : AddIssue(why) => Attached(e)' = {} /\ Sides(e)' = {} /\ Raised(e)'
           /\ \A kind, p : AddSide(kind, p) => Attached(e)' = {} /\ Sides(e)' = {kind}
           /\ \A q \in Positions : Attach(q) => Attached(e)' = {q} /\ Sides(e)' = {}
  <1>1. /\ maka \in [1..MaxActions -> Nat]
        /\ \A q \in 1..MaxActions : maka[q] # 0 => maka[q] < e
        /\ \A x \in side : x.event < e
        /\ e \in Nat /\ e # 0
    <2>1. next \in 1..(Len(events) + 1) /\ Len(events) \in Nat
      BY DEF JoinInv, JoinTyped, EventsSound
    <2> QED  BY <2>1 DEF JoinInv, JoinTyped
  <1>2. Positions' = Positions /\ Positions \subseteq 1..MaxActions
    <2>1. actions' = actions
      BY DEF JoinEvent, tableVars
    <2>2. Len(actions) \in Nat /\ Len(actions) <= MaxActions /\ MaxActions \in Nat
      BY JoinAssumption DEF JoinInv, RecordSound
    <2> QED  BY <2>1, <2>2 DEF Positions
  <1>3. \A q \in Positions : maka[q] # e
    <2>1. SUFFICES ASSUME NEW q \in Positions, maka[q] = e PROVE FALSE
      OBVIOUS
    <2>2. q \in 1..MaxActions /\ maka[q] \in Nat /\ (maka[q] # 0 => maka[q] < e)
      BY <1>1, <1>2
    <2> QED  BY <1>1, <2>1, <2>2
  <1>4. \A x \in side : x.event # e
    <2>1. SUFFICES ASSUME NEW x \in side, x.event = e PROVE FALSE
      OBVIOUS
    <2>2. x.event < e
      BY <1>1
    <2> QED  BY <1>1, <2>1, <2>2
  <1>5. maka' = maka => Attached(e)' = {}
    BY <1>2, <1>3 DEF Attached
  <1>6. side' = side => Sides(e)' = {}
    BY <1>4 DEF Sides
  <1>7. ASSUME NEW why, AddIssue(why) PROVE Attached(e)' = {} /\ Sides(e)' = {} /\ Raised(e)'
    <2>1. maka' = maka /\ side' = side /\ [event |-> e, why |-> why] \in issues'
      BY <1>7 DEF AddIssue
    <2> QED  BY <1>5, <1>6, <2>1 DEF Raised
  <1>8. ASSUME NEW kind, NEW p, AddSide(kind, p) PROVE Attached(e)' = {} /\ Sides(e)' = {kind}
    <2>1. maka' = maka /\ side' = side \cup {[kind |-> kind, event |-> e, round |-> RoundOf(p)]}
      BY <1>8 DEF AddSide
    <2> DEFINE new == [kind |-> kind, event |-> e, round |-> RoundOf(p)]
    <2>2. new.kind = kind /\ new.event = e /\ side' = side \cup {new}
      BY <2>1
    <2> HIDE DEF new
    <2>3. {x \in side' : x.event = e} = {new}
      BY <1>4, <2>2
    <2>4. Sides(e)' = {kind}
      BY <2>2, <2>3 DEF Sides
    <2> QED  BY <1>5, <2>1, <2>4
  <1>9. ASSUME NEW q \in Positions, Attach(q) PROVE Attached(e)' = {q} /\ Sides(e)' = {}
    <2>1. side' = side /\ maka' = [maka EXCEPT ![q] = e]
      BY <1>9 DEF Attach
    <2>2. Attached(e)' = {q}
      BY <1>1, <1>2, <1>3, <2>1 DEF Attached
    <2> QED  BY <1>6, <2>1, <2>2
  <1> QED  BY <1>7, <1>8, <1>9

(* In an intact round the event becomes what it must.                       *)
LEMMA EventJoins ==
    ASSUME JoinInv, JoinEvent, NEW e, e = next, Intact(events[e].trigger)
    PROVE  Joins(e, Attached(e)', Sides(e)', Raised(e)')
  <1>1. PICK p, s : p = events[e].trigger /\ s = events[e].seat
    OBVIOUS
  <1>2. e \in DOMAIN events /\ Becomes(p, s)
    BY <1>1, EventBecomes
  <1>3. RecordSound /\ RoundsBegin /\ p \in Positions /\ Intact(p)
    BY <1>1, <1>2 DEF JoinInv, EventsSound
  <1>4. RoundOf(p) # None
    BY <1>3, IntactDecodes, RoundOfType
  <1>5. actions[p].status = "decoded"
    <2>1. TrueFirst(p) \in 1..p
      BY <1>3, RoundBegins
    <2>2. p \in TrueFirst(p)..p
      BY <1>3, <2>1, ActionTyped
    <2> QED  BY <1>3, <2>2, IntactDecodes
  <1>6. /\ \A why : AddIssue(why) => Attached(e)' = {} /\ Sides(e)' = {} /\ Raised(e)'
        /\ \A kind : AddSide(kind, p) => Attached(e)' = {} /\ Sides(e)' = {kind}
        /\ \A q \in Positions : Attach(q) => Attached(e)' = {q} /\ Sides(e)' = {}
    BY EventLeaves
  <1>7. CASE actions[p].name = "DiscardTile"
    <2>1. Known(p, "DiscardTile")
      BY <1>5, <1>7 DEF Known
    <2>2. AddSide("call_opportunity", p)
      BY <1>2, <1>4, <2>1 DEF Becomes
    <2> QED  BY <1>1, <1>6, <1>7, <2>2 DEF Joins
  <1>8. CASE actions[p].name # "DiscardTile"
    <2>1. ~ Known(p, "DiscardTile")
      BY <1>8 DEF Known
    <2>2. CASE Answers(p, s) = {}
      <3>1. AddIssue("no_answer")
        BY <1>2, <1>4, <2>1, <2>2 DEF Becomes
      <3>2. Following(p) = {} \/ actions[Min(Following(p))].name = "LiuJu"
        BY <1>1, <1>2, <1>3, <1>8, <2>2, IntactAnswers
      <3>3. Attached(e)' = {} /\ Sides(e)' = {} /\ Raised(e)'
        BY <1>6, <3>1
      <3> QED  BY <1>1, <1>8, <3>2, <3>3 DEF Joins
    <2>3. CASE Answers(p, s) # {}
      <3>1. PICK q \in Answers(p, s) :
            /\ \A a \in Answers(p, s) : q <= a
            /\ \/ actions[q].name = "Hule" /\ AddSide("win_decision", p)
               \/ actions[q].name = "AnGangAddGang" /\ AddSide("kan_decision", p)
               \/ actions[q].name = "DiscardTile" /\ q \in decisions /\ Attach(q)
               \/ actions[q].name = "DiscardTile" /\ q \notin decisions /\ AddIssue("no_decision")
        BY <1>2, <1>4, <2>1, <2>3 DEF Becomes
      <3>2. PICK m \in Positions :
            /\ Following(p) # {} /\ m = Min(Following(p))
            /\ actions[m].name \in Moves
            /\ m \in Answers(p, s) /\ \A a \in Answers(p, s) : m <= a
            /\ actions[m].name = "DiscardTile" => m \in decisions
        BY <1>1, <1>2, <1>3, <1>8, <2>3, IntactAnswers
      <3>3. q = m
        <4>1. q <= m /\ m <= q /\ q \in Nat /\ m \in Nat
          BY <1>3, <3>1, <3>2, AnswersType
        <4> QED  BY <4>1
      <3>4. \/ actions[m].name = "Hule" /\ AddSide("win_decision", p)
            \/ actions[m].name = "AnGangAddGang" /\ AddSide("kan_decision", p)
            \/ actions[m].name = "DiscardTile" /\ Attach(m)
        BY <3>1, <3>2, <3>3
      <3>5. \/ actions[m].name = "Hule" /\ Attached(e)' = {} /\ Sides(e)' = {"win_decision"}
            \/ actions[m].name = "AnGangAddGang" /\ Attached(e)' = {} /\ Sides(e)' = {"kan_decision"}
            \/ actions[m].name = "DiscardTile" /\ Attached(e)' = {m} /\ Sides(e)' = {}
        BY <1>6, <3>2, <3>4
      <3> QED  BY <1>1, <1>8, <3>2, <3>5 DEF Joins
    <2> QED  BY <2>2, <2>3
  <1> QED  BY <1>7, <1>8

(* An event joined before keeps what it has: the answer of a later event is *)
(* never the move that answered it.                                         *)
LEMMA EarlierStays ==
    ASSUME JoinInv, JoinEvent, NEW e \in 1..(next - 1), Intact(events[e].trigger)
    PROVE  /\ Attached(e)' = Attached(e) /\ Sides(e)' = Sides(e)
           /\ Raised(e) => Raised(e)'
  <1>1. PICK p, s, x : p = events[next].trigger /\ s = events[next].seat /\ x = next
    OBVIOUS
  <1>2. x \in DOMAIN events /\ Becomes(p, s)
    BY <1>1, EventBecomes
  <1>3. /\ RecordSound /\ RoundsBegin /\ EventsSound /\ JoinSound
        /\ DOMAIN events = 1..Len(events) /\ Len(events) \in Nat
    BY DEF JoinInv, EventsSound
  <1>4. x \in Nat /\ e \in Nat /\ e < x /\ e # x /\ e \in DOMAIN events
    BY <1>1, <1>2, <1>3
  <1>5. p \in Positions /\ TypeOne(p) /\ events[e].trigger \in Positions
    BY <1>1, <1>2, <1>3, <1>4 DEF EventsSound
  <1>6. JoinedRightly(e)
    BY <1>3 DEF JoinSound
  <1>7. Joins(e, Attached(e), Sides(e), Raised(e))
    BY <1>4, <1>6, JoinsIfRightly
  <1>8. Positions' = Positions /\ Positions \subseteq 1..MaxActions /\ maka \in [1..MaxActions -> Nat]
    <2>1. actions' = actions
      BY DEF JoinEvent, tableVars
    <2>2. Len(actions) \in Nat /\ Len(actions) <= MaxActions /\ MaxActions \in Nat
      BY <1>3, JoinAssumption DEF RecordSound
    <2> QED  BY <2>1, <2>2 DEF Positions, JoinInv, JoinTyped
  <1>9. side' = side \/ \E y : y.event = x /\ side' = side \cup {y}
    BY <1>1, <1>2 DEF Becomes, Attach, AddSide, AddIssue
  <1>10. Sides(e)' = Sides(e)
    BY <1>4, <1>9 DEF Sides
  <1>11. Raised(e) => Raised(e)'
    BY <1>2 DEF Becomes, Attach, AddSide, AddIssue, Raised
  <1>12. ASSUME NEW q \in Answers(p, s), \A a \in Answers(p, s) : q <= a, q \in decisions, Attach(q)
         PROVE  maka[q] # e
    <2>1. SUFFICES ASSUME maka[q] = e PROVE FALSE
      OBVIOUS
    <2>2. q \in Positions /\ q \in Nat /\ actions[q].name = "DiscardTile" /\ q > p /\ s \in actions[q].who
      BY <1>3, <1>12, AnswersType DEF RecordSound, Decoded, Answers
    <2>3. Answered(e, q)
      BY <1>3, <1>4, <1>8, <2>1, <2>2 DEF JoinSound
    <2>4. events[e].seat \in actions[q].who /\ q > events[e].trigger
      BY <2>3 DEF Answered, Answers
    <2>5. events[e].seat = s
      BY <1>3, <2>2, <2>4 DEF RecordSound
    <2>6. events[e].trigger <= p /\ (events[e].trigger = p => events[e].seat # s)
      BY <1>1, <1>2, <1>3, <1>4 DEF EventsSound
    <2>7. events[e].trigger < p /\ events[e].trigger \in Nat /\ p \in Nat
      BY <1>3, <1>5, <2>5, <2>6, ActionTyped
    <2>8. q \in Attached(e)
      BY <2>1, <2>2 DEF Attached
    <2>9. Following(events[e].trigger) # {} /\ q = Min(Following(events[e].trigger))
      BY <1>7, <2>8 DEF Joins
    <2>10. /\ \A n : n \in Following(events[e].trigger) <=>
                /\ n \in Positions /\ n > events[e].trigger /\ TypeOne(n)
                /\ TrueFirst(n) = TrueFirst(events[e].trigger)
           /\ Following(events[e].trigger) \subseteq Nat
      BY <1>3, <1>5, FollowingIs
    <2>11. q \in Following(events[e].trigger) /\ \A n \in Following(events[e].trigger) : q <= n
      BY <2>9, <2>10, LeastOfNaturals
    <2>12. TrueFirst(q) = TrueFirst(events[e].trigger)
      BY <2>10, <2>11
    <2>13. TrueFirst(p) = TrueFirst(events[e].trigger)
      BY <1>3, <1>5, <2>2, <2>6, <2>7, <2>12, RoundsInOrder
    <2>14. p \in Following(events[e].trigger)
      BY <1>5, <2>7, <2>10, <2>13
    <2> QED  BY <2>2, <2>7, <2>11, <2>14
  <1>13. Attached(e)' = Attached(e)
    <2>1. CASE maka' = maka
      BY <1>8, <2>1 DEF Attached
    <2>2. CASE maka' # maka
      <3>1. PICK q \in Answers(p, s) : /\ \A a \in Answers(p, s) : q <= a
                                       /\ q \in decisions /\ Attach(q)
        BY <1>2, <2>2 DEF Becomes, AddSide, AddIssue
      <3>2. maka[q] # e
        BY <1>12, <3>1
      <3>3. maka' = [maka EXCEPT ![q] = x]
        BY <1>1, <3>1 DEF Attach
      <3> QED  BY <1>4, <1>8, <3>2, <3>3 DEF Attached
    <2> QED  BY <2>1, <2>2
  <1> QED  BY <1>10, <1>11, <1>13

LEMMA EventSound ==
    ASSUME JoinInv, JoinEvent
    PROVE  JoinSound'
  <1>1. PICK p, s, x : p = events[next].trigger /\ s = events[next].seat /\ x = next
    OBVIOUS
  <1>2. x \in DOMAIN events /\ Becomes(p, s)
    BY <1>1, EventBecomes
  <1>3. tableVars' = tableVars /\ next' = x + 1
    BY <1>1 DEF JoinEvent
  <1>4. actions' = actions /\ events' = events /\ decisions' = decisions
    BY <1>3 DEF tableVars
  <1>5. x \in Nat /\ x >= 1
    <2>1. DOMAIN events = 1..Len(events)
      BY DEF JoinInv, EventsSound
    <2> QED  BY <1>2, <2>1
  <1>6. ASSUME NEW q \in 1..MaxActions, maka'[q] # 0
        PROVE  LET e == maka'[q] IN
                 /\ q \in decisions
                 /\ q \in Answers(events[e].trigger, events[e].seat)
                 /\ \A a \in Answers(events[e].trigger, events[e].seat) : q <= a
    <2>1. CASE maka' = maka
      BY <1>6, <2>1 DEF JoinInv, JoinSound, Answered
    <2>2. CASE maka' # maka
      <3>1. PICK n \in Answers(p, s) : /\ \A a \in Answers(p, s) : n <= a
                                       /\ n \in decisions /\ Attach(n)
        BY <1>2, <2>2 DEF Becomes, AddSide, AddIssue
      <3>2. maka' = [maka EXCEPT ![n] = x] /\ maka \in [1..MaxActions -> Nat]
        BY <1>1, <3>1 DEF Attach, JoinInv, JoinTyped
      <3>3. CASE q = n
        <4>1. maka'[q] = x
          BY <3>2, <3>3
        <4> QED  BY <1>1, <3>1, <3>3, <4>1
      <3>4. CASE q # n
        <4>1. maka'[q] = maka[q]
          BY <3>2, <3>4
        <4> QED  BY <1>6, <4>1 DEF JoinInv, JoinSound, Answered
      <3> QED  BY <3>3, <3>4
    <2> QED  BY <2>1, <2>2
  <1>7. \A e, q : Answered(e, q)' <=>
            /\ q \in decisions
            /\ q \in Answers(events[e].trigger, events[e].seat)
            /\ \A a \in Answers(events[e].trigger, events[e].seat) : q <= a
    BY <1>4 DEF Answered, Answers, Indexed, Positions, TypeOne, BeforeBoundary, Known, Decoded
  <1>8. \A q \in 1..MaxActions : (maka[q] # 0 => Answered(maka[q], q))'
    BY <1>6, <1>7
  <1>9. ASSUME NEW e \in 1..x, Intact(events[e].trigger) PROVE JoinedRightly(e)'
    <2>1. CASE e = x
      <3>1. Joins(e, Attached(e)', Sides(e)', Raised(e)')
        BY <1>1, <1>9, <2>1, EventJoins
      <3> QED  BY <1>3, <3>1, RightlyIfJoins
    <2>2. CASE e # x
      <3>1. e \in 1..(next - 1) /\ e \in DOMAIN events
        <4>1. DOMAIN events = 1..Len(events) /\ Len(events) \in Nat
          BY DEF JoinInv, EventsSound
        <4> QED  BY <1>1, <1>2, <1>5, <2>2, <4>1
      <3>2. Joins(e, Attached(e), Sides(e), Raised(e))
        BY <1>9, <3>1, JoinsIfRightly DEF JoinInv, JoinSound
      <3>3. /\ Attached(e)' = Attached(e) /\ Sides(e)' = Sides(e)
            /\ Raised(e) => Raised(e)'
        BY <1>9, <3>1, EarlierStays
      <3>4. Joins(e, Attached(e)', Sides(e)', Raised(e)')
        BY <3>2, <3>3 DEF Joins
      <3> QED  BY <1>3, <3>4, RightlyIfJoins
    <2> QED  BY <2>1, <2>2
  <1>10. \A e \in 1..x : (Intact(events[e].trigger) => JoinedRightly(e))'
    <2>1. \A e : Intact(events[e].trigger)' <=> Intact(events[e].trigger)
      BY <1>4 DEF Intact, RoundActions, TrueFirst, Lost, Positions
    <2> QED  BY <1>9, <2>1
  <1>11. 1..(next' - 1) = 1..x
    BY <1>3, <1>5
  <1> QED  BY <1>8, <1>10, <1>11 DEF JoinSound

-----------------------------------------------------------------------------
(***************************************************************************)
(* The invariant, and what it means.                                       *)
(***************************************************************************)
LEMMA InitJoinInv == Init => JoinInv
  <1> SUFFICES ASSUME Init PROVE JoinInv
    OBVIOUS
  <1>1. Len(actions) = 0 /\ Positions = {} /\ events = << >> /\ DOMAIN events = {}
    BY DEF Init, Positions
  <1>2. /\ step = "deal" /\ turn = 0 /\ open = FALSE /\ firsts = {} /\ decisions = {}
        /\ next = 1 /\ maka = [p \in 1..MaxActions |-> 0] /\ side = {} /\ issues = {}
        /\ actions = << >>
    BY DEF Init
  <1>3. RecordSound
    <2>1. 0 \in Seats /\ 0 <= MaxActions
      BY JoinAssumption DEF Seats
    <2>2. actions \in Seq([name : Names, who : SUBSET Seats, status : Statuses])
      BY <1>2
    <2> QED  BY <1>1, <1>2, <2>1, <2>2 DEF RecordSound, Steps
  <1>4. RoundsBegin /\ DecisionsKept
    BY <1>1, <1>2 DEF RoundsBegin, DecisionsKept, Outside
  <1>5. EventsSound
    BY <1>1 DEF EventsSound
  <1>6. JoinTyped
    <2>1. Len(events) = 0 /\ 1 \in 1..(0 + 1)
      BY <1>1
    <2> QED  BY <1>2, <2>1 DEF JoinTyped
  <1>7. JoinSound
    <2>1. \A e \in 1..(next - 1) : FALSE
      BY <1>2
    <2> QED  BY <1>2, <2>1 DEF JoinSound
  <1> QED  BY <1>3, <1>4, <1>5, <1>6, <1>7 DEF JoinInv

(* Neither the end of the record nor the end of the join attaches anything. *)
LEMMA NothingMoved ==
    ASSUME JoinInv, tableVars' = tableVars, UNCHANGED <<next, maka, side, issues>>
    PROVE  JoinSound'
  <1>1. actions' = actions /\ events' = events /\ decisions' = decisions
    BY DEF tableVars
  <1>2. \A e, q : Answered(e, q)' <=> Answered(e, q)
    BY <1>1 DEF Answered, Answers, Indexed, Positions, TypeOne, BeforeBoundary, Known, Decoded
  <1>3. \A e : Intact(events[e].trigger)' <=> Intact(events[e].trigger)
    BY <1>1 DEF Intact, RoundActions, TrueFirst, Lost, Positions
  <1>4. \A e : /\ Attached(e)' = Attached(e) /\ Sides(e)' = Sides(e) /\ Raised(e)' = Raised(e)
    BY <1>1 DEF Attached, Sides, Raised, Positions
  <1>5. ASSUME NEW e \in 1..(next - 1), Intact(events[e].trigger) PROVE JoinedRightly(e)'
    <2>1. e \in DOMAIN events
      <3>1. DOMAIN events = 1..Len(events) /\ Len(events) \in Nat /\ next \in 1..(Len(events) + 1)
        BY DEF JoinInv, EventsSound, JoinTyped
      <3> QED  BY <3>1
    <2>2. Joins(e, Attached(e), Sides(e), Raised(e))
      BY <1>5, <2>1, JoinsIfRightly DEF JoinInv, JoinSound
    <2>3. Joins(e, Attached(e)', Sides(e)', Raised(e)')
      BY <1>4, <2>2
    <2> QED  BY <2>3, RightlyIfJoins
  <1> QED  BY <1>2, <1>3, <1>5 DEF JoinInv, JoinSound

LEMMA NextJoinInv == JoinInv /\ [Next]_vars => JoinInv'
  <1> SUFFICES ASSUME JoinInv, [Next]_vars PROVE JoinInv'
    OBVIOUS
  <1>1. ASSUME \/ DealHands \/ Draw \/ Discard \/ Kan \/ Abort \/ Input
               \/ (\E s \in Seats, kan \in BOOLEAN : Call(s, kan))
               \/ (\E winners \in SUBSET Seats : Win(winners))
        PROVE  JoinInv'
    <2>1. PICK name, who, asked, status, new : Grows(name, who, asked, status, new)
      BY <1>1, TableGrows DEF JoinInv
    <2> QED  BY <2>1, TableKeeps
  <1>2. CASE EndRecord
    <2>1. /\ tableVars' = tableVars /\ UNCHANGED <<next, maka, side, issues>>
          /\ step \notin {"join", "end"} /\ step' = IF firsts = {} THEN "end" ELSE "join"
      BY <1>2 DEF EndRecord
    <2>2. events' = events /\ firsts' = firsts
      BY <2>1 DEF tableVars
    <2>3. JoinTyped'
      BY <2>1, <2>2 DEF JoinInv, JoinTyped
    <2> QED  BY <2>1, <2>3, TableStays, NothingMoved DEF JoinInv
  <1>3. CASE JoinEvent
    <2>1. tableVars' = tableVars /\ step' = step
      BY <1>3 DEF JoinEvent
    <2> QED  BY <1>3, <2>1, TableStays, EventTyped, EventSound DEF JoinInv
  <1>4. CASE Joined
    <2>1. /\ tableVars' = tableVars /\ UNCHANGED <<next, maka, side, issues>>
          /\ step' = "end" /\ next > Len(events) /\ step = "join"
      BY <1>4 DEF Joined
    <2>2. events' = events /\ firsts' = firsts
      BY <2>1 DEF tableVars
    <2>3. next = Len(events) + 1
      <3>1. next \in 1..(Len(events) + 1) /\ Len(events) \in Nat
        BY DEF JoinInv, JoinTyped, EventsSound
      <3> QED  BY <2>1, <3>1
    <2>4. JoinTyped'
      BY <2>1, <2>2, <2>3 DEF JoinInv, JoinTyped
    <2> QED  BY <2>1, <2>4, TableStays, NothingMoved DEF JoinInv
  <1>5. CASE UNCHANGED vars
    <2>1. tableVars' = tableVars /\ step' = step /\ UNCHANGED <<next, maka, side, issues>>
      BY <1>5 DEF vars, tableVars
    <2>2. events' = events /\ firsts' = firsts
      BY <2>1 DEF tableVars
    <2>3. JoinTyped'
      BY <2>1, <2>2 DEF JoinInv, JoinTyped
    <2> QED  BY <2>1, <2>3, TableStays, NothingMoved DEF JoinInv
  <1> QED  BY <1>1, <1>2, <1>3, <1>4, <1>5 DEF Next, Ended

(* The record is sound, every event is answered by the move of its seat,    *)
(* and every evaluation is where its event belongs or lies beyond a loss    *)
(* (JoinSeer in internal/extract/seer.go).                                  *)
THEOREM JoinInvariant == Spec => []JoinInv
  <1>1. Init => JoinInv
    BY InitJoinInv
  <1>2. JoinInv /\ [Next]_vars => JoinInv'
    BY NextJoinInv
  <1> QED  BY <1>1, <1>2, PTL DEF Spec

(* Every evaluation, side event and issue is of an event already joined,    *)
(* and an evaluation only ever sits on a reconstructed decision             *)
(* (JoinSeer in internal/extract/seer.go).                                  *)
THEOREM JoinTypeCorrect == Spec => []TypeOK
  <1>1. JoinInv => TypeOK
    <2> SUFFICES ASSUME JoinInv PROVE TypeOK
      OBVIOUS
    <2>1. firsts \subseteq Positions /\ decisions \subseteq Positions
      BY DEF JoinInv, RecordSound
    <2>2. \A i \in DOMAIN events : events[i].trigger \in Positions /\ events[i].seat \in Seats
      <3>1. DOMAIN events = 1..Len(events) /\ \A i \in DOMAIN events : events[i] \in EventType
        <4>1. events \in Seq(EventType)
          BY DEF JoinInv, EventsSound, EventType
        <4> QED  BY <4>1
      <3> QED  BY <3>1 DEF JoinInv, EventsSound, EventType
    <2>3. \A p \in 1..MaxActions : maka[p] # 0 => p \in decisions /\ maka[p] < next
      BY DEF JoinInv, JoinTyped, JoinSound, Answered
    <2> QED  BY <2>1, <2>2, <2>3 DEF JoinInv, RecordSound, JoinTyped, TypeOK
  <1> QED  BY <1>1, JoinInvariant, PTL

(* In an intact round every event reaches the decision it is about, and     *)
(* leaves nothing anywhere else, whatever of other rounds is lost           *)
(* (resolveDecision in internal/extract/seer.go).                           *)
THEOREM IntactRoundsJoined == Spec => []IntactRoundsJoin
  <1>1. JoinInv => IntactRoundsJoin
    <2> SUFFICES ASSUME JoinInv, step = "end", firsts # {}, NEW e \in DOMAIN events,
                        Intact(events[e].trigger)
                 PROVE  JoinedRightly(e)
      BY DEF IntactRoundsJoin
    <2>1. e \in 1..(next - 1)
      <3>1. next = Len(events) + 1 /\ DOMAIN events = 1..Len(events) /\ Len(events) \in Nat
        BY DEF JoinInv, JoinTyped, EventsSound
      <3> QED  BY <3>1
    <2> QED  BY <2>1 DEF JoinInv, JoinSound
  <1> QED  BY <1>1, JoinInvariant, PTL

(* An evaluation that sits on a later move than the true answer passed over *)
(* actions that did not decode, and over nothing else                       *)
(* (resolveDecision in internal/extract/seer.go).                           *)
THEOREM MisjoinedOnlyOverLoss == Spec => []MisjoinNeedsLoss
  <1>1. JoinInv => MisjoinNeedsLoss
    <2> SUFFICES ASSUME JoinInv, NEW q \in Positions, maka[q] # 0,
                        NEW e, e = maka[q]
                 PROVE  /\ events[e].trigger < q
                        /\ actions[q].who = {events[e].seat}
                        /\ AnswersBetween(e, q) \subseteq Lost
                        /\ \A n \in events[e].trigger..q :
                              n > events[e].trigger /\ actions[n].name = "NewRound" =>
                                  actions[n].status = "no_name"
      BY DEF MisjoinNeedsLoss
    <2>1. PICK p, s : p = events[e].trigger /\ s = events[e].seat
      OBVIOUS
    <2>2. RecordSound /\ Positions = 1..Len(actions) /\ Len(actions) \in Nat
          /\ Len(actions) <= MaxActions /\ MaxActions \in Nat /\ q \in Nat
      BY JoinAssumption DEF JoinInv, RecordSound, Positions
    <2>3. q \in 1..MaxActions /\ Answered(e, q)
      BY <2>2 DEF JoinInv, JoinSound
    <2>4. q \in decisions /\ q \in Answers(p, s) /\ \A a \in Answers(p, s) : q <= a
      BY <2>1, <2>3 DEF Answered
    <2>5. q > p /\ BeforeBoundary(p, q) /\ s \in actions[q].who
      BY <2>4 DEF Answers
    <2>6. p \in Positions
      <3>1. e \in Nat /\ e # 0 /\ e < next
        BY <2>2, <2>3 DEF JoinInv, JoinTyped
      <3>2. e \in DOMAIN events
        <4>1. next \in 1..(Len(events) + 1) /\ DOMAIN events = 1..Len(events) /\ Len(events) \in Nat
          BY DEF JoinInv, JoinTyped, EventsSound
        <4> QED  BY <3>1, <4>1
      <3> QED  BY <2>1, <3>2 DEF JoinInv, EventsSound
    <2>7. actions[q].who = {s}
      BY <2>2, <2>4, <2>5 DEF RecordSound, Decoded
    <2>8. ASSUME NEW n \in (p + 1)..(q - 1), s \in actions[n].who,
                 actions[n].name \in {"DiscardTile", "AnGangAddGang", "Hule"}
          PROVE  n \in Lost
      <3>1. n \in Positions /\ n > p /\ n < q /\ n \in Nat
        BY <2>2, <2>6
      <3>2. \A k \in (p + 1)..n : k \in (p + 1)..q
        BY <2>2, <2>6, <3>1
      <3>3. BeforeBoundary(p, n)
        BY <2>5, <3>2 DEF BeforeBoundary
      <3>4. ASSUME actions[n].status = "decoded" PROVE FALSE
        <4>1. n \in Answers(p, s)
          BY <2>8, <3>1, <3>3, <3>4 DEF Answers, Indexed, TypeOne, Decoded
        <4> QED  BY <2>2, <2>4, <3>1, <4>1
      <3> QED  BY <3>1, <3>4 DEF Lost
    <2>9. ASSUME NEW n \in p..q, n > p, actions[n].name = "NewRound" PROVE actions[n].status = "no_name"
      <3>1. n \in (p + 1)..q
        BY <2>2, <2>6, <2>9
      <3> QED  BY <2>5, <2>9, <3>1 DEF BeforeBoundary, Known
    <2> QED  BY <2>1, <2>5, <2>7, <2>8, <2>9 DEF AnswersBetween
  <1> QED  BY <1>1, JoinInvariant, PTL
=============================================================================
