------------------------------ MODULE MakaJoin -------------------------------
(***************************************************************************)
(* Joining a MAKA report to a reconstructed game (JoinSeer and             *)
(* resolveDecision in internal/extract/seer.go).                           *)
(*                                                                         *)
(* An event of the report names, by its position among the type=1 actions  *)
(* of the record, the action that opened a decision, and the seat that had *)
(* to decide; the join looks for the seat's answer.  The model plays a     *)
(* game without tiles, in which the true answer is the very next move of   *)
(* the table, lets MAKA comment on any of the decisions, lets some actions *)
(* be undecodable, and then joins the report event by event.  What Rounds  *)
(* makes of the record is its own module; here it is the set of rounds and *)
(* of decisions it reconstructed.                                          *)
(***************************************************************************)
EXTENDS Naturals, Sequences, FiniteSets, SequencesExt

CONSTANTS
    Players,        \* seats are 0..Players-1; seat 0 deals
    None,           \* no round
    MaxLost,        \* bound: actions of one record that do not decode
    MaxActions      \* bound: actions of one record

ASSUME JoinAssumption ==
    /\ Players \in Nat /\ Players >= 2
    /\ MaxLost \in Nat /\ MaxActions \in Nat
    /\ None \notin Nat

Seats == 0..(Players - 1)

VARIABLES
    actions,    \* detail.Actions, counted from 1
    turn,       \* whose turn it is
    step,       \* what the table waits for; "join" and "end" after the record
    events,     \* the events of the report: trigger, its record_index, the seat
    open,       \* is the replay inside a round?
    firsts,     \* FirstAction of the rounds reconstructed so far
    decisions,  \* the discards that became a Decision
    next,       \* the event to be joined next
    maka,       \* Decision.Maka: the event attached to each decision
    side,       \* SeerSideEvals: kind, event and round
    issues      \* the events an issue was recorded for, and why

vars == <<actions, turn, step, events, open, firsts, decisions, next, maka, side, issues>>
tableVars == <<actions, turn, events, open, firsts, decisions>>

Names == {"NewRound", "DealTile", "DiscardTile", "ChiPengGang", "AnGangAddGang", "Hule",
          "LiuJu", "input"}
(* decoded; payload_decode_failed, which keeps the name; or nameless        *)
Statuses == {"decoded", "no_payload", "no_name"}
Steps == {"deal", "act", "discard", "claim", "replace", "join", "end"}
Whys == {"outside_range", "outside_round", "no_decision", "no_answer"}
Kinds == {"call_opportunity", "kan_decision", "win_decision"}

Positions == 1..Len(actions)
TypeOne(p) == actions[p].name # "input"
Known(p, name) == actions[p].name = name /\ actions[p].status # "no_name"
Decoded(p, name) == actions[p].name = name /\ actions[p].status = "decoded"

-----------------------------------------------------------------------------
(***************************************************************************)
(* The record, its replay, and the report MAKA makes of it.                *)
(***************************************************************************)
Lost == {p \in Positions : actions[p].status # "decoded"}
Spoiled == \E p \in Lost : \A f \in firsts : f <= p

(* What Rounds keeps of an action.  A discard whose tile a lost action hid  *)
(* from the hand becomes no decision.                                       *)
Reconstruct(name, at, decoded) ==
    /\ open' = IF decoded /\ name = "NewRound" THEN TRUE
               ELSE IF decoded /\ name \in {"Hule", "LiuJu"} THEN FALSE
               ELSE open
    /\ firsts' = IF decoded /\ name = "NewRound" THEN firsts \cup {at} ELSE firsts
    /\ \E found \in BOOLEAN :
        /\ ~found => Spoiled
        /\ decisions' = IF decoded /\ name = "DiscardTile" /\ open /\ found
                        THEN decisions \cup {at} ELSE decisions

(* The number of type=1 actions before position p: record_index counts them *)
RecordIndex(p) == Cardinality({q \in 1..(p - 1) : TypeOne(q)})

(* Any of the seats that now have to decide may be commented on             *)
Record(name, who, asked) == \E status \in Statuses, commented \in SUBSET asked :
    LET at == Len(actions) + 1 IN
    /\ at <= MaxActions
    /\ status # "decoded" => Cardinality(Lost) < MaxLost
    /\ actions' = Append(actions, [name |-> name, who |-> who, status |-> status])
    /\ events' = events \o SetToSeq({[trigger |-> at, index |-> RecordIndex(at), seat |-> s] :
                                          s \in commented})
    /\ Reconstruct(name, at, status = "decoded")
    /\ UNCHANGED <<next, maka, side, issues>>

DealHands ==
    /\ step = "deal"
    /\ turn' = 0 /\ step' = "act"
    /\ Record("NewRound", {}, {0})

Draw ==
    LET seat == IF step = "claim" THEN (turn + 1) % Players ELSE turn IN
    /\ step \in {"claim", "replace"}
    /\ turn' = seat /\ step' = "act"
    /\ Record("DealTile", {seat}, {seat})

Discard ==
    /\ step \in {"act", "discard"}
    /\ step' = "claim" /\ turn' = turn
    /\ Record("DiscardTile", {turn}, Seats \ {turn})

(* a chi or a pon, which a discard follows, or an open kan                  *)
Call(seat, kan) ==
    /\ step = "claim" /\ seat # turn
    /\ turn' = seat
    /\ step' = IF kan THEN "replace" ELSE "discard"
    /\ Record("ChiPengGang", {seat}, IF kan THEN {} ELSE {seat})

Kan ==
    /\ step = "act"
    /\ step' = "replace" /\ turn' = turn
    /\ Record("AnGangAddGang", {turn}, {})

(* a win by self draw, or by any of the others on a discard                 *)
Win(winners) ==
    /\ winners # {}
    /\ \/ step = "act" /\ winners = {turn}
       \/ step = "claim" /\ turn \notin winners
    /\ step' = "deal" /\ turn' = turn
    /\ Record("Hule", winners, {})

(* an abortive or an exhaustive draw                                        *)
Abort ==
    /\ step \in {"act", "claim"}
    /\ step' = "deal" /\ turn' = turn
    /\ Record("LiuJu", {}, {})

(* An operation of a client is an action of another type, without result    *)
Input ==
    /\ step \in {"act", "discard", "claim"}
    /\ Len(actions) < MaxActions
    /\ actions' = Append(actions, [name |-> "input", who |-> {}, status |-> "decoded"])
    /\ UNCHANGED <<turn, step, events, open, firsts, decisions, next, maka, side, issues>>

(* A record without a round is an error, and is not joined                  *)
EndRecord ==
    /\ step \notin {"join", "end"}
    /\ step' = IF firsts = {} THEN "end" ELSE "join"
    /\ UNCHANGED <<tableVars, next, maka, side, issues>>

-----------------------------------------------------------------------------
(***************************************************************************)
(* JoinSeer.                                                               *)
(***************************************************************************)
\* mutant: only actions that decode are counted
DecodedOnly == {p \in Positions : TypeOne(p) /\ actions[p].status = "decoded"}
Indexed == {p \in Positions : TypeOne(p)}

(* typeOne[index], or nothing                                               *)
Trigger(index) == {p \in Indexed : Cardinality({q \in Indexed : q < p}) = index}

RoundOf(p) == IF \E f \in firsts : f <= p THEN Max({f \in firsts : f <= p}) ELSE None

(* resolveDecision: the seat's first discard, kan or win after the trigger  *)
(* and before the next round that is known to begin.                        *)
\* mutant: the search does not stop at the round boundary
NoBoundary(p, q) == TRUE
BeforeBoundary(p, q) == \A n \in (p + 1)..q : ~Known(n, "NewRound")

Answers(p, seat) ==
    {q \in Indexed : /\ q > p
                     /\ BeforeBoundary(p, q)
                     /\ seat \in actions[q].who
                     /\ \E name \in {"DiscardTile", "AnGangAddGang", "Hule"} : Decoded(q, name)}

\* mutant: decisions[resolved.discard] is used unchecked
AnyDiscard(p) == TRUE
Reconstructed(p) == p \in decisions

Attach(p) == maka' = [maka EXCEPT ![p] = next] /\ UNCHANGED <<side, issues>>
AddSide(kind, p) ==
    /\ side' = side \cup {[kind |-> kind, event |-> next, round |-> RoundOf(p)]}
    /\ UNCHANGED <<maka, issues>>
AddIssue(why) == issues' = issues \cup {[event |-> next, why |-> why]} /\ UNCHANGED <<maka, side>>

JoinTo(p, seat) ==
    IF RoundOf(p) = None THEN AddIssue("outside_round")
    ELSE IF Known(p, "DiscardTile") THEN AddSide("call_opportunity", p)
    ELSE IF Answers(p, seat) = {} THEN AddIssue("no_answer")
    ELSE LET answer == Min(Answers(p, seat)) IN
         CASE Decoded(answer, "Hule") -> AddSide("win_decision", p)
           [] Decoded(answer, "AnGangAddGang") -> AddSide("kan_decision", p)
           [] Decoded(answer, "DiscardTile") ->
                IF Reconstructed(answer) THEN Attach(answer) ELSE AddIssue("no_decision")

JoinEvent ==
    /\ step = "join"
    /\ next <= Len(events)
    /\ IF Trigger(events[next].index) = {} THEN AddIssue("outside_range")
       ELSE \E p \in Trigger(events[next].index) : JoinTo(p, events[next].seat)
    /\ next' = next + 1
    /\ UNCHANGED <<tableVars, step>>

Joined ==
    /\ step = "join"
    /\ next > Len(events)
    /\ step' = "end"
    /\ UNCHANGED <<tableVars, next, maka, side, issues>>

Ended == step = "end" /\ UNCHANGED vars

Init ==
    /\ actions = << >> /\ turn = 0 /\ step = "deal"
    /\ events = << >>
    /\ open = FALSE /\ firsts = {} /\ decisions = {}
    /\ next = 1
    /\ maka = [p \in 1..MaxActions |-> 0]
    /\ side = {} /\ issues = {}

Next ==
    \/ DealHands \/ Draw \/ Discard \/ Kan \/ Abort \/ Input
    \/ \E s \in Seats, kan \in BOOLEAN : Call(s, kan)
    \/ \E winners \in SUBSET Seats : Win(winners)
    \/ EndRecord \/ JoinEvent \/ Joined \/ Ended

Spec == Init /\ [][Next]_vars

-----------------------------------------------------------------------------
(***************************************************************************)
(* Properties                                                              *)
(***************************************************************************)
TypeOK ==
    /\ actions \in Seq([name : Names, who : SUBSET Seats, status : Statuses])
    /\ turn \in Seats /\ step \in Steps
    /\ \A i \in DOMAIN events : events[i].trigger \in Positions /\ events[i].seat \in Seats
    /\ firsts \subseteq Positions /\ decisions \subseteq Positions
    /\ next \in 1..(Len(events) + 1)
    /\ \A p \in 1..MaxActions : maka[p] # 0 => p \in decisions /\ maka[p] < next
    /\ \A s \in side : s.kind \in Kinds /\ s.event < next /\ s.round \in firsts
    /\ \A i \in issues : i.event < next /\ i.why \in Whys

(* The true round of position p, and the move that truly answers it         *)
TrueFirst(p) == Max({q \in 1..p : actions[q].name = "NewRound"})
RoundActions(p) == {q \in Positions : q >= p /\ TrueFirst(q) = TrueFirst(p)} \cup TrueFirst(p)..p
Following(p) == {q \in RoundActions(p) : q > p /\ TypeOne(q)}

(* Nothing of the round is lost, nor the action that begins the next one    *)
Intact(p) ==
    /\ RoundActions(p) \cap Lost = {}
    /\ \A q \in Positions :
            (q > p /\ actions[q].name = "NewRound" /\ \A n \in p..(q - 1) : TrueFirst(n) = TrueFirst(p))
                => actions[q].status # "no_name"

Attached(e) == {p \in Positions : maka[p] = e}
Sides(e) == {s.kind : s \in {x \in side : x.event = e}}

(* What must become of event e in a round that is intact                    *)
JoinedRightly(e) ==
    LET p == events[e].trigger
        answer == IF Following(p) = {} THEN "none" ELSE actions[Min(Following(p))].name
    IN CASE actions[p].name = "DiscardTile" ->
                Attached(e) = {} /\ Sides(e) = {"call_opportunity"}
         [] actions[p].name # "DiscardTile" /\ answer = "DiscardTile" ->
                Attached(e) = {Min(Following(p))} /\ Sides(e) = {}
         [] actions[p].name # "DiscardTile" /\ answer = "AnGangAddGang" ->
                Attached(e) = {} /\ Sides(e) = {"kan_decision"}
         [] actions[p].name # "DiscardTile" /\ answer = "Hule" ->
                Attached(e) = {} /\ Sides(e) = {"win_decision"}
         [] actions[p].name # "DiscardTile" /\ answer \in {"LiuJu", "none"} ->
                Attached(e) = {} /\ Sides(e) = {} /\ \E i \in issues : i.event = e

(* In an intact round every event of the report reaches the decision it is  *)
(* about: the evaluation sits on the very move that answered, a call        *)
(* opportunity, a kan and a win are kept as such, and an unanswered decision*)
(* is an issue, whatever actions of other rounds are lost                   *)
(* (seer.go:104-106, docs/protocol-findings.md:287).                        *)
IntactRoundsJoin == (step = "end" /\ firsts # {}) =>
    \A e \in DOMAIN events : Intact(events[e].trigger) => JoinedRightly(e)

(* seer.go:104-106 and docs/decisions.md:132 say that an event that cannot  *)
(* be joined is recorded as an issue and never guessed at: if the action    *)
(* that opened a decision decoded, the evaluation of it sits on the move    *)
(* that truly answered, or on none.                                         *)
NeverGuessed == \A q \in Positions :
    LET trigger == events[maka[q]].trigger
    IN (maka[q] # 0 /\ trigger \notin Lost) =>
            q \in Following(trigger) /\ \A n \in Following(trigger) : q <= n

(* An answer of the seat that lies between the event and a move of its own  *)
AnswersBetween(e, q) ==
    {n \in (events[e].trigger + 1)..(q - 1) :
        /\ events[e].seat \in actions[n].who
        /\ actions[n].name \in {"DiscardTile", "AnGangAddGang", "Hule"}}

(* How far a guess goes: an evaluation sits on a later discard of the seat, *)
(* or in a later round, only when all the answers it passed over did not    *)
(* decode, nor did the rounds that began in between, by name.  Lost actions *)
(* elsewhere shift nothing (seer.go:118-123, 229-236).                      *)
MisjoinNeedsLoss == \A q \in Positions : maka[q] # 0 =>
    LET e == maka[q] IN
    /\ events[e].trigger < q
    /\ actions[q].who = {events[e].seat}
    /\ AnswersBetween(e, q) \subseteq Lost
    /\ \A n \in events[e].trigger..q :
            n > events[e].trigger /\ actions[n].name = "NewRound" => actions[n].status = "no_name"
=============================================================================
