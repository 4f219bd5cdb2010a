---------------------------- MODULE SessionProofs ----------------------------
(***************************************************************************)
(* Proofs about Session (internal/capture/session.go): each of its steps   *)
(* is a step of the sequential observer, so that what ObserverProofs       *)
(* proves holds with three goroutines too; and what run() promises itself, *)
(* that no message is lost between the goroutines, that all of them are    *)
(* joined, and what its result may say.                                    *)
(***************************************************************************)
EXTENDS Session, FiniteSetTheorems, SequenceTheorems, TLAPS

OS == INSTANCE ObserverProofs

-----------------------------------------------------------------------------
(***************************************************************************)
(* The observer of the session and that of the proofs are the same module, *)
(* instantiated twice.                                                     *)
(***************************************************************************)
LEMMA SameRecords ==
    /\ \A k, r, i, s, b : O!Record(k, r, i, s, b) = OS!Record(k, r, i, s, b)
    /\ \A recs, ok : O!Emit(recs, ok) <=> OS!Emit(recs, ok)
    /\ \A ok : O!OnResult(ok) <=> OS!OnResult(ok)
    /\ \A S : O!Cardinality(S) = OS!Cardinality(S)
    /\ O!EnableID = OS!EnableID
    /\ O!Commands <=> OS!Commands
  BY DEF O!Record, OS!Record, O!Emit, OS!Emit, O!OnResult, OS!OnResult, O!EnableID,
         OS!EnableID, O!Commands, OS!Commands, O!Cardinality, OS!Cardinality

LEMMA SameMessages == O!Messages = OS!Messages
  BY DEF O!Messages, OS!Messages, O!Replies, OS!Replies, O!EnableReplies, OS!EnableReplies,
         O!ReplyMessages, OS!ReplyMessages, O!EnableID, OS!EnableID

LEMMA SameDecisions == \A m :
    /\ O!MetadataStatus(m) = OS!MetadataStatus(m)
    /\ O!MayTrack <=> OS!MayTrack
    /\ O!FetchDecision(m) = OS!FetchDecision(m)
    /\ O!FinishedRecord(m) = OS!FinishedRecord(m) /\ O!FinishedFirst(m) = OS!FinishedFirst(m)
    /\ O!BodyStatus(m) = OS!BodyStatus(m)
    /\ O!LateRecord(m) = OS!LateRecord(m)
  BY SameRecords
     DEF O!MetadataStatus, OS!MetadataStatus, O!MayTrack, OS!MayTrack, O!FetchDecision,
         OS!FetchDecision, O!Reservation, OS!Reservation, O!FinishedRecord,
         OS!FinishedRecord, O!FinishedFirst, OS!FinishedFirst, O!BodyStatus, OS!BodyStatus,
         O!LateRecord, OS!LateRecord

LEMMA SameHandle == \A m : O!Handle(m) <=> OS!Handle(m)
  <1> TAKE m
  <1>1. O!ResponseReceived(m) <=> OS!ResponseReceived(m)
    BY SameRecords, SameDecisions DEF O!ResponseReceived, OS!ResponseReceived
  <1>2. O!LoadingFinished(m) <=> OS!LoadingFinished(m)
    BY SameRecords, SameDecisions
       DEF O!LoadingFinished, OS!LoadingFinished, O!FinishedOnly, OS!FinishedOnly,
           O!FinishedRefused, OS!FinishedRefused, O!FinishedFetched, OS!FinishedFetched
  <1>3. O!LoadingFailed(m) <=> OS!LoadingFailed(m)
    BY SameRecords DEF O!LoadingFailed, OS!LoadingFailed
  <1>4. O!OtherEvent(m) <=> OS!OtherEvent(m)
    BY SameRecords DEF O!OtherEvent, OS!OtherEvent
  <1>5. O!BodyReply(m) <=> OS!BodyReply(m)
    BY SameRecords, SameDecisions
       DEF O!BodyReply, OS!BodyReply, O!Settle, OS!Settle, O!Excess, OS!Excess
  <1>6. O!UnmatchedReply(m) <=> OS!UnmatchedReply(m)
    BY SameRecords, SameDecisions DEF O!UnmatchedReply, OS!UnmatchedReply
  <1>7. O!EnableRejected(m) <=> OS!EnableRejected(m)
    BY SameRecords DEF O!EnableRejected, OS!EnableRejected
  <1> QED
    BY <1>1, <1>2, <1>3, <1>4, <1>5, <1>6, <1>7 DEF O!Handle, OS!Handle

LEMMA SameNext == O!Next <=> OS!Next
  <1>1. \A p : /\ O!DeadlinePasses(p) <=> OS!DeadlinePasses(p)
               /\ O!ExpireFetch(p) <=> OS!ExpireFetch(p)
               /\ O!InterruptFetch(p) <=> OS!InterruptFetch(p)
               /\ O!InterruptResponse(p) <=> OS!InterruptResponse(p)
    BY SameRecords
       DEF O!DeadlinePasses, OS!DeadlinePasses, O!ExpireFetch, OS!ExpireFetch,
           O!TimeoutRecord, OS!TimeoutRecord, O!InterruptFetch, OS!InterruptFetch,
           O!InterruptResponse, OS!InterruptResponse
  <1>2. /\ O!RefusePolicy <=> OS!RefusePolicy
        /\ O!EmitStart <=> OS!EmitStart
        /\ O!SendEnable <=> OS!SendEnable
        /\ O!EmitStop <=> OS!EmitStop
    BY SameRecords
       DEF O!RefusePolicy, OS!RefusePolicy, O!ValidPolicy, OS!ValidPolicy, O!EmitStart,
           OS!EmitStart, O!SendEnable, OS!SendEnable, O!EmitStop, OS!EmitStop
  <1>3. /\ O!Tick <=> OS!Tick
        /\ O!TickDone <=> OS!TickDone
        /\ O!Leave <=> OS!Leave
        /\ O!Drained <=> OS!Drained
        /\ O!ExpireDone <=> OS!ExpireDone
        /\ O!Returned <=> OS!Returned
    BY DEF O!Tick, OS!Tick, O!TickDone, OS!TickDone, O!Leave, OS!Leave, O!Drained,
           OS!Drained, O!ExpireDone, OS!ExpireDone, O!AllExpired, OS!AllExpired,
           O!Returned, OS!Returned, O!obsVars, OS!obsVars
  <1> QED
    BY <1>1, <1>2, <1>3, SameMessages, SameHandle DEF O!Next, OS!Next

(* What is assumed of the constants is what the proofs of Observer need.    *)
LEMMA SameAssumptions == OS!EventMessages = O!EventMessages
  BY DEF OS!EventMessages, O!EventMessages

LEMMA SameSpec == O!Spec <=> OS!Spec
  <1>1. O!Init <=> OS!Init
    BY DEF O!Init, OS!Init
  <1>2. [O!Next]_(O!obsVars) <=> [OS!Next]_(OS!obsVars)
    BY SameNext DEF O!obsVars, OS!obsVars
  <1> QED  BY <1>1, <1>2, PTL DEF O!Spec, OS!Spec

LEMMA SameTypeOK == O!TypeOK <=> OS!TypeOK
  BY DEF O!TypeOK, OS!TypeOK, O!Phases, OS!Phases, O!Records, OS!Records, O!Kinds, OS!Kinds,
         O!Statuses, OS!Statuses, O!Fetches, OS!Fetches, O!Cardinality, OS!Cardinality

(* Whatever behaves like the observer is as well typed as the observer.     *)
LEMMA ObserverTyped == O!Spec => []O!TypeOK
  <1>1. OS!Spec => []OS!TypeOK
    BY OS!TypeCorrect, SharedPolicyAssumption, SharedTrafficAssumption, SameAssumptions
  <1> QED  BY <1>1, SameSpec, SameTypeOK, PTL

-----------------------------------------------------------------------------
(***************************************************************************)
(* What is between the socket and the loop, in the order it was read: the  *)
(* channel, and behind it the packet that the reader holds.                *)
(***************************************************************************)
InTransit == IF reader = "handing" THEN Append(packets, hand) ELSE packets

Packets == Traffic \cup (UNION {O!Replies(id) : id \in Nat})
             \cup {ErrorPacket(eof) : eof \in BOOLEAN}

PacketsTyped ==
    /\ reader \in {"idle", "reading", "handing", "done"}
    /\ packets \in Seq(Packets)
    /\ Len(packets) <= PacketCap
    /\ reader = "handing" => hand \in Packets
    /\ reader # "handing" => hand = NoPacket

(* A message under way is an event of the tab or answers a command that is  *)
(* still unanswered.                                                        *)
UnderWay == \A i \in 1..Len(InTransit) :
    IsError(InTransit[i]) \/ InTransit[i] \in O!Messages

(* No two answers to one command are under way.                             *)
AnsweredOnce == \A i, j \in 1..Len(InTransit) :
    (/\ InTransit[i].type = "reply" /\ InTransit[j].type = "reply"
     /\ InTransit[i].id = InTransit[j].id) => i = j

(* The reader stops at its first error.                                     *)
ErrorIsLast == \A i \in 1..Len(InTransit) : IsError(InTransit[i]) =>
    i = Len(InTransit) /\ reader \in {"handing", "done"}

EndsInError == InTransit # << >> /\ IsError(InTransit[Len(InTransit)])

(* What was read, the error that ended the reading included, was handled or *)
(* is under way.                                                            *)
AllCounted ==
    nread + (IF EndsInError THEN 1 ELSE 0) = handled + Len(InTransit)

TransitInv ==
    /\ PacketsTyped /\ nread \in 0..MaxMessages
    /\ UnderWay /\ AnsweredOnce /\ ErrorIsLast /\ AllCounted

(* The reader stops at the read that fails.                                 *)
ReaderInv ==
    /\ readEnd \in ReadEnds
    /\ readEnd # "none" => reader = "done" \/ (reader = "handing" /\ IsError(hand))

(* An error under way is the one that ended the reader; it says that the    *)
(* tab is gone only if it is, and the session's own close has a reason.     *)
ErrorHasCause ==
    /\ \A i \in 1..Len(InTransit) : IsError(InTransit[i]) =>
            readEnd # "none" /\ (InTransit[i].eof => readEnd = "gone")
    /\ readEnd = "closed" => ctxDone
    /\ readEnd = "gone" => peer = "gone"

-----------------------------------------------------------------------------
(***************************************************************************)
(* Cancellation, shutdown and result.                                      *)
(***************************************************************************)
Ended == phase \in {"drain", "expire", "stop", "done"}
Joining == phase \in {"expire", "stop", "done"}

(* The context is done exactly when the caller cancelled or the loop was    *)
(* left, and only then is the socket closed.                                *)
ContextInv ==
    /\ caller \in BOOLEAN /\ ctxDone \in BOOLEAN
    /\ conn \in {"open", "closed"} /\ peer \in {"up", "gone"}
    /\ ctxDone <=> caller \/ Ended
    /\ conn = "closed" => ctxDone

(* A refused policy starts no goroutine; otherwise both have ended before   *)
(* anything is expired.                                                     *)
GoroutinesInv ==
    /\ watcher \in {"idle", "waiting", "closing", "done"}
    /\ closeResult \in {"empty", "ok", "error", "taken"}
    /\ (reader = "idle" <=> ~O!ValidPolicy) /\ (watcher = "idle" <=> ~O!ValidPolicy)
    /\ ~O!ValidPolicy => phase \in {"start", "done"} /\ packets = << >>
    /\ watcher \in {"closing", "done"} => conn = "closed"
    /\ Joining /\ O!ValidPolicy => packets = << >> /\ reader = "done" /\ watcher = "done"
    /\ phase = "done" => conn = "closed"

(* The result never blames the session's own close, and is empty only if    *)
(* the caller cancelled.                                                    *)
ResultInv ==
    /\ errs \subseteq Errors
    /\ enabled \in BOOLEAN /\ enableLate \in BOOLEAN
    /\ ReaderInv /\ ErrorHasCause
    /\ OwnCloseNotBlamed
    /\ Ended /\ errs = {} => caller

-----------------------------------------------------------------------------
(***************************************************************************)
(* What a step of the observer means for the session.                      *)
(***************************************************************************)
LEMMA HandleFacts ==
    ASSUME NEW m, O!Handle(m)
    PROVE  /\ handled' = handled + 1 /\ policy' = policy
           /\ \A id \in unanswered : id \in unanswered' \/ (m.type = "reply" /\ id = m.id)
           /\ phase \in {"loop", "drain"}
           /\ phase' # phase => /\ phase = "loop" /\ phase' = "drain"
                                /\ faults' # {} \/ O!EnableRejected(m)
  <1>1. handled' = handled + 1 /\ phase \in {"loop", "drain"}
    BY DEF O!Handle
  <1>2. CASE \/ O!ResponseReceived(m) \/ O!LoadingFailed(m) \/ O!OtherEvent(m)
    BY <1>1, <1>2 DEF O!ResponseReceived, O!LoadingFailed, O!OtherEvent, O!OnResult, O!Emit
  <1>3. CASE O!LoadingFinished(m)
    BY <1>1, <1>3 DEF O!LoadingFinished, O!FinishedOnly, O!FinishedRefused,
                      O!FinishedFetched, O!OnResult, O!Emit
  <1>4. CASE O!BodyReply(m) \/ O!UnmatchedReply(m)
    BY <1>1, <1>4 DEF O!BodyReply, O!UnmatchedReply, O!OnResult, O!Emit
  <1>5. CASE O!EnableRejected(m)
    BY <1>1, <1>5 DEF O!EnableRejected, O!Commands
  <1> QED  BY <1>2, <1>3, <1>4, <1>5 DEF O!Handle

(* A step of the observer that handles no message answers no command.       *)
Unhandled ==
    /\ handled' = handled /\ policy' = policy
    /\ unanswered \subseteq unanswered'

LEMMA StartFacts ==
    ASSUME O!RefusePolicy \/ O!EmitStart \/ O!SendEnable
    PROVE  Unhandled
  BY DEF Unhandled, O!RefusePolicy, O!EmitStart, O!SendEnable

LEMMA LeaveFacts ==
    ASSUME O!Leave \/ O!Drained
    PROVE  UNCHANGED <<policy, responses, pending, overdue, bodyBytes, commandID, log,
                       unanswered, handled, fetched, overshoot, faults>>
  BY DEF O!Leave, O!Drained

LEMMA TimeFacts ==
    ASSUME \/ O!Tick \/ O!TickDone
           \/ \E p \in pending : O!ExpireFetch(p) \/ O!DeadlinePasses(p)
    PROVE  Unhandled
  BY DEF Unhandled, O!Tick, O!TickDone, O!ExpireFetch, O!DeadlinePasses

LEMMA StopFacts ==
    ASSUME \/ \E p \in pending : O!InterruptFetch(p)
           \/ \E r \in responses : O!InterruptResponse(r)
           \/ O!ExpireDone \/ O!EmitStop
    PROVE  Unhandled
  BY DEF Unhandled, O!InterruptFetch, O!InterruptResponse, O!ExpireDone, O!EmitStop

-----------------------------------------------------------------------------
(***************************************************************************)
(* The five things that a step can do to the packets in transit.           *)
(***************************************************************************)
(* Nothing: other state changes, or the reader hands a packet to the channel *)
TransitKept ==
    /\ InTransit' = InTransit /\ Unhandled /\ UNCHANGED <<nread, readEnd>>
    /\ reader' # reader => /\ reader = "handing"
                           /\ reader' = IF IsError(hand) THEN "done" ELSE "reading"
                           /\ InTransit # << >> /\ InTransit[Len(InTransit)] = hand

(* A message is read, which is not the second answer to a command.          *)
MessageRead ==
    /\ reader = "reading" /\ reader' = "handing"
    /\ \E m \in O!Messages :
          /\ InTransit' = Append(InTransit, m)
          /\ m.type = "reply" => \A i \in 1..Len(InTransit) :
                InTransit[i].type = "reply" => InTransit[i].id # m.id
    /\ nread < MaxMessages /\ nread' = nread + 1
    /\ UNCHANGED <<readEnd, handled, unanswered, policy>>

(* The read fails.                                                          *)
ErrorRead ==
    /\ reader = "reading" /\ reader' = "handing"
    /\ readEnd' \in ReadEnds \ {"none"}
    /\ readEnd' = "closed" => conn = "closed"
    /\ readEnd' = "gone" => peer = "gone"
    /\ \E eof \in BOOLEAN : /\ eof => readEnd' = "gone"
                            /\ InTransit' = Append(InTransit, ErrorPacket(eof))
    /\ UNCHANGED <<nread, handled, unanswered, policy>>

(* The oldest message is handled.                                           *)
OldestHandled ==
    /\ InTransit # << >> /\ ~IsError(Head(InTransit))
    /\ O!Handle(Head(InTransit))
    /\ InTransit' = Tail(InTransit)
    /\ UNCHANGED <<nread, readEnd, reader, hand>>

(* The error of the reader is received.                                     *)
ErrorReceived ==
    /\ InTransit # << >> /\ IsError(Head(InTransit))
    /\ InTransit' = Tail(InTransit)
    /\ UNCHANGED <<nread, readEnd, reader, hand, handled, unanswered, policy>>

TransitStep == TransitKept \/ MessageRead \/ ErrorRead \/ OldestHandled \/ ErrorReceived

(* The loop takes the first packet of the channel.                          *)
LEMMA Taken ==
    ASSUME PacketsTyped, packets # << >>, packets' = Tail(packets), UNCHANGED <<reader, hand>>
    PROVE  /\ InTransit # << >> /\ Head(InTransit) = Head(packets)
           /\ InTransit' = Tail(InTransit)
           /\ PacketsTyped'
  <1>0. /\ packets \in Seq(Packets) /\ (reader = "handing" => hand \in Packets)
        /\ Len(packets) <= PacketCap
    BY DEF PacketsTyped
  <1>1. Tail(packets) \in Seq(Packets) /\ Len(Tail(packets)) <= PacketCap
    BY <1>0, PacketCapAssumption, HeadTailProperties
  <1>2. PacketsTyped'
    BY <1>1 DEF PacketsTyped
  <1>3. ASSUME reader = "handing"
        PROVE  /\ InTransit # << >> /\ Head(InTransit) = Head(packets)
               /\ InTransit' = Tail(InTransit)
    <2>1. /\ Append(packets, hand) # << >> /\ Head(Append(packets, hand)) = Head(packets)
          /\ Append(Tail(packets), hand) = Tail(Append(packets, hand))
      BY <1>0, <1>3, AppendProperties, HeadTailProperties
    <2> QED  BY <1>3, <2>1 DEF InTransit
  <1>4. ASSUME reader # "handing"
        PROVE  /\ InTransit # << >> /\ Head(InTransit) = Head(packets)
               /\ InTransit' = Tail(InTransit)
    BY <1>4 DEF InTransit
  <1> QED  BY <1>2, <1>3, <1>4

(* Steps that leave the reader and the channel alone keep the packets.      *)
LEMMA PacketsStay ==
    ASSUME PacketsTyped, UNCHANGED <<reader, hand, packets>>
    PROVE  PacketsTyped' /\ InTransit' = InTransit
  BY DEF PacketsTyped, InTransit

LEMMA ReadTransit ==
    ASSUME PacketsTyped, unanswered \subseteq Nat, ReadMessage
    PROVE  PacketsTyped' /\ TransitStep
  <1>0. /\ reader = "reading" /\ reader' = "handing" /\ packets' = packets
        /\ hand' \in Incoming /\ nread < MaxMessages /\ nread' = nread + 1
        /\ UNCHANGED <<readEnd, handled, unanswered, policy>>
    BY DEF ReadMessage, observer
  <1>1. hand' \in O!Messages
    BY <1>0 DEF Incoming, O!Messages
  <1>2. hand' \in Packets
    BY <1>1 DEF Packets, O!Messages
  <1>3. InTransit = packets /\ InTransit' = Append(InTransit, hand')
    BY <1>0 DEF InTransit
  <1>4. ASSUME hand'.type = "reply", NEW i \in 1..Len(InTransit), InTransit[i].type = "reply"
        PROVE  InTransit[i].id # hand'.id
    <2>1. InTransit[i].id \in RepliesUnderWay
      BY <1>3, <1>4 DEF RepliesUnderWay
    <2>2. hand' \notin Traffic
      BY <1>4, SharedTrafficAssumption DEF O!EventMessages
    <2>3. PICK id \in unanswered \ RepliesUnderWay : hand' \in O!Replies(id)
      BY <1>0, <2>2 DEF Incoming
    <2>4. hand'.id = id
      BY <2>3 DEF O!Replies, O!ReplyMessages, O!EnableReplies
    <2> QED  BY <2>1, <2>3, <2>4
  <1>5. MessageRead
    BY <1>0, <1>1, <1>3, <1>4 DEF MessageRead
  <1>6. PacketsTyped'
    BY <1>0, <1>2 DEF PacketsTyped
  <1> QED  BY <1>5, <1>6 DEF TransitStep

LEMMA ReaderTransit ==
    ASSUME PacketsTyped, Reader \/ ReadFails("frame")
    PROVE  PacketsTyped' /\ TransitStep
  <1>1. ASSUME NEW cause \in ReadEnds \ {"none"}, ReadFails(cause)
        PROVE  PacketsTyped' /\ TransitStep
    <2>1. PICK eof \in BOOLEAN :
            /\ reader = "reading" /\ reader' = "handing"
            /\ cause = "closed" => conn = "closed"
            /\ cause = "gone" => peer = "gone"
            /\ eof => cause = "gone"
            /\ hand' = ErrorPacket(eof) /\ packets' = packets
            /\ readEnd' = cause
            /\ UNCHANGED <<nread, handled, unanswered, policy>>
      BY <1>1 DEF ReadFails, observer
    <2>2. InTransit' = Append(InTransit, ErrorPacket(eof))
      BY <2>1 DEF InTransit
    <2>3. ErrorPacket(eof) \in Packets
      BY DEF Packets
    <2>4. ErrorRead
      BY <2>1, <2>2 DEF ErrorRead
    <2>5. PacketsTyped'
      BY <2>1, <2>3 DEF PacketsTyped
    <2> QED  BY <2>4, <2>5 DEF TransitStep
  <1>2. CASE HandOff
    <2>1. /\ reader = "handing" /\ packets' = Append(packets, hand) /\ hand' = NoPacket
          /\ reader' = IF IsError(hand) THEN "done" ELSE "reading"
          /\ Len(packets) < PacketCap
          /\ UNCHANGED <<nread, readEnd, handled, unanswered, policy>>
      BY <1>2 DEF HandOff, HandedOff, HasRoom, observer
    <2>2. packets \in Seq(Packets) /\ hand \in Packets
      BY <2>1 DEF PacketsTyped
    <2>3. /\ Append(packets, hand) \in Seq(Packets)
          /\ Len(Append(packets, hand)) = Len(packets) + 1
          /\ Append(packets, hand)[Len(packets) + 1] = hand
          /\ Append(packets, hand) # << >>
      BY <2>2, AppendProperties
    <2>4. InTransit = Append(packets, hand) /\ InTransit' = InTransit
      BY <2>1 DEF InTransit
    <2>5. TransitKept
      BY <2>1, <2>3, <2>4 DEF TransitKept, Unhandled
    <2>6. Len(packets) + 1 <= PacketCap
      BY <2>1, <2>2, PacketCapAssumption
    <2>7. PacketsTyped'
      BY <2>1, <2>3, <2>6 DEF PacketsTyped
    <2> QED  BY <2>5, <2>7 DEF TransitStep
  <1> QED  BY <1>1, <1>2 DEF Reader, ReadEnds

(* The loop, while it looks at the channel.                                 *)
LEMMA LoopTransit ==
    ASSUME PacketsTyped, ReceiveMessage \/ ReceiveEnd \/ Drain
    PROVE  PacketsTyped' /\ TransitStep
  <1>1. CASE ReceiveMessage
    <2>1. /\ packets # << >> /\ ~IsError(Head(packets)) /\ O!Handle(Head(packets))
          /\ packets' = Tail(packets) /\ UNCHANGED <<reader, hand, nread, readEnd>>
      BY <1>1 DEF ReceiveMessage, LoopUnchanged
    <2> QED  BY <2>1, Taken DEF TransitStep, OldestHandled
  <1>2. CASE ReceiveEnd
    <2>1. /\ UNCHANGED <<reader, hand, nread, readEnd, handled, unanswered, policy>>
          /\ \/ packets # << >> /\ IsError(Head(packets)) /\ packets' = Tail(packets)
             \/ packets' = packets
      BY <1>2 DEF ReceiveEnd, LeaveLoop, O!Leave, LoopUnchanged
    <2>2. CASE packets' = packets
      BY <2>1, <2>2, PacketsStay DEF TransitStep, TransitKept, Unhandled
    <2> QED  BY <2>1, <2>2, Taken DEF TransitStep, ErrorReceived
  <1>3. CASE Drain
    <2>1. /\ packets # << >> /\ packets' = Tail(packets)
          /\ UNCHANGED <<reader, hand, nread, readEnd>>
          /\ IF IsError(Head(packets)) THEN UNCHANGED observer ELSE O!Handle(Head(packets))
      BY <1>3 DEF Drain, DrainPacket, LoopUnchanged
    <2>2. CASE IsError(Head(packets))
      BY <2>1, <2>2, Taken DEF TransitStep, ErrorReceived, observer
    <2> QED  BY <2>1, <2>2, Taken DEF TransitStep, OldestHandled
  <1> QED  BY <1>1, <1>2, <1>3

(* Every other step leaves what is in transit alone.                        *)
LEMMA NextTransit ==
    ASSUME PacketsTyped, unanswered \subseteq Nat, [Next]_vars
    PROVE  PacketsTyped' /\ TransitStep
  <1>k. ASSUME UNCHANGED <<reader, hand, packets, nread, readEnd>>, Unhandled
        PROVE  PacketsTyped' /\ TransitStep
    BY <1>k, PacketsStay DEF TransitStep, TransitKept
  <1>1. CASE Refuse \/ Start
    BY <1>1, <1>k, StartFacts DEF Refuse, Start, LoopUnchanged
  <1>2. CASE Cancelled \/ EnableTimedOut \/ Join
    BY <1>2, <1>k, LeaveFacts
       DEF Cancelled, EnableTimedOut, Join, LeaveLoop, LoopUnchanged, Unhandled
  <1>3. CASE ExpireOverdue
    BY <1>3, <1>k, TimeFacts DEF ExpireOverdue, LoopUnchanged
  <1>4. CASE BodyDeadlinePasses
    BY <1>4, <1>k, TimeFacts DEF BodyDeadlinePasses, sessVars
  <1>5. CASE ExpireAll \/ Stop
    BY <1>5, <1>k, StopFacts DEF ExpireAll, Stop, LoopUnchanged
  <1>6. CASE Watcher \/ UserCancels \/ TabGoesAway \/ EnableDeadlinePasses
    BY <1>6, <1>k DEF Watcher, CloseSocket, ReportClose, UserCancels, TabGoesAway,
                      EnableDeadlinePasses, observer, Unhandled
  <1>7. CASE UNCHANGED vars
    BY <1>7, <1>k DEF vars, observer, sessVars, Unhandled
  <1> QED
    BY <1>1, <1>2, <1>3, <1>4, <1>5, <1>6, <1>7, ReadTransit, ReaderTransit, LoopTransit
       DEF Next, Main, Timer, Returned

-----------------------------------------------------------------------------
(***************************************************************************)
(* The invariants of what is in transit, step by step.                     *)
(***************************************************************************)
LEMMA TransitTyped ==
    ASSUME PacketsTyped
    PROVE  InTransit \in Seq(Packets) /\ Len(InTransit) \in Nat
  <1>1. packets \in Seq(Packets) /\ (reader = "handing" => hand \in Packets)
    BY DEF PacketsTyped
  <1>2. InTransit \in Seq(Packets)
    BY <1>1, AppendProperties DEF InTransit
  <1> QED  BY <1>2, LenProperties

LEMMA PacketKinds ==
    /\ \A m \in O!Messages : ~IsError(m)
    /\ \A eof \in BOOLEAN : IsError(ErrorPacket(eof)) /\ ErrorPacket(eof).type # "reply"
    /\ ~IsError(NoPacket)
  <1>1. \A m \in Traffic : m.type # "error"
    BY SharedTrafficAssumption DEF O!EventMessages
  <1>2. \A id : \A m \in O!Replies(id) : m.type # "error"
    BY DEF O!Replies, O!ReplyMessages, O!EnableReplies
  <1>3. \A m \in O!Messages : m.type # "error"
    BY <1>1, <1>2 DEF O!Messages
  <1> QED  BY <1>3 DEF IsError, ErrorPacket, NoPacket

(* The id of an answer is that of the command it answers.                   *)
LEMMA AnswerOf ==
    ASSUME NEW m \in O!Messages, m.type = "reply"
    PROVE  m.id \in unanswered /\ m \in O!Replies(m.id)
  <1>1. m \notin Traffic
    BY SharedTrafficAssumption DEF O!EventMessages
  <1>2. PICK id \in unanswered : m \in O!Replies(id)
    BY <1>1 DEF O!Messages
  <1>3. m.id = id
    BY <1>2 DEF O!Replies, O!ReplyMessages, O!EnableReplies
  <1> QED  BY <1>2, <1>3

(* A message stays one as long as the command it answers is unanswered.     *)
LEMMA StaysMessage ==
    ASSUME NEW m \in O!Messages, m.type = "reply" => m.id \in unanswered'
    PROVE  m \in O!Messages'
  <1>1. CASE m \in Traffic
    BY <1>1 DEF O!Messages
  <1>2. CASE m \notin Traffic
    <2>1. m.type = "reply"
      BY <1>2 DEF O!Messages, O!Replies, O!ReplyMessages, O!EnableReplies
    <2>2. m \in O!Replies(m.id)
      BY <2>1, AnswerOf
    <2> QED  BY <2>1, <2>2 DEF O!Messages
  <1> QED  BY <1>1, <1>2

LEMMA AppendIndex ==
    ASSUME NEW S, NEW q \in Seq(S), NEW e
    PROVE  /\ Len(Append(q, e)) = Len(q) + 1 /\ Len(q) \in Nat
           /\ \A i \in 1..Len(q) : Append(q, e)[i] = q[i]
           /\ Append(q, e)[Len(q) + 1] = e
           /\ Append(q, e) # << >>
  <1>1. q \in Seq(S \cup {e})
    OBVIOUS
  <1> QED  BY <1>1, AppendProperties

LEMMA TailIndex ==
    ASSUME NEW S, NEW q \in Seq(S), q # << >>
    PROVE  /\ Len(Tail(q)) = Len(q) - 1 /\ Len(q) \in Nat \ {0}
           /\ \A i \in 1..Len(Tail(q)) : i + 1 \in 1..Len(q) /\ Tail(q)[i] = q[i + 1]
           /\ Head(q) = q[1]
  BY HeadTailProperties, LenProperties, EmptySeq

LEMMA UnderWayStep ==
    ASSUME PacketsTyped, UnderWay, AnsweredOnce, TransitStep
    PROVE  UnderWay'
  <1>0. InTransit \in Seq(Packets)
    BY TransitTyped
  <1> DEFINE Q == InTransit
  <1> HIDE DEF Q
  <1>1. ASSUME NEW i \in 1..Len(Q), unanswered \subseteq unanswered'
        PROVE  IsError(Q[i]) \/ Q[i] \in O!Messages'
    BY <1>1, AnswerOf, StaysMessage DEF UnderWay, Q
  <1>2. CASE TransitKept
    BY <1>1, <1>2 DEF TransitKept, Unhandled, UnderWay, Q
  <1>3. ASSUME NEW m, InTransit' = Append(Q, m), unanswered' = unanswered,
               IsError(m) \/ m \in O!Messages'
        PROVE  UnderWay'
    <2> SUFFICES ASSUME NEW i \in 1..Len(InTransit')
                 PROVE  IsError(InTransit'[i]) \/ InTransit'[i] \in O!Messages'
      BY DEF UnderWay
    <2>2. i \in 1..Len(Q) \/ i = Len(Q) + 1
      BY <1>0, <1>3, AppendIndex DEF Q
    <2> QED  BY <1>0, <1>1, <1>3, <2>2, AppendIndex DEF Q
  <1>4. CASE MessageRead
    <2>1. PICK m \in O!Messages : InTransit' = Append(Q, m) /\ unanswered' = unanswered
      BY <1>4 DEF MessageRead, Q
    <2> QED  BY <1>3, <2>1 DEF O!Messages
  <1>5. CASE ErrorRead
    BY <1>3, <1>5, PacketKinds DEF ErrorRead, Q
  <1>6. CASE OldestHandled \/ ErrorReceived
    <2>1. Q # << >> /\ InTransit' = Tail(Q)
      BY <1>6 DEF OldestHandled, ErrorReceived, Q
    <2> SUFFICES ASSUME NEW i \in 1..Len(InTransit')
                 PROVE  IsError(InTransit'[i]) \/ InTransit'[i] \in O!Messages'
      BY DEF UnderWay
    <2>3. i + 1 \in 1..Len(Q) /\ InTransit'[i] = Q[i + 1] /\ 1 \in 1..Len(Q) /\ Q[1] = Head(Q)
          /\ i + 1 # 1
      BY <1>0, <2>1, TailIndex DEF Q
    <2>4. CASE ErrorReceived
      BY <1>1, <2>3, <2>4 DEF ErrorReceived
    <2>5. CASE OldestHandled
      <3> SUFFICES ASSUME ~IsError(Q[i + 1])
                   PROVE  Q[i + 1] \in O!Messages'
        BY <2>3
      <3>1. Q[i + 1] \in O!Messages /\ Q[1] \in O!Messages
        BY <2>3, <2>5 DEF UnderWay, Q, OldestHandled
      <3>2. ASSUME Q[i + 1].type = "reply"
            PROVE  Q[i + 1].id \in unanswered'
        <4>1. ~(Q[1].type = "reply" /\ Q[1].id = Q[i + 1].id)
          BY <2>3, <3>2 DEF AnsweredOnce, Q
        <4>2. Q[i + 1].id \in unanswered
          BY <3>1, <3>2, AnswerOf
        <4> QED  BY <2>3, <2>5, <4>1, <4>2, HandleFacts DEF OldestHandled, Q
      <3> QED  BY <3>1, <3>2, StaysMessage
    <2> QED  BY <1>6, <2>4, <2>5
  <1> QED  BY <1>2, <1>4, <1>5, <1>6 DEF TransitStep

LEMMA AnsweredOnceStep ==
    ASSUME PacketsTyped, AnsweredOnce, TransitStep
    PROVE  AnsweredOnce'
  <1> DEFINE Q == InTransit
  <1>0. Q \in Seq(Packets)
    BY TransitTyped
  <1>q. \A i, j \in 1..Len(Q) :
          Q[i].type = "reply" /\ Q[j].type = "reply" /\ Q[i].id = Q[j].id => i = j
    BY DEF AnsweredOnce
  <1> SUFFICES ASSUME NEW i \in 1..Len(Q'), NEW j \in 1..Len(Q'),
                      Q'[i].type = "reply", Q'[j].type = "reply", Q'[i].id = Q'[j].id
               PROVE  i = j
    BY DEF AnsweredOnce
  <1> HIDE DEF Q
  <1>1. CASE TransitKept
    <2>1. Q' = Q
      BY <1>1 DEF TransitKept, Q
    <2> QED  BY <1>q, <2>1
  <1>2. ASSUME NEW m, Q' = Append(Q, m),
               m.type = "reply" => \A k \in 1..Len(Q) : Q[k].type = "reply" => Q[k].id # m.id
        PROVE  i = j
    <2>1. /\ i \in 1..Len(Q) \/ i = Len(Q) + 1
          /\ j \in 1..Len(Q) \/ j = Len(Q) + 1
      BY <1>0, <1>2, AppendIndex
    <2>2. \A k \in 1..Len(Q) : Q'[k] = Q[k]
      BY <1>0, <1>2, AppendIndex
    <2>3. Q'[Len(Q) + 1] = m
      BY <1>0, <1>2, AppendIndex
    <2> QED  BY <1>2, <1>q, <2>1, <2>2, <2>3
  <1>3. CASE MessageRead
    BY <1>2, <1>3 DEF MessageRead, Q
  <1>4. CASE ErrorRead
    BY <1>2, <1>4, PacketKinds DEF ErrorRead, Q
  <1>5. CASE OldestHandled \/ ErrorReceived
    <2>1. Q # << >> /\ Q' = Tail(Q)
      BY <1>5 DEF OldestHandled, ErrorReceived, Q
    <2>2. /\ i + 1 \in 1..Len(Q) /\ Q'[i] = Q[i + 1]
          /\ j + 1 \in 1..Len(Q) /\ Q'[j] = Q[j + 1]
      BY <1>0, <2>1, TailIndex
    <2>3. i + 1 = j + 1
      BY <1>q, <2>2
    <2> QED  BY <2>3
  <1> QED  BY <1>1, <1>3, <1>4, <1>5 DEF TransitStep

LEMMA ErrorIsLastStep ==
    ASSUME PacketsTyped, UnderWay, ErrorIsLast, TransitStep
    PROVE  ErrorIsLast'
  <1> DEFINE Q == InTransit
  <1>0. Q \in Seq(Packets)
    BY TransitTyped
  <1>q. \A i \in 1..Len(Q) : IsError(Q[i]) => i = Len(Q) /\ reader \in {"handing", "done"}
    BY DEF ErrorIsLast
  <1> SUFFICES ASSUME NEW i \in 1..Len(Q'), IsError(Q'[i])
               PROVE  i = Len(Q') /\ reader' \in {"handing", "done"}
    BY DEF ErrorIsLast
  <1> HIDE DEF Q
  <1>1. CASE TransitKept
    <2>1. /\ Q' = Q
          /\ reader' # reader => /\ reader = "handing"
                                 /\ reader' = IF IsError(hand) THEN "done" ELSE "reading"
                                 /\ Q[Len(Q)] = hand
      BY <1>1 DEF TransitKept, Q
    <2>2. i = Len(Q) /\ reader \in {"handing", "done"}
      BY <1>q, <2>1
    <2> QED  BY <2>1, <2>2
  <1>2. ASSUME NEW m, Q' = Append(Q, m), reader = "reading", reader' = "handing"
        PROVE  i = Len(Q') /\ reader' \in {"handing", "done"}
    <2>1. i \in 1..Len(Q) \/ i = Len(Q')
      BY <1>0, <1>2, AppendIndex
    <2>2. \A k \in 1..Len(Q) : Q'[k] = Q[k]
      BY <1>0, <1>2, AppendIndex
    <2> QED  BY <1>2, <1>q, <2>1, <2>2
  <1>3. CASE MessageRead
    BY <1>2, <1>3 DEF MessageRead, Q
  <1>4. CASE ErrorRead
    BY <1>2, <1>4 DEF ErrorRead, Q
  <1>5. CASE OldestHandled \/ ErrorReceived
    <2>1. Q # << >> /\ Q' = Tail(Q) /\ reader' = reader
      BY <1>5 DEF OldestHandled, ErrorReceived, Q
    <2>2. i + 1 \in 1..Len(Q) /\ Q'[i] = Q[i + 1] /\ Len(Q') = Len(Q) - 1 /\ Len(Q) \in Nat
      BY <1>0, <2>1, TailIndex
    <2>3. i + 1 = Len(Q) /\ reader \in {"handing", "done"}
      BY <1>q, <2>2
    <2>4. i = Len(Q')
      BY <2>2, <2>3
    <2> QED  BY <2>1, <2>3, <2>4
  <1> QED  BY <1>1, <1>3, <1>4, <1>5 DEF TransitStep

LEMMA CountedStep ==
    ASSUME PacketsTyped, UnderWay, ErrorIsLast, AllCounted, nread \in Nat, handled \in Nat,
           TransitStep
    PROVE  AllCounted'
  <1> DEFINE Q == InTransit
  <1>0. Q \in Seq(Packets) /\ Len(Q) \in Nat
    BY TransitTyped
  <1>q. nread + (IF Q # << >> /\ IsError(Q[Len(Q)]) THEN 1 ELSE 0) = handled + Len(Q)
    BY DEF AllCounted, EndsInError
  <1>l. \A i \in 1..Len(Q) : IsError(Q[i]) => i = Len(Q) /\ reader \in {"handing", "done"}
    BY DEF ErrorIsLast
  <1> SUFFICES nread' + (IF Q' # << >> /\ IsError(Q'[Len(Q')]) THEN 1 ELSE 0)
                 = handled' + Len(Q')
    BY DEF AllCounted, EndsInError
  <1>n. Q # << >> => Len(Q) \in 1..Len(Q)
    BY <1>0, EmptySeq
  <1>1. CASE TransitKept
    BY <1>1, <1>q DEF TransitKept, Unhandled
  <1>2. CASE MessageRead \/ ErrorRead
    <2>1. /\ reader = "reading" /\ handled' = handled
          /\ \E m : /\ Q' = Append(Q, m)
                    /\ nread' = IF IsError(m) THEN nread ELSE nread + 1
      BY <1>2, PacketKinds DEF MessageRead, ErrorRead
    <2> HIDE DEF Q
    <2>2. PICK m : /\ Q' = Append(Q, m)
                   /\ nread' = IF IsError(m) THEN nread ELSE nread + 1
      BY <2>1
    <2>3. Len(Q') = Len(Q) + 1 /\ Q' # << >> /\ Q'[Len(Q')] = m
      BY <1>0, <2>2, AppendIndex
    <2>4. ~(Q # << >> /\ IsError(Q[Len(Q)]))
      BY <1>l, <1>n, <2>1
    <2> QED  BY <1>0, <1>q, <2>1, <2>2, <2>3, <2>4
  <1>3. CASE OldestHandled \/ ErrorReceived
    <2>1. /\ Q # << >> /\ Q' = Tail(Q) /\ nread' = nread
          /\ handled' = IF IsError(Head(Q)) THEN handled ELSE handled + 1
      BY <1>3, HandleFacts DEF OldestHandled, ErrorReceived
    <2> HIDE DEF Q
    <2>2. /\ Len(Q') = Len(Q) - 1 /\ Len(Q) \in Nat \ {0} /\ Head(Q) = Q[1]
          /\ 1 \in 1..Len(Q)
      BY <1>0, <2>1, TailIndex
    <2>3. CASE Len(Q) = 1
      <3>1. Q' = << >>
        BY <1>0, <2>1, <2>2, <2>3, EmptySeq, HeadTailProperties
      <3>2. ~(Q' # << >> /\ IsError(Q'[Len(Q')])) /\ Len(Q') = 0
        BY <2>2, <2>3, <3>1
      <3>3. nread + (IF IsError(Head(Q)) THEN 1 ELSE 0) = handled + 1
        BY <1>q, <2>1, <2>2, <2>3
      <3>4. (IF Q' # << >> /\ IsError(Q'[Len(Q')]) THEN 1 ELSE 0) = 0
        BY <3>2
      <3>5. nread' = handled'
        BY <2>1, <3>3
      <3> QED  BY <2>1, <3>2, <3>3, <3>4, <3>5
    <2>4. CASE Len(Q) # 1
      <3>1. Len(Q') \in 1..Len(Q') /\ Q' # << >>
        BY <2>2, <2>4, EmptySeq
      <3>2. Q'[Len(Q')] = Q[Len(Q)]
        BY <1>0, <2>1, <2>2, <3>1, TailIndex
      <3>3. ~IsError(Head(Q))
        BY <1>l, <2>2, <2>4
      <3> QED  BY <1>q, <2>1, <2>2, <3>1, <3>2, <3>3
    <2> QED  BY <2>3, <2>4
  <1> QED  BY <1>1, <1>2, <1>3 DEF TransitStep

-----------------------------------------------------------------------------
(***************************************************************************)
(* The session implements the observer.                                    *)
(***************************************************************************)
(* What the loop handles is something the tab may have sent at that moment. *)
LEMMA TakenIsMessage ==
    ASSUME PacketsTyped, UnderWay, packets # << >>, ~IsError(Head(packets))
    PROVE  Head(packets) \in O!Messages
  <1>0. packets \in Seq(Packets) /\ (reader = "handing" => hand \in Packets)
    BY DEF PacketsTyped
  <1>1. Head(packets) = packets[1] /\ 1 \in 1..Len(packets)
    BY <1>0, TailIndex
  <1>2. InTransit[1] = packets[1] /\ 1 \in 1..Len(InTransit)
    <2>1. CASE reader = "handing"
      BY <1>0, <1>1, <2>1, AppendIndex DEF InTransit
    <2> QED  BY <1>1, <2>1 DEF InTransit
  <1> QED  BY <1>1, <1>2 DEF UnderWay

LEMMA ObserverStep ==
    ASSUME PacketsTyped, UnderWay, [Next]_vars
    PROVE  [O!Next]_(O!obsVars)
  <1>u. ASSUME UNCHANGED observer
        PROVE  [O!Next]_(O!obsVars)
    BY <1>u DEF observer, O!obsVars
  <1>1. CASE Refuse \/ Start
    BY <1>1 DEF Refuse, Start, O!Next
  <1>2. CASE Cancelled \/ EnableTimedOut \/ ReceiveEnd \/ Join
    BY <1>2 DEF Cancelled, EnableTimedOut, ReceiveEnd, LeaveLoop, Join, O!Next
  <1>3. CASE ExpireOverdue \/ BodyDeadlinePasses
    BY <1>3 DEF ExpireOverdue, BodyDeadlinePasses, O!Next
  <1>4. CASE ExpireAll \/ Stop
    BY <1>4 DEF ExpireAll, Stop, O!Next
  <1>5. CASE ReceiveMessage
    BY <1>5, TakenIsMessage DEF ReceiveMessage, O!Next
  <1>6. CASE Drain
    BY <1>6, <1>u, TakenIsMessage DEF Drain, DrainPacket, O!Next
  <1>7. CASE ReadMessage \/ ReadFails("frame") \/ Reader \/ Watcher \/ UserCancels \/ TabGoesAway
             \/ EnableDeadlinePasses \/ Returned \/ UNCHANGED vars
    BY <1>7, <1>u DEF ReadMessage, Reader, ReadFails, HandOff, Watcher, CloseSocket,
                      ReportClose, UserCancels, TabGoesAway, EnableDeadlinePasses,
                      Returned, vars
  <1> QED
    BY <1>1, <1>2, <1>3, <1>4, <1>5, <1>6, <1>7 DEF Next, Main, Timer

(* The observer is well typed, and what is in transit is accounted for.     *)
FlowInv == OS!Typed /\ TransitInv

LEMMA ObserverTypedStep ==
    ASSUME OS!Typed, PacketsTyped, UnderWay, [Next]_vars
    PROVE  OS!Typed'
  <1>1. [OS!Next]_(OS!obsVars)
    BY ObserverStep, SameNext DEF O!obsVars, OS!obsVars
  <1>2. OS!Typed /\ [OS!Next]_(OS!obsVars) => OS!Typed'
    BY OS!NextTyped, SharedPolicyAssumption, SharedTrafficAssumption, SameAssumptions
  <1> QED  BY <1>1, <1>2

LEMMA TransitInit == Init => FlowInv
  <1> SUFFICES ASSUME Init PROVE FlowInv
    OBVIOUS
  <1>1. OS!Init
    BY DEF Init, O!Init, OS!Init
  <1>2. OS!Typed
    BY <1>1, OS!InitTyped, SharedPolicyAssumption, SharedTrafficAssumption, SameAssumptions
  <1>3. /\ packets = << >> /\ hand = NoPacket /\ reader \in {"idle", "reading"} /\ nread = 0
        /\ handled = 0
    BY DEF Init, O!Init
  <1>4. InTransit = << >> /\ Len(InTransit) = 0 /\ << >> \in Seq(Packets) /\ Len(packets) = 0
    BY <1>3, EmptySeq DEF InTransit
  <1>5. PacketsTyped
    BY <1>3, <1>4, PacketCapAssumption DEF PacketsTyped
  <1>6. UnderWay /\ AnsweredOnce /\ ErrorIsLast
    BY <1>4 DEF UnderWay, AnsweredOnce, ErrorIsLast
  <1>7. AllCounted
    BY <1>3, <1>4 DEF AllCounted, EndsInError
  <1> QED  BY <1>2, <1>3, <1>5, <1>6, <1>7, SharedTrafficAssumption DEF FlowInv, TransitInv

LEMMA ObserverNumbers ==
    ASSUME OS!Typed
    PROVE  handled \in Nat /\ unanswered \subseteq Nat /\ faults \subseteq {"sink", "send"}
  BY SharedTrafficAssumption DEF OS!Typed, OS!TypeOK

LEMMA TransitNext == FlowInv /\ [Next]_vars => FlowInv'
  <1> SUFFICES ASSUME FlowInv, [Next]_vars PROVE FlowInv'
    OBVIOUS
  <1>1. PacketsTyped /\ UnderWay /\ AnsweredOnce /\ ErrorIsLast /\ AllCounted /\ OS!Typed
    BY DEF FlowInv, TransitInv
  <1>2. nread \in 0..MaxMessages /\ MaxMessages \in Nat
    BY SharedTrafficAssumption DEF FlowInv, TransitInv
  <1>3. PacketsTyped' /\ TransitStep
    BY <1>1, ObserverNumbers, NextTransit
  <1>4. nread' \in 0..MaxMessages
    BY <1>2, <1>3 DEF TransitStep, TransitKept, MessageRead, ErrorRead, OldestHandled,
                      ErrorReceived
  <1>5. OS!Typed'
    BY <1>1, ObserverTypedStep
  <1> QED
    BY <1>1, <1>2, <1>3, <1>4, <1>5, ObserverNumbers, UnderWayStep, AnsweredOnceStep,
       ErrorIsLastStep, CountedStep DEF FlowInv, TransitInv

(* Whatever the user, the tab, the disk and the scheduler do, the three     *)
(* goroutines together take the steps of the sequential observer, and       *)
(* otherwise leave its state alone (session.go:55-166).                     *)
THEOREM SessionRefinesObserver == Spec => ObserverSpec
  <1>1. Init => O!Init
    BY DEF Init
  <1>2. FlowInv /\ [Next]_vars => [O!Next]_(O!obsVars)
    BY ObserverStep DEF FlowInv, TransitInv
  <1> QED
    BY <1>1, <1>2, TransitInit, TransitNext, PTL DEF Spec, ObserverSpec, O!Spec

-----------------------------------------------------------------------------
(***************************************************************************)
(* No message is lost between the goroutines.                              *)
(***************************************************************************)
LEMMA QueuedMessages ==
    ASSUME NEW n \in Nat, {i \in 1..Len(packets) : ~IsError(packets[i])} = 1..n
    PROVE  Queued = n
  <1>1. Cardinality(1..n) = n
    BY FS_Interval
  <1> QED  BY <1>1 DEF Queued

LEMMA CountedIsNotLost ==
    ASSUME PacketsTyped, ErrorIsLast, AllCounted, nread \in Nat, handled \in Nat
    PROVE  NoReadLost
  <1>0. packets \in Seq(Packets) /\ Len(packets) \in Nat
    BY LenProperties DEF PacketsTyped
  <1>1. CASE reader = "handing"
    <2>1. InTransit = Append(packets, hand)
      BY <1>1 DEF InTransit
    <2>2. /\ Len(InTransit) = Len(packets) + 1 /\ InTransit[Len(packets) + 1] = hand
          /\ InTransit # << >>
          /\ \A i \in 1..Len(packets) : InTransit[i] = packets[i]
      BY <1>0, <2>1, AppendIndex
    <2>3. \A i \in 1..Len(packets) : i \in 1..Len(InTransit) /\ i # Len(InTransit)
      BY <1>0, <2>2
    <2>4. \A i \in 1..Len(packets) : ~IsError(packets[i])
      BY <2>2, <2>3 DEF ErrorIsLast
    <2>5. {i \in 1..Len(packets) : ~IsError(packets[i])} = 1..Len(packets)
      BY <2>4
    <2>6. Queued = Len(packets)
      BY <1>0, <2>5, QueuedMessages
    <2>7. EndsInError <=> IsError(hand)
      BY <2>2 DEF EndsInError
    <2>8. Holding = IF IsError(hand) THEN 0 ELSE 1
      BY <1>1 DEF Holding
    <2>9. nread + (IF IsError(hand) THEN 1 ELSE 0) = handled + Len(packets) + 1
      BY <1>0, <2>2, <2>7 DEF AllCounted
    <2>10. CASE IsError(hand)
      BY <1>0, <2>6, <2>8, <2>9, <2>10 DEF NoReadLost
    <2>11. CASE ~IsError(hand)
      BY <1>0, <2>6, <2>8, <2>9, <2>11 DEF NoReadLost
    <2> QED  BY <2>10, <2>11
  <1>2. CASE reader # "handing"
    <2>1. InTransit = packets /\ Holding = 0
      BY <1>2 DEF InTransit, Holding
    <2>2. CASE EndsInError
      <3>1. packets # << >> /\ IsError(packets[Len(packets)])
        BY <2>1, <2>2 DEF EndsInError
      <3>2. Len(packets) - 1 \in Nat
        BY <1>0, <3>1, EmptySeq
      <3>3. \A i \in 1..Len(packets) : IsError(packets[i]) <=> i = Len(packets)
        BY <1>0, <2>1, <3>1, <3>2 DEF ErrorIsLast
      <3>4. {i \in 1..Len(packets) : ~IsError(packets[i])} = 1..(Len(packets) - 1)
        BY <1>0, <3>2, <3>3
      <3>5. Queued = Len(packets) - 1
        BY <3>2, <3>4, QueuedMessages
      <3>6. nread + 1 = handled + Len(packets)
        BY <2>1, <2>2 DEF AllCounted
      <3> QED  BY <1>0, <2>1, <3>5, <3>6 DEF NoReadLost
    <2>3. CASE ~EndsInError
      <3>1. \A i \in 1..Len(packets) : ~IsError(packets[i])
        BY <1>0, <2>1, <2>3 DEF ErrorIsLast, EndsInError
      <3>2. {i \in 1..Len(packets) : ~IsError(packets[i])} = 1..Len(packets)
        BY <3>1
      <3>3. Queued = Len(packets)
        BY <1>0, <3>2, QueuedMessages
      <3>4. nread = handled + Len(packets)
        BY <2>1, <2>3 DEF AllCounted
      <3> QED  BY <1>0, <2>1, <3>3, <3>4 DEF NoReadLost
    <2> QED  BY <2>2, <2>3
  <1> QED  BY <1>1, <1>2

(* Every message that was read is with the reader, in the channel, or       *)
(* handled: cancelling, a full channel or the end of the stream lose none   *)
(* (session.go:65-67, 80-86).                                               *)
THEOREM ReadsKept == Spec => []NoReadLost
  <1>1. FlowInv => NoReadLost
    <2> SUFFICES ASSUME FlowInv PROVE NoReadLost
      OBVIOUS
    <2>1. OS!Typed /\ PacketsTyped /\ ErrorIsLast /\ AllCounted /\ nread \in Nat
      BY SharedTrafficAssumption DEF FlowInv, TransitInv
    <2> QED  BY <2>1, ObserverNumbers, CountedIsNotLost
  <1> QED  BY <1>1, TransitInit, TransitNext, PTL DEF Spec

-----------------------------------------------------------------------------
(***************************************************************************)
(* What a step of the loop, its shutdown included, does to the rest.       *)
(***************************************************************************)
Blames == {"disconnected", "read_error"}

(* Where run() goes on; leaving the loop has a reason.                      *)
Moves ==
    \/ phase' = phase /\ conn' = conn
    \/ /\ phase \in {"start", "enable", "loop", "tick"} /\ (phase = "start" => O!ValidPolicy)
       /\ phase' \in {"enable", "loop", "tick", "drain"}
       /\ phase' = "drain" => errs' # {} \/ (phase = "loop" /\ ctxDone)
       /\ conn' = conn
    \/ /\ phase = "start" /\ ~O!ValidPolicy /\ phase' = "done"
       /\ conn' = "closed" /\ errs' # {}
    \/ phase = "drain" /\ phase' = "expire" /\ Joined /\ conn' = conn
    \/ phase \in {"expire", "stop"} /\ phase' \in {"stop", "done"} /\ conn' = conn

LoopStep ==
    /\ UNCHANGED <<caller, peer, reader, hand, readEnd, watcher, policy>>
    /\ ctxDone' = (ctxDone \/ phase' \in {"drain", "done"})
    /\ errs \subseteq errs' /\ errs' \subseteq errs \cup faults' \cup Errors
    /\ errs' \cap Blames # {} =>
          \/ (errs \cup faults') \cap Blames # {}
          \/ ~ctxDone /\ packets # << >> /\ IsError(Head(packets))
    /\ "disconnected" \in errs' =>
          \/ "disconnected" \in errs \cup faults'
          \/ ~ctxDone /\ packets # << >> /\ IsError(Head(packets)) /\ Head(packets).eof
    /\ packets' = packets \/ (packets # << >> /\ packets' = Tail(packets))
    /\ closeResult' \in {closeResult, "taken"}
    /\ enabled' \in {enabled, TRUE, FALSE} /\ enableLate' = enableLate
    /\ Moves

LEMMA OutcomeFacts ==
    ASSUME NEW more \in SUBSET (Errors \ Blames), Outcome(more)
    PROVE  /\ ctxDone' = (ctxDone \/ phase' \in {"drain", "done"})
           /\ errs \subseteq errs' /\ errs' \subseteq errs \cup faults' \cup Errors
           /\ errs' \cap Blames # {} => (errs \cup faults') \cap Blames # {}
           /\ "disconnected" \in errs' => "disconnected" \in errs \cup faults'
           /\ faults' \cup more \subseteq errs'
  BY DEF Outcome, Blames

LEMMA ErrorNames ==
    /\ {} \subseteq Errors \ Blames
    /\ \A e \in {"budgets", "enable_timeout", "enable_rejected", "reader_ended", "close_error"} :
          {e} \subseteq Errors \ Blames
  BY DEF Errors, Blames

LEMMA LoopSteps ==
    ASSUME Main \/ Timer, enabled \in BOOLEAN
    PROVE  LoopStep
  <1>1. CASE Refuse
    <2>1. /\ phase = "start" /\ ~O!ValidPolicy /\ phase' = "done" /\ policy' = policy
          /\ Outcome({"budgets"}) /\ conn' = "closed"
          /\ UNCHANGED <<LoopUnchanged, packets, closeResult, enabled, enableLate>>
      BY <1>1 DEF Refuse, O!RefusePolicy
    <2> QED  BY <2>1, OutcomeFacts, ErrorNames DEF LoopStep, Moves, LoopUnchanged
  <1>2. CASE Start
    <2>1. /\ (phase = "start" /\ O!ValidPolicy) \/ phase = "enable"
          /\ phase' \in {"enable", "loop", "drain"} /\ policy' = policy
          /\ phase' = "drain" => faults' # {}
      BY <1>2 DEF Start, O!EmitStart, O!SendEnable, O!Emit
    <2>2. /\ Outcome({})
          /\ UNCHANGED <<LoopUnchanged, conn, packets, closeResult, enabled, enableLate>>
      BY <1>2 DEF Start
    <2> QED  BY <2>1, <2>2, OutcomeFacts, ErrorNames DEF LoopStep, Moves, LoopUnchanged
  <1>3. CASE Cancelled
    BY <1>3, OutcomeFacts, ErrorNames
       DEF Cancelled, LeaveLoop, O!Leave, LoopStep, Moves, LoopUnchanged
  <1>4. CASE EnableTimedOut
    BY <1>4, OutcomeFacts, ErrorNames
       DEF EnableTimedOut, LeaveLoop, O!Leave, LoopStep, Moves, LoopUnchanged
  <1>5. CASE ExpireOverdue
    <2>1. /\ phase \in {"loop", "tick"} /\ phase' \in {"loop", "tick", "drain"}
          /\ policy' = policy /\ (phase' = "drain" => faults' # {})
      BY <1>5 DEF ExpireOverdue, O!Tick, O!TickDone, O!ExpireFetch, O!OnResult, O!Emit
    <2>2. /\ Outcome({})
          /\ UNCHANGED <<LoopUnchanged, conn, packets, closeResult, enabled, enableLate>>
      BY <1>5 DEF ExpireOverdue
    <2> QED  BY <2>1, <2>2, OutcomeFacts, ErrorNames DEF LoopStep, Moves, LoopUnchanged
  <1>6. CASE ReceiveMessage
    <2> DEFINE m == Head(packets)
               more == IF m.type = "reply" /\ O!EnableRejected(m)
                       THEN {"enable_rejected"} ELSE {}
    <2>1. /\ packets # << >> /\ packets' = Tail(packets) /\ O!Handle(m)
          /\ Outcome(more) /\ more \subseteq Errors \ Blames
          /\ UNCHANGED <<LoopUnchanged, conn, closeResult, enableLate>>
      BY <1>6, ErrorNames DEF ReceiveMessage
    <2>2. enabled' \in BOOLEAN
      BY <1>6 DEF ReceiveMessage
    <2>3. O!EnableRejected(m) => m.type = "reply"
      BY DEF O!EnableRejected
    <2>4. /\ phase' = phase \/ (phase = "loop" /\ phase' = "drain")
          /\ policy' = policy
          /\ phase' # phase => faults' # {} \/ more # {}
      BY <2>1, <2>3, HandleFacts
    <2> HIDE DEF m, more
    <2> QED  BY <2>1, <2>2, <2>4, OutcomeFacts DEF LoopStep, Moves, LoopUnchanged
  <1>7. CASE ReceiveEnd
    <2>1. /\ phase = "loop" /\ phase' = "drain" /\ policy' = policy
          /\ UNCHANGED <<LoopUnchanged, conn, closeResult, enabled, enableLate>>
      BY <1>7 DEF ReceiveEnd, LeaveLoop, O!Leave
    <2>2. CASE /\ packets # << >> /\ IsError(Head(packets)) /\ packets' = Tail(packets)
               /\ Outcome(ReadErrorResult(Head(packets)))
      <3>1. /\ ReadErrorResult(Head(packets)) \subseteq Errors
            /\ ctxDone => ReadErrorResult(Head(packets)) = {}
            /\ ~ctxDone => ReadErrorResult(Head(packets)) # {}
            /\ "disconnected" \in ReadErrorResult(Head(packets)) => ~ctxDone /\ Head(packets).eof
        BY DEF ReadErrorResult, Errors
      <3>2. /\ errs' = errs \cup faults' \cup ReadErrorResult(Head(packets))
            /\ ctxDone' = (ctxDone \/ phase' \in {"drain", "done"})
        BY <2>2 DEF Outcome
      <3>3. errs' \cap Blames # {} => (errs \cup faults') \cap Blames # {} \/ ~ctxDone
        BY <3>1, <3>2
      <3>4. errs' # {} \/ ctxDone
        BY <3>1, <3>2
      <3>5. errs \subseteq errs' /\ errs' \subseteq errs \cup faults' \cup Errors
        BY <3>1, <3>2
      <3>6. "disconnected" \in errs' =>
                "disconnected" \in errs \cup faults' \/ (~ctxDone /\ Head(packets).eof)
        BY <3>1, <3>2
      <3> QED
        BY <2>1, <2>2, <3>2, <3>3, <3>4, <3>5, <3>6 DEF LoopStep, Moves, LoopUnchanged
    <2>3. CASE packets' = packets /\ Outcome({"reader_ended"})
      BY <2>1, <2>3, OutcomeFacts, ErrorNames DEF LoopStep, Moves, LoopUnchanged
    <2> QED  BY <1>7, <2>2, <2>3 DEF ReceiveEnd
  <1>8. CASE Drain
    <2>1. /\ phase = "drain" /\ packets # << >> /\ packets' = Tail(packets) /\ Outcome({})
          /\ UNCHANGED <<LoopUnchanged, conn, closeResult, enabled, enableLate>>
      BY <1>8 DEF Drain, Draining
    <2>2. phase' = phase /\ policy' = policy
      BY <1>8, <2>1, HandleFacts DEF Drain, DrainPacket, observer
    <2> QED  BY <2>1, <2>2, OutcomeFacts, ErrorNames DEF LoopStep, Moves, LoopUnchanged
  <1>9. CASE Join
    <2>1. /\ Joined /\ phase = "drain" /\ phase' = "expire" /\ policy' = policy
          /\ closeResult' = "taken"
          /\ UNCHANGED <<LoopUnchanged, conn, packets, enabled, enableLate>>
      BY <1>9 DEF Join, O!Drained
    <2>2. PICK more \in SUBSET (Errors \ Blames) : Outcome(more)
      BY <1>9, ErrorNames DEF Join
    <2> QED  BY <2>1, <2>2, OutcomeFacts DEF LoopStep, Moves, LoopUnchanged
  <1>10. CASE ExpireAll \/ Stop
    <2>1. /\ \/ phase' = phase
             \/ phase \in {"expire", "stop"} /\ phase' \in {"stop", "done"}
          /\ policy' = policy
      BY <1>10 DEF ExpireAll, Stop, O!InterruptFetch, O!InterruptResponse, O!ExpireDone,
                  O!EmitStop
    <2>2. /\ Outcome({})
          /\ UNCHANGED <<LoopUnchanged, conn, packets, closeResult, enabled, enableLate>>
      BY <1>10 DEF ExpireAll, Stop
    <2> QED  BY <2>1, <2>2, OutcomeFacts, ErrorNames DEF LoopStep, Moves, LoopUnchanged
  <1> QED
    BY <1>1, <1>2, <1>3, <1>4, <1>5, <1>6, <1>7, <1>8, <1>9, <1>10 DEF Main, Timer

-----------------------------------------------------------------------------
(***************************************************************************)
(* The invariants of cancellation, shutdown and result.                    *)
(***************************************************************************)
ControlInv == ContextInv /\ GoroutinesInv /\ ResultInv

LEMMA ControlInit == Init => ControlInv
  <1> SUFFICES ASSUME Init PROVE ControlInv
    OBVIOUS
  <1>1. phase = "start" /\ packets = << >> /\ reader # "handing" /\ errs = {}
    BY DEF Init, O!Init
  <1>2. InTransit = << >>
    BY <1>1 DEF InTransit
  <1>3. ContextInv
    BY <1>1 DEF Init, ContextInv, Ended
  <1>4. GoroutinesInv
    BY <1>1 DEF Init, GoroutinesInv, Joining
  <1>5. ReaderInv /\ ErrorHasCause
    BY <1>2 DEF Init, ReaderInv, ErrorHasCause, ReadEnds
  <1>6. ResultInv
    BY <1>1, <1>5 DEF Init, ResultInv, OwnCloseNotBlamed, Ended
  <1> QED  BY <1>3, <1>4, <1>6 DEF ControlInv

(* The steps of the other goroutines and of the environment.                *)
LEMMA OtherSteps ==
    ASSUME [Next]_vars, ~(Main \/ Timer)
    PROVE  /\ UNCHANGED <<phase, policy, errs, enabled>>
           /\ \/ ReadMessage \/ ReadFails("frame") \/ Reader \/ Watcher \/ UserCancels
              \/ TabGoesAway \/ EnableDeadlinePasses \/ BodyDeadlinePasses \/ UNCHANGED vars
           /\ readEnd' = readEnd \/ reader = "reading"
           /\ enableLate' \in {enableLate, TRUE}
  BY DEF Next, ReadMessage, Reader, ReadFails, HandOff, Watcher, CloseSocket, ReportClose,
         UserCancels, TabGoesAway, EnableDeadlinePasses, BodyDeadlinePasses, Returned,
         O!DeadlinePasses, vars, observer, sessVars

LEMMA ContextStep ==
    ASSUME ContextInv, enabled \in BOOLEAN, [Next]_vars
    PROVE  ContextInv' /\ (ctxDone => ctxDone') /\ (peer = "gone" => peer' = "gone")
  <1>1. CASE Main \/ Timer
    <2>1. LoopStep
      BY <1>1, LoopSteps
    <2> QED  BY <2>1 DEF LoopStep, Moves, ContextInv, Ended
  <1>2. CASE ~(Main \/ Timer)
    <2>1. \/ UNCHANGED <<caller, ctxDone, conn, peer>>
          \/ UserCancels \/ TabGoesAway \/ CloseSocket
      BY <1>2, OtherSteps
         DEF ReadMessage, Reader, ReadFails, HandOff, Watcher, ReportClose,
             EnableDeadlinePasses, BodyDeadlinePasses, vars, sessVars
    <2>2. phase' = phase
      BY <1>2, OtherSteps
    <2>3. Ended' <=> Ended
      BY <2>2 DEF Ended
    <2>4. CASE UNCHANGED <<caller, ctxDone, conn, peer>>
      BY <2>3, <2>4 DEF ContextInv
    <2>5. CASE UserCancels
      BY <2>3, <2>5 DEF UserCancels, ContextInv
    <2>6. CASE TabGoesAway
      BY <2>3, <2>6 DEF TabGoesAway, ContextInv
    <2>7. CASE CloseSocket
      BY <2>3, <2>7 DEF CloseSocket, ContextInv
    <2> QED  BY <2>1, <2>4, <2>5, <2>6, <2>7
  <1> QED  BY <1>1, <1>2

LEMMA ValidStays == policy' = policy => (O!ValidPolicy' <=> O!ValidPolicy)
  BY DEF O!ValidPolicy

LEMMA TailOfNothing ==
    ASSUME packets = << >>, packets' = packets \/ (packets # << >> /\ packets' = Tail(packets))
    PROVE  packets' = << >>
  OBVIOUS

LEMMA GoroutinesStep ==
    ASSUME ContextInv, GoroutinesInv, PacketsTyped, enabled \in BOOLEAN, [Next]_vars
    PROVE  GoroutinesInv'
  <1>1. CASE Main \/ Timer
    <2>1. LoopStep
      BY <1>1, LoopSteps
    <2>2. O!ValidPolicy' <=> O!ValidPolicy
      BY <2>1, ValidStays DEF LoopStep
    <2>3. packets = << >> => packets' = << >>
      BY <2>1, TailOfNothing DEF LoopStep
    <2> QED
      BY <2>1, <2>2, <2>3 DEF LoopStep, Moves, GoroutinesInv, Joining, Joined
  <1>2. CASE ~(Main \/ Timer)
    <2>1. /\ phase' = phase /\ (O!ValidPolicy' <=> O!ValidPolicy)
      BY <1>2, OtherSteps, ValidStays
    <2>2. CASE UNCHANGED <<reader, packets, watcher, closeResult, conn>>
      BY <2>1, <2>2 DEF GoroutinesInv, Joining
    <2>3. CASE ReadMessage \/ Reader \/ ReadFails("frame")
      <3>1. /\ reader \in {"reading", "handing"} /\ reader' \in {"reading", "handing", "done"}
            /\ UNCHANGED <<watcher, closeResult, conn>>
        BY <2>3 DEF ReadMessage, Reader, ReadFails, HandOff
      <3> QED  BY <2>1, <3>1 DEF GoroutinesInv, Joining
    <2>4. CASE Watcher
      BY <2>1, <2>4 DEF Watcher, CloseSocket, ReportClose, GoroutinesInv, Joining
    <2> QED
      BY <1>2, <2>2, <2>3, <2>4, OtherSteps
         DEF UserCancels, TabGoesAway, EnableDeadlinePasses, BodyDeadlinePasses,
             vars, sessVars
  <1> QED  BY <1>1, <1>2

(* The reader reads on only while no read has failed.                       *)
LEMMA ReaderStep ==
    ASSUME PacketsTyped, unanswered \subseteq Nat, ReaderInv, enabled \in BOOLEAN, [Next]_vars
    PROVE  ReaderInv'
  <1>1. CASE Main \/ Timer
    <2>1. LoopStep
      BY <1>1, LoopSteps
    <2> QED  BY <2>1 DEF LoopStep, ReaderInv
  <1>2. CASE ReadMessage
    BY <1>2 DEF ReadMessage, ReaderInv
  <1>3. ASSUME NEW cause \in ReadEnds, ReadFails(cause) PROVE ReaderInv'
    BY <1>3 DEF ReadFails, ReaderInv, IsError, ErrorPacket
  <1>4. CASE HandOff
    BY <1>4 DEF HandOff, ReaderInv
  <1>5. CASE ~(Main \/ Timer \/ ReadMessage \/ ReadFails("frame") \/ Reader)
    <2>1. UNCHANGED <<reader, hand, readEnd>>
      BY <1>5, OtherSteps
         DEF Watcher, CloseSocket, ReportClose, UserCancels, TabGoesAway,
             EnableDeadlinePasses, BodyDeadlinePasses, vars, sessVars
    <2> QED  BY <2>1 DEF ReaderInv
  <1> QED  BY <1>1, <1>2, <1>3, <1>4, <1>5 DEF Reader, ReadEnds

LEMMA CauseStep ==
    ASSUME PacketsTyped, TransitStep, ContextInv, ReaderInv, ErrorHasCause,
           ctxDone => ctxDone', peer = "gone" => peer' = "gone"
    PROVE  ErrorHasCause'
  <1> DEFINE Q == InTransit
             Caused(end, p) == end # "none" /\ (p.eof => end = "gone")
  <1>0. Q \in Seq(Packets)
    BY TransitTyped
  <1>q. \A j \in 1..Len(Q) : IsError(Q[j]) => Caused(readEnd, Q[j])
    BY DEF ErrorHasCause
  <1>1. CASE ErrorRead
    <2>1. PICK eof \in BOOLEAN : /\ eof => readEnd' = "gone"
                                /\ Q' = Append(Q, ErrorPacket(eof))
      BY <1>1 DEF ErrorRead
    <2>2. \A j \in 1..Len(Q) : ~IsError(Q[j])
      BY <1>1, <1>q DEF ErrorRead, ReaderInv
    <2>3. ASSUME NEW i \in 1..Len(Q'), IsError(Q'[i]) PROVE Caused(readEnd', Q'[i])
      <3> HIDE DEF Q
      <3>1. i = Len(Q) + 1 /\ Q'[i] = ErrorPacket(eof)
        BY <1>0, <2>1, <2>2, <2>3, AppendIndex
      <3> QED  BY <1>1, <2>1, <3>1 DEF ErrorRead, ErrorPacket
    <2>4. (readEnd' = "closed" => ctxDone') /\ (readEnd' = "gone" => peer' = "gone")
      BY <1>1 DEF ErrorRead, ContextInv
    <2> QED  BY <2>3, <2>4 DEF ErrorHasCause
  <1>2. CASE ~ErrorRead
    <2>1. readEnd' = readEnd
      BY <1>2 DEF TransitStep, TransitKept, MessageRead, OldestHandled, ErrorReceived
    <2>2. ASSUME NEW i \in 1..Len(Q'), IsError(Q'[i])
          PROVE  \E j \in 1..Len(Q) : Q'[i] = Q[j]
      <3> HIDE DEF Q
      <3>1. CASE TransitKept
        BY <2>2, <3>1 DEF TransitKept, Q
      <3>2. CASE MessageRead
        <4>1. PICK m : Q' = Append(Q, m) /\ ~IsError(m)
          BY <3>2, PacketKinds DEF MessageRead, Q
        <4> QED  BY <1>0, <2>2, <4>1, AppendIndex
      <3>3. CASE OldestHandled \/ ErrorReceived
        <4>1. Q # << >> /\ Q' = Tail(Q)
          BY <3>3 DEF OldestHandled, ErrorReceived, Q
        <4> QED  BY <1>0, <2>2, <4>1, TailIndex
      <3> QED  BY <1>2, <3>1, <3>2, <3>3 DEF TransitStep
    <2>3. (readEnd' = "closed" => ctxDone') /\ (readEnd' = "gone" => peer' = "gone")
      BY <2>1 DEF ErrorHasCause
    <2>4. \A i \in 1..Len(Q') : IsError(Q'[i]) => Caused(readEnd', Q'[i])
      <3> TAKE i \in 1..Len(Q')
      <3> HAVE IsError(Q'[i])
      <3>1. PICK j \in 1..Len(Q) : Q'[i] = Q[j]
        BY <2>2
      <3> QED  BY <1>q, <2>1, <3>1
    <2> QED  BY <2>3, <2>4 DEF ErrorHasCause
  <1> QED  BY <1>1, <1>2

(* An error that the loop receives before it was cancelled is not of the    *)
(* session's own making.                                                    *)
LEMMA HeadError ==
    ASSUME PacketsTyped, ReaderInv, ErrorHasCause, ~ctxDone, packets # << >>,
           IsError(Head(packets))
    PROVE  readEnd \in {"gone", "frame"} /\ (Head(packets).eof => peer = "gone")
  <1>0. packets \in Seq(Packets) /\ (reader = "handing" => hand \in Packets)
    BY DEF PacketsTyped
  <1>1. Head(packets) = packets[1] /\ 1 \in 1..Len(packets)
    BY <1>0, TailIndex
  <1>2. InTransit[1] = packets[1] /\ 1 \in 1..Len(InTransit)
    <2>1. CASE reader = "handing"
      BY <1>0, <1>1, <2>1, AppendIndex DEF InTransit
    <2> QED  BY <1>1, <2>1 DEF InTransit
  <1> QED  BY <1>1, <1>2 DEF ErrorHasCause, ReaderInv, ReadEnds

LEMMA ResultStep ==
    ASSUME PacketsTyped, TransitStep, ContextInv, ContextInv', ReaderInv', ResultInv,
           faults' \subseteq {"sink", "send"}, [Next]_vars
    PROVE  ResultInv'
  <1>1. ErrorHasCause'
    BY ContextStep, CauseStep DEF ResultInv
  <1>2. CASE Main \/ Timer
    <2>1. LoopStep
      BY <1>2, LoopSteps DEF ResultInv
    <2>2. errs' \subseteq Errors
      BY <2>1 DEF LoopStep, ResultInv, Errors
    <2>3. OwnCloseNotBlamed'
      <3>0. readEnd' = readEnd /\ peer' = peer
        BY <2>1 DEF LoopStep
      <3>1. faults' \cap Blames = {} /\ "disconnected" \notin faults'
        BY DEF Blames
      <3>2. ASSUME errs' \cap Blames # {} PROVE readEnd \in {"gone", "frame"}
        <4>1. errs \cap Blames # {} \/ (~ctxDone /\ packets # << >> /\ IsError(Head(packets)))
          BY <2>1, <3>1, <3>2 DEF LoopStep
        <4> QED  BY <4>1, HeadError DEF ResultInv, OwnCloseNotBlamed, Blames
      <3>3. ASSUME "disconnected" \in errs' PROVE peer = "gone"
        <4>1. \/ "disconnected" \in errs
              \/ ~ctxDone /\ packets # << >> /\ IsError(Head(packets)) /\ Head(packets).eof
          BY <2>1, <3>1, <3>3 DEF LoopStep
        <4> QED  BY <4>1, HeadError DEF ResultInv, OwnCloseNotBlamed
      <3> QED  BY <3>0, <3>2, <3>3 DEF OwnCloseNotBlamed, Blames
    <2>4. enabled' \in BOOLEAN /\ enableLate' \in BOOLEAN
      BY <2>1 DEF LoopStep, ResultInv
    <2>5. ASSUME Ended', errs' = {} PROVE caller'
      <3>1. errs = {} /\ caller' = caller
        BY <2>1, <2>5 DEF LoopStep
      <3>2. CASE Ended
        BY <3>1, <3>2 DEF ResultInv
      <3>3. CASE ~Ended
        BY <2>1, <2>5, <3>1, <3>3 DEF LoopStep, Moves, Ended, ContextInv
      <3> QED  BY <3>2, <3>3
    <2> QED  BY <1>1, <2>2, <2>3, <2>4, <2>5 DEF ResultInv
  <1>3. CASE ~(Main \/ Timer)
    <2>1. /\ UNCHANGED <<phase, errs, enabled>> /\ enableLate' \in {enableLate, TRUE}
      BY <1>3, OtherSteps
    <2>2. caller => caller'
      BY <1>3, OtherSteps
         DEF ReadMessage, Reader, ReadFails, HandOff, Watcher, CloseSocket, ReportClose,
             UserCancels, TabGoesAway, EnableDeadlinePasses, BodyDeadlinePasses, vars, sessVars
    <2>3. peer = "gone" => peer' = "gone"
      BY ContextStep DEF ResultInv
    <2>4. readEnd # "none" => readEnd' = readEnd
      BY <1>3, OtherSteps DEF ResultInv, ReaderInv
    <2> QED
      BY <1>1, <2>1, <2>2, <2>3, <2>4 DEF ResultInv, OwnCloseNotBlamed, Ended
  <1> QED  BY <1>2, <1>3

-----------------------------------------------------------------------------
(***************************************************************************)
(* The theorems about run() itself.                                        *)
(***************************************************************************)
(* The inductive invariant of the session.                                  *)
SessionInv == FlowInv /\ ControlInv

LEMMA SessionInit == Init => SessionInv
  BY TransitInit, ControlInit DEF SessionInv

LEMMA SessionNext == SessionInv /\ [Next]_vars => SessionInv'
  <1> SUFFICES ASSUME SessionInv, [Next]_vars PROVE SessionInv'
    OBVIOUS
  <1>1. FlowInv /\ FlowInv'
    BY TransitNext DEF SessionInv
  <1>2. PacketsTyped /\ OS!Typed /\ ContextInv /\ GoroutinesInv /\ ResultInv
    BY DEF SessionInv, FlowInv, TransitInv, ControlInv
  <1>3. faults' \subseteq {"sink", "send"}
    BY <1>1 DEF FlowInv, OS!Typed, OS!TypeOK
  <1>4. TransitStep
    BY <1>2, NextTransit, ObserverNumbers
  <1>5. enabled \in BOOLEAN
    BY <1>2 DEF ResultInv
  <1>6. ContextInv' /\ GoroutinesInv'
    BY <1>2, <1>5, ContextStep, GoroutinesStep
  <1>7. ResultInv'
    <2>1. ReaderInv'
      BY <1>2, <1>5, ObserverNumbers, ReaderStep DEF ResultInv
    <2> QED  BY <1>2, <1>3, <1>4, <1>6, <2>1, ResultStep
  <1> QED  BY <1>1, <1>6, <1>7 DEF SessionInv, ControlInv

(* Every state of a session is well typed, and the channel never holds more *)
(* packets than it has room for.                                            *)
THEOREM SessionTyped == Spec => []SessionTypeOK
  <1>1. SessionInv => SessionTypeOK
    <2>1. OS!Typed => O!TypeOK
      BY SameTypeOK DEF OS!Typed
    <2> QED
      BY <2>1 DEF SessionInv, FlowInv, TransitInv, PacketsTyped, ControlInv, ContextInv,
                  GoroutinesInv, ResultInv, ReaderInv, SessionTypeOK
  <1> QED  BY <1>1, SessionInit, SessionNext, PTL DEF Spec

(* When run() returns, the socket is closed, the channel is empty and       *)
(* neither of the goroutines it started is left (session.go:52-53, 87-88).  *)
THEOREM AllJoined == Spec => []ReturnsJoined
  <1>1. SessionInv => ReturnsJoined
    <2> SUFFICES ASSUME SessionInv, phase = "done"
                 PROVE  /\ conn = "closed" /\ ctxDone
                        /\ reader \in {"idle", "done"} /\ watcher \in {"idle", "done"}
                        /\ packets = << >> /\ hand = NoPacket
      BY DEF ReturnsJoined
    <2>1. ContextInv /\ GoroutinesInv /\ PacketsTyped
      BY DEF SessionInv, FlowInv, TransitInv, ControlInv
    <2>2. reader \in {"idle", "done"} /\ watcher \in {"idle", "done"} /\ packets = << >>
      BY <2>1 DEF GoroutinesInv, Joining
    <2> QED  BY <2>1, <2>2 DEF ContextInv, Ended, GoroutinesInv, PacketsTyped
  <1> QED  BY <1>1, SessionInit, SessionNext, PTL DEF Spec

(* A nil result means that the caller cancelled: whatever else ends the     *)
(* capture is joined into the result (session.go:84-166).                   *)
THEOREM NilMeansCancelled == Spec => []NilOnlyWhenCancelled
  <1>1. SessionInv => NilOnlyWhenCancelled
    BY DEF SessionInv, ControlInv, ResultInv, Ended, NilOnlyWhenCancelled
  <1> QED  BY <1>1, SessionInit, SessionNext, PTL DEF Spec

(* A lost tab or a failed read is reported only of a read that failed by    *)
(* itself, on a tab that went away or on a frame that does not decode, and  *)
(* a disconnection only of a tab that is gone: the error that follows the   *)
(* session's own close of the socket is never reported (session.go:118-129).*)
THEOREM OwnCloseUnblamed == Spec => []OwnCloseNotBlamed
  <1>1. SessionInv => OwnCloseNotBlamed
    BY DEF SessionInv, ControlInv, ResultInv
  <1> QED  BY <1>1, SessionInit, SessionNext, PTL DEF Spec

(* What is proved of the observer alone holds with three goroutines: the    *)
(* body budget is never promised twice, a body command has one outcome,     *)
(* none is lost unless the sink refuses a record, and no awaited response   *)
(* is forgotten.                                                            *)
THEOREM ObserverPromisesKept ==
    Spec => [](/\ O!BudgetReserved /\ O!OneOutcomePerFetch
               /\ O!FetchAccounted /\ O!AwaitedAccounted)
  <1>1. /\ OS!Spec => []OS!BudgetReserved
        /\ OS!Spec => []OS!OneOutcomePerFetch
        /\ OS!Spec => []OS!FetchAccounted
        /\ OS!Spec => []OS!AwaitedAccounted
    BY OS!BudgetSafe, OS!OutcomeUnique, OS!FetchesAccounted, OS!AwaitedSafe,
       SharedPolicyAssumption, SharedTrafficAssumption, SameAssumptions
  <1>2. OS!BudgetReserved => O!BudgetReserved
    BY SameRecords DEF O!BudgetReserved, OS!BudgetReserved
  <1>3. OS!OneOutcomePerFetch => O!OneOutcomePerFetch
    BY DEF O!OneOutcomePerFetch, OS!OneOutcomePerFetch, O!Logged, OS!Logged
  <1>4. OS!FetchAccounted => O!FetchAccounted
    BY DEF O!FetchAccounted, OS!FetchAccounted, O!Logged, OS!Logged
  <1>5. OS!AwaitedAccounted => O!AwaitedAccounted
    BY DEF O!AwaitedAccounted, OS!AwaitedAccounted, O!Awaited, OS!Awaited, O!Closes, OS!Closes,
           O!Logged, OS!Logged
  <1> QED
    BY <1>1, <1>2, <1>3, <1>4, <1>5, SessionRefinesObserver, SameSpec, PTL DEF ObserverSpec
=============================================================================
