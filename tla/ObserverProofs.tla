--------------------------- MODULE ObserverProofs ---------------------------
(***************************************************************************)
(* Theorems about Observer, for every set of requests, every budget and    *)
(* every number of messages.                                               *)
(***************************************************************************)
EXTENDS Observer, FiniteSetTheorems, SequenceTheorems, TLAPS

(* TypeOK speaks of cardinalities, so it is inductive only together with    *)
(* the finiteness of the two sets it counts.                                *)
Typed == TypeOK /\ IsFiniteSet(responses) /\ IsFiniteSet(pending)

-----------------------------------------------------------------------------
(* A record built from well-typed parts is one of Records.                  *)
LEMMA RecordTyped ==
    ASSUME NEW k \in Kinds, NEW r \in Requests \cup {NoReq}, NEW i \in Nat,
           NEW s \in Statuses, NEW b \in Nat
    PROVE  Record(k, r, i, s, b) \in Records
  BY DEF Record, Records

(* The kinds and the fixed statuses the handlers use (observer.go:66-256).  *)
LEMMA Named ==
    /\ {"capture_start", "cdp_event", "http_metadata", "http_finished", "http_failed",
        "http_response", "cdp_reply", "capture_stop"} \subseteq Kinds
    /\ {"", "loading_failed", "body_timeout", "interrupted",
        "loading_not_observed_before_stop"} \subseteq Statuses
  BY DEF Kinds, Statuses

(* The records with no request and no status: the two ends of a capture and *)
(* an event that is not about HTTP.                                         *)
LEMMA PlainRecordTyped ==
    /\ Record("capture_start", NoReq, 0, "", 0) \in Records
    /\ Record("cdp_event", NoReq, 0, "", 0) \in Records
    /\ Record("capture_stop", NoReq, 0, "", 0) \in Records
  BY DEF Record, Records, Kinds, Statuses

(* What the fields of a message are, by its type (observer.go:77-197).      *)
LEMMA MessageTyped ==
    ASSUME unanswered \subseteq 1..commandID, commandID \in Nat, NEW m \in Messages
    PROVE  /\ m.type \in {"metadata", "finished", "failed"} => m.req \in Requests
           /\ m.type = "reply" => /\ m.id \in unanswered /\ m.id \in Nat
                                  /\ m.bytes \in Nat
  <1>1. CASE m \in Traffic
    BY <1>1, TrafficAssumption DEF EventMessages
  <1>2. CASE m \notin Traffic
    <2>1. PICK id \in unanswered : m \in Replies(id)
      BY <1>2 DEF Messages
    <2>2. id \in Nat /\ 0 \in Nat
      BY <2>1
    <2>3. ASSUME m \in EnableReplies
          PROVE  m.type = "reply" /\ m.id = EnableID /\ m.bytes = 0
      BY <2>3 DEF EnableReplies
    <2>4. ASSUME m \in ReplyMessages(id)
          PROVE  m.type = "reply" /\ m.id = id /\ m.bytes \in {0} \cup BodySizes
      BY <2>4 DEF ReplyMessages
    <2>5. m.type = "reply" /\ m.id = id /\ m.bytes \in {0} \cup BodySizes
      BY <2>1, <2>3, <2>4 DEF Replies
    <2> QED
      BY <2>1, <2>2, <2>5, TrafficAssumption
  <1> QED  BY <1>1, <1>2

(* The statuses a metadata, a finished or a body record may carry.          *)
LEMMA StatusTyped ==
    ASSUME NEW m
    PROVE  /\ MetadataStatus(m) \in Statuses
           /\ FetchDecision(m) # "fetch" => FetchDecision(m) \in Statuses
           /\ BodyStatus(m) \in Statuses
  BY DEF MetadataStatus, FetchDecision, BodyStatus, Statuses

LEMMA SingletonTyped ==
    ASSUME NEW rec \in Records
    PROVE  <<rec>> \in Seq(Records)
  OBVIOUS

LEMMA EmitTyped ==
    ASSUME log \in Seq(Records), faults \subseteq {"sink", "send"},
           NEW recs \in Seq(Records), NEW ok \in BOOLEAN, Emit(recs, ok)
    PROVE  log' \in Seq(Records) /\ faults' \subseteq {"sink", "send"}
  BY ConcatProperties DEF Emit

(* The same for the one record that most handlers write.                    *)
LEMMA EmitOneTyped ==
    ASSUME log \in Seq(Records), faults \subseteq {"sink", "send"},
           NEW rec \in Records, NEW ok \in BOOLEAN, Emit(<<rec>>, ok)
    PROVE  log' \in Seq(Records) /\ faults' \subseteq {"sink", "send"}
  BY SingletonTyped, EmitTyped

LEMMA OnResultTyped ==
    ASSUME phase \in Phases, NEW ok \in BOOLEAN, OnResult(ok)
    PROVE  phase' \in Phases
  BY DEF OnResult, Phases

(* Tracking no more requests keeps the number of them within the limit.     *)
LEMMA UntrackTyped ==
    ASSUME Typed, NEW r
    PROVE  /\ responses \ {r} \subseteq Requests
           /\ IsFiniteSet(responses \ {r})
           /\ Cardinality(responses \ {r}) <= MaxTracked
  <1>1. IsFiniteSet(responses) /\ Cardinality(responses) <= MaxTracked /\ responses \subseteq Requests
    BY DEF Typed, TypeOK
  <1>2. Cardinality(responses) \in Nat
    BY <1>1, FS_CardinalityType
  <1>3. /\ IsFiniteSet(responses \ {r})
        /\ Cardinality(responses \ {r}) \in {Cardinality(responses), Cardinality(responses) - 1}
    BY <1>1, FS_RemoveElement
  <1> QED  BY <1>1, <1>2, <1>3, TrafficAssumption

LEMMA TrackTyped ==
    ASSUME Typed, NEW r \in Requests, MayTrack
    PROVE  /\ responses \cup {r} \subseteq Requests
           /\ IsFiniteSet(responses \cup {r})
           /\ Cardinality(responses \cup {r}) <= MaxTracked
  <1>1. IsFiniteSet(responses) /\ Cardinality(responses) < MaxTracked /\ responses \subseteq Requests
    BY DEF Typed, TypeOK, MayTrack
  <1>2. Cardinality(responses) \in Nat
    BY <1>1, FS_CardinalityType
  <1>3. /\ IsFiniteSet(responses \cup {r})
        /\ Cardinality(responses \cup {r}) \in {Cardinality(responses), Cardinality(responses) + 1}
    BY <1>1, FS_AddElement
  <1> QED  BY <1>1, <1>2, <1>3, TrafficAssumption

-----------------------------------------------------------------------------
LEMMA InitTyped == Init => Typed
  BY PolicyAssumption, TrafficAssumption, FS_EmptySet
     DEF Init, Typed, TypeOK, Phases

LEMMA HandleTyped ==
    ASSUME Typed, NEW m \in Messages, Handle(m)
    PROVE  Typed'
  <1>0. /\ handled' \in 0..MaxMessages
        /\ unanswered \subseteq 1..commandID /\ commandID \in Nat
        /\ log \in Seq(Records) /\ faults \subseteq {"sink", "send"} /\ phase \in Phases
        /\ IsFiniteSet(pending) /\ pending \subseteq Fetches
    BY TrafficAssumption DEF Handle, Typed, TypeOK
  <1>1. CASE ResponseReceived(m)
    <2>1. PICK ok \in BOOLEAN :
            /\ Emit(<<Record("http_metadata", m.req, 0, MetadataStatus(m), 0)>>, ok)
            /\ OnResult(ok)
      BY <1>1 DEF ResponseReceived
    <2>2. m.req \in Requests
      BY <1>0, <1>1, MessageTyped DEF ResponseReceived
    <2>3. Record("http_metadata", m.req, 0, MetadataStatus(m), 0) \in Records
      BY <2>2, Named, RecordTyped, StatusTyped
    <2>4. log' \in Seq(Records) /\ faults' \subseteq {"sink", "send"} /\ phase' \in Phases
      BY <1>0, <2>1, <2>3, EmitOneTyped, OnResultTyped
    <2>5. responses' = responses \/ (MayTrack /\ responses' = responses \cup {m.req})
      BY <1>1 DEF ResponseReceived
    <2>6. /\ responses' \subseteq Requests /\ IsFiniteSet(responses')
          /\ Cardinality(responses') <= MaxTracked
      BY <2>2, <2>5, TrackTyped DEF Typed, TypeOK
    <2> QED  BY <1>0, <1>1, <2>4, <2>6 DEF ResponseReceived, Typed, TypeOK
  <1>2. CASE FinishedOnly(m)
    <2>1. PICK ok \in BOOLEAN : Emit(<<FinishedRecord(m)>>, ok) /\ OnResult(ok)
      BY <1>2 DEF FinishedOnly
    <2>2. m.req \in Requests
      BY <1>0, <1>2, MessageTyped DEF FinishedOnly
    <2>3. FinishedRecord(m) \in Records
      BY <2>2, Named, RecordTyped DEF FinishedRecord
    <2>4. log' \in Seq(Records) /\ faults' \subseteq {"sink", "send"} /\ phase' \in Phases
      BY <1>0, <2>1, <2>3, EmitOneTyped, OnResultTyped
    <2> QED  BY <1>0, <1>2, <2>4 DEF FinishedOnly, Typed, TypeOK
  <1>3. CASE FinishedRefused(m)
    <2>1. PICK ok \in BOOLEAN :
            /\ log' = log \o IF ok THEN <<FinishedRecord(m),
                                          Record("http_response", m.req, 0, FetchDecision(m), 0)>>
                                   ELSE <<FinishedRecord(m)>>
            /\ faults' = IF ok THEN faults ELSE faults \cup {"sink"}
            /\ OnResult(ok)
      BY <1>3 DEF FinishedRefused
    <2>2. m.req \in Requests /\ FetchDecision(m) \in Statuses
      BY <1>0, <1>3, MessageTyped, StatusTyped DEF FinishedRefused
    <2>3. FinishedRecord(m) \in Records
      BY <2>2, Named, RecordTyped DEF FinishedRecord
    <2>4. Record("http_response", m.req, 0, FetchDecision(m), 0) \in Records
      BY <2>2, Named, RecordTyped
    <2>5. log' \in Seq(Records)
      <3>1. /\ <<FinishedRecord(m)>> \in Seq(Records)
            /\ <<FinishedRecord(m), Record("http_response", m.req, 0, FetchDecision(m), 0)>>
                 \in Seq(Records)
        BY <2>3, <2>4
      <3> QED  BY <1>0, <2>1, <3>1, ConcatProperties
    <2>6. faults' \subseteq {"sink", "send"} /\ phase' \in Phases
      BY <1>0, <2>1, OnResultTyped
    <2>7. responses' = responses \ {m.req}
      BY <1>3 DEF FinishedRefused
    <2> QED  BY <1>0, <1>3, <2>5, <2>6, <2>7, UntrackTyped DEF FinishedRefused, Typed, TypeOK
  <1>4. CASE FinishedFetched(m)
    <2>1. PICK sent \in BOOLEAN :
            LET fetch == IF sent THEN {[id |-> commandID + 1, req |-> m.req]} ELSE {} IN
            /\ pending' = pending \cup fetch
            /\ fetched' = fetched \cup fetch
            /\ unanswered' = unanswered \cup {f.id : f \in fetch}
            /\ faults' = IF sent THEN faults ELSE faults \cup {"send"}
            /\ OnResult(sent)
      BY <1>4 DEF FinishedFetched
    <2>2. m.req \in Requests
      BY <1>0, <1>4, MessageTyped DEF FinishedFetched
    <2>3. responses' = responses \ {m.req} /\ commandID' = commandID + 1
      BY <1>4 DEF FinishedFetched
    <2>4. log' \in Seq(Records)
      <3>1. FinishedRecord(m) \in Records
        BY <2>2, Named, RecordTyped DEF FinishedRecord
      <3>2. FinishedFirst(m) \in Seq(Records)
        BY <3>1 DEF FinishedFirst
      <3>3. log' = log \o FinishedFirst(m)
        BY <1>4 DEF FinishedFetched
      <3> QED  BY <1>0, <3>2, <3>3, ConcatProperties
    <2>5. faults' \subseteq {"sink", "send"} /\ phase' \in Phases
      BY <1>0, <2>1, OnResultTyped
    <2>6. [id |-> commandID + 1, req |-> m.req] \in Fetches
      BY <1>0, <2>2 DEF Fetches
    <2>7. /\ policy' = policy /\ overdue' = overdue
          /\ bodyBytes' = bodyBytes /\ overshoot' = overshoot
      BY <1>4 DEF FinishedFetched
    <2>8. /\ responses' \subseteq Requests /\ IsFiniteSet(responses')
          /\ Cardinality(responses') <= MaxTracked
      BY <2>3, UntrackTyped
    <2>9. CASE sent
      <3>1. IsFiniteSet(pending')
        BY <1>0, <2>1, <2>9, FS_AddElement
      <3>2. unanswered' \subseteq 1..commandID'
        <4>1. unanswered' = unanswered \cup {commandID + 1}
          BY <2>1, <2>9
        <4> QED  BY <1>0, <2>3, <4>1
      <3>3. /\ pending' = pending \cup {[id |-> commandID + 1, req |-> m.req]}
            /\ fetched' = fetched \cup {[id |-> commandID + 1, req |-> m.req]}
        BY <2>1, <2>9
      <3>4. pending' \subseteq Fetches /\ fetched' \subseteq Fetches /\ overdue' \subseteq pending'
        BY <2>6, <2>7, <3>3 DEF Typed, TypeOK
      <3> QED  BY <1>0, <2>3, <2>4, <2>5, <2>7, <2>8, <3>1, <3>2, <3>4 DEF Typed, TypeOK
    <2>10. CASE ~sent
      <3>1. unanswered' = unanswered /\ pending' = pending /\ fetched' = fetched
        BY <2>1, <2>10
      <3>2. unanswered' \subseteq 1..commandID'
        BY <1>0, <2>3, <3>1
      <3> QED  BY <1>0, <2>3, <2>4, <2>5, <2>7, <2>8, <3>1, <3>2 DEF Typed, TypeOK
    <2> QED  BY <2>9, <2>10
  <1>5. CASE LoadingFailed(m)
    <2>1. PICK ok \in BOOLEAN :
            Emit(<<Record("http_failed", m.req, 0, "loading_failed", 0)>>, ok) /\ OnResult(ok)
      BY <1>5 DEF LoadingFailed
    <2>2. m.req \in Requests
      BY <1>0, <1>5, MessageTyped DEF LoadingFailed
    <2>3. Record("http_failed", m.req, 0, "loading_failed", 0) \in Records
      BY <2>2, Named, RecordTyped
    <2>4. log' \in Seq(Records) /\ faults' \subseteq {"sink", "send"} /\ phase' \in Phases
      BY <1>0, <2>1, <2>3, EmitOneTyped, OnResultTyped
    <2>5. responses' = responses \ {m.req}
      BY <1>5 DEF LoadingFailed
    <2> QED  BY <1>0, <1>5, <2>4, <2>5, UntrackTyped DEF LoadingFailed, Typed, TypeOK
  <1>6. CASE OtherEvent(m)
    <2>1. PICK ok \in BOOLEAN : Emit(<<Record("cdp_event", NoReq, 0, "", 0)>>, ok) /\ OnResult(ok)
      BY <1>6 DEF OtherEvent
    <2>2. log' \in Seq(Records) /\ faults' \subseteq {"sink", "send"} /\ phase' \in Phases
      BY <1>0, <2>1, PlainRecordTyped, EmitOneTyped, OnResultTyped
    <2> QED  BY <1>0, <1>6, <2>2 DEF OtherEvent, Typed, TypeOK
  <1>7. CASE BodyReply(m)
    <2>1. PICK p \in pending, ok \in BOOLEAN :
            /\ pending' = pending \ {p}
            /\ overdue' = overdue \ {p}
            /\ Emit(<<Record("http_response", p.req, p.id, BodyStatus(m), m.bytes)>>, ok)
            /\ OnResult(ok)
      BY <1>7 DEF BodyReply, Settle
    <2>2. m.bytes \in Nat
      BY <1>0, <1>7, MessageTyped DEF BodyReply
    <2>3. Record("http_response", p.req, p.id, BodyStatus(m), m.bytes) \in Records
      BY <1>0, <2>2, Named, RecordTyped, StatusTyped DEF Fetches
    <2>4. log' \in Seq(Records) /\ faults' \subseteq {"sink", "send"} /\ phase' \in Phases
      BY <1>0, <2>1, <2>3, EmitOneTyped, OnResultTyped
    <2>5. IsFiniteSet(pending')
      BY <1>0, <2>1, FS_RemoveElement
    <2>6. bodyBytes' \in Nat /\ overshoot' \in Nat
      BY SMTT(30), <1>7, <2>2, PolicyAssumption DEF BodyReply, Excess, Typed, TypeOK
    <2> QED  BY <1>0, <1>7, <2>1, <2>4, <2>5, <2>6 DEF BodyReply, Typed, TypeOK
  <1>8. CASE UnmatchedReply(m)
    <2>1. PICK ok \in BOOLEAN : Emit(LateRecord(m), ok) /\ OnResult(ok)
      BY <1>8 DEF UnmatchedReply
    <2>2. m.id \in Nat /\ m.bytes \in Nat
      BY <1>0, <1>8, MessageTyped DEF UnmatchedReply
    <2>3. Record("cdp_reply", NoReq, m.id, "", m.bytes) \in Records
      BY <2>2, Named, RecordTyped
    <2>4. LateRecord(m) \in Seq(Records)
      BY <2>3, SingletonTyped DEF LateRecord
    <2>5. log' \in Seq(Records) /\ faults' \subseteq {"sink", "send"} /\ phase' \in Phases
      BY <1>0, <2>1, <2>4, EmitTyped, OnResultTyped
    <2> QED  BY <1>0, <1>8, <2>5 DEF UnmatchedReply, Typed, TypeOK
  <1>9. CASE EnableRejected(m)
    <2>1. phase' \in Phases
      BY <1>9 DEF EnableRejected, Phases
    <2> QED  BY <1>0, <1>9, <2>1 DEF EnableRejected, Typed, TypeOK
  <1> QED
    BY <1>1, <1>2, <1>3, <1>4, <1>5, <1>6, <1>7, <1>8, <1>9 DEF Handle, LoadingFinished

(* The steps that only move the capture along and touch no record.          *)
LEMMA MoveTyped ==
    ASSUME Typed, phase' \in Phases, overdue' \subseteq pending,
           UNCHANGED <<policy, responses, pending, bodyBytes, commandID, log,
                       unanswered, handled, fetched, overshoot, faults>>
    PROVE  Typed'
  BY DEF Typed, TypeOK

LEMMA StepTyped ==
    ASSUME Typed, Next
    PROVE  Typed'
  <1>0. /\ unanswered \subseteq 1..commandID /\ commandID \in Nat
        /\ log \in Seq(Records) /\ faults \subseteq {"sink", "send"} /\ phase \in Phases
        /\ IsFiniteSet(pending) /\ pending \subseteq Fetches /\ overdue \subseteq pending
    BY DEF Typed, TypeOK
  <1>1. CASE \/ RefusePolicy \/ Tick \/ TickDone \/ Leave \/ Drained \/ ExpireDone
             \/ Returned \/ \E p \in pending : DeadlinePasses(p)
    BY <1>0, <1>1, MoveTyped
       DEF RefusePolicy, Tick, TickDone, Leave, Drained, ExpireDone, Returned,
           DeadlinePasses, obsVars, Phases
  <1>2. CASE EmitStart \/ EmitStop
    <2>1. PICK rec \in Records, ok \in BOOLEAN : Emit(<<rec>>, ok)
      BY <1>2, PlainRecordTyped DEF EmitStart, EmitStop
    <2>2. log' \in Seq(Records) /\ faults' \subseteq {"sink", "send"}
      BY <1>0, <2>1, EmitOneTyped
    <2>3. phase' \in Phases
      BY <1>2 DEF EmitStart, EmitStop, Phases
    <2> QED  BY <1>2, <2>2, <2>3 DEF EmitStart, EmitStop, Typed, TypeOK
  <1>3. CASE SendEnable
    <2>1. phase' \in Phases /\ faults' \subseteq {"sink", "send"}
      BY <1>0, <1>3 DEF SendEnable, Phases
    <2>2. commandID' = commandID + 1 /\ unanswered' \subseteq unanswered \cup {commandID + 1}
      BY <1>3 DEF SendEnable
    <2>3. unanswered' \subseteq 1..commandID'
      BY <1>0, <2>2
    <2> QED  BY <1>0, <1>3, <2>1, <2>2, <2>3 DEF SendEnable, Typed, TypeOK
  <1>4. ASSUME NEW p \in pending, ExpireFetch(p) \/ InterruptFetch(p)
        PROVE  Typed'
    <2>1. PICK s \in Statuses, ok \in BOOLEAN :
            /\ Emit(<<Record("http_response", p.req, p.id, s, 0)>>, ok)
            /\ pending' = IF ok THEN pending \ {p} ELSE pending
            /\ overdue' = IF ok THEN overdue \ {p} ELSE overdue
      BY <1>4, Named DEF ExpireFetch, InterruptFetch, TimeoutRecord
    <2>2. Record("http_response", p.req, p.id, s, 0) \in Records
      BY <1>0, Named, RecordTyped DEF Fetches
    <2>3. log' \in Seq(Records) /\ faults' \subseteq {"sink", "send"}
      BY <1>0, <2>1, <2>2, EmitOneTyped
    <2>4. phase' \in Phases
      BY <1>0, <1>4 DEF ExpireFetch, InterruptFetch, OnResult, Phases
    <2>5. IsFiniteSet(pending') /\ pending' \subseteq Fetches /\ overdue' \subseteq pending'
      BY <1>0, <2>1, FS_RemoveElement
    <2> QED  BY <1>4, <2>3, <2>4, <2>5 DEF ExpireFetch, InterruptFetch, Typed, TypeOK
  <1>5. ASSUME NEW r \in responses, InterruptResponse(r)
        PROVE  Typed'
    <2>1. PICK ok \in BOOLEAN :
            /\ Emit(<<Record("http_response", r, 0, "loading_not_observed_before_stop", 0)>>, ok)
            /\ responses' = IF ok THEN responses \ {r} ELSE responses
      BY <1>5 DEF InterruptResponse
    <2>2. Record("http_response", r, 0, "loading_not_observed_before_stop", 0) \in Records
      BY Named, RecordTyped DEF Typed, TypeOK
    <2>3. log' \in Seq(Records) /\ faults' \subseteq {"sink", "send"}
      BY <1>0, <2>1, <2>2, EmitOneTyped
    <2>4. phase' \in Phases
      BY <1>5 DEF InterruptResponse, Phases
    <2>5. /\ responses' \subseteq Requests /\ IsFiniteSet(responses')
          /\ Cardinality(responses') <= MaxTracked
      BY <2>1, UntrackTyped DEF Typed, TypeOK
    <2> QED  BY <1>5, <2>3, <2>4, <2>5 DEF InterruptResponse, Typed, TypeOK
  <1> QED  BY <1>1, <1>2, <1>3, <1>4, <1>5, HandleTyped DEF Next

LEMMA NextTyped == Typed /\ [Next]_obsVars => Typed'
  <1>1. ASSUME Typed, UNCHANGED obsVars
        PROVE  Typed'
    BY <1>1 DEF Typed, TypeOK, obsVars
  <1> QED  BY <1>1, StepTyped

(* Every state of a capture is well typed, whatever the sink, the socket    *)
(* and Chrome do: observer.go never tracks more responses than its limit,   *)
(* and what is overdue is in flight.                                        *)
THEOREM TypeCorrect == Spec => []TypeOK
  <1>1. Typed => TypeOK
    BY DEF Typed
  <1> QED  BY <1>1, InitTyped, NextTyped, PTL DEF Spec

-----------------------------------------------------------------------------
(***************************************************************************)
(* What the fetches of a capture can do is reduced to four kinds of step;  *)
(* the invariants are then preserved by the kinds, not by the twenty       *)
(* actions.                                                                *)
(***************************************************************************)
(* A sequence of records none of which is the outcome of a fetch.           *)
Quiet(recs) ==
    /\ recs \in Seq(Records)
    /\ \A i \in 1..Len(recs) : recs[i].kind = "http_response" => recs[i].id = 0

(* Nothing happens to a fetch.                                              *)
QuietStep == \E recs :
    /\ Quiet(recs) /\ log' = log \o recs
    /\ pending' = pending /\ fetched' = fetched
    /\ commandID' \in {commandID, commandID + 1}
    /\ bodyBytes' = bodyBytes /\ overshoot' = overshoot

(* A fetch is sent under a new command number, within the budget.           *)
FetchStep == \E f \in Fetches :
    /\ f.id = commandID + 1
    /\ \E recs : Quiet(recs) /\ log' = log \o recs
    /\ pending' = pending \cup {f} /\ fetched' = fetched \cup {f}
    /\ commandID' = commandID + 1
    /\ bodyBytes' = bodyBytes /\ overshoot' = overshoot
    /\ Reservation <= policy.maxTotal

(* A fetch is settled by n bytes, and its outcome is recorded.              *)
SettleStep == \E p \in pending, rec \in Records, n \in Nat :
    /\ rec.kind = "http_response" /\ rec.id = p.id /\ rec.req = p.req
    /\ log' = log \o <<rec>>
    /\ pending' = pending \ {p} /\ fetched' = fetched
    /\ commandID' = commandID
    /\ bodyBytes' = bodyBytes + n /\ overshoot' = overshoot + Excess(n)

(* A fetch is settled by n bytes, but the sink refuses the outcome.         *)
LostStep == \E p \in pending, n \in Nat :
    /\ "sink" \in faults'
    /\ log' = log
    /\ pending' = pending \ {p} /\ fetched' = fetched
    /\ commandID' = commandID
    /\ bodyBytes' = bodyBytes + n /\ overshoot' = overshoot + Excess(n)

FetchSteps == QuietStep \/ FetchStep \/ SettleStep \/ LostStep

-----------------------------------------------------------------------------
LEMMA RecordFields ==
    ASSUME NEW k, NEW r, NEW i, NEW s, NEW b
    PROVE  /\ Record(k, r, i, s, b).kind = k
           /\ Record(k, r, i, s, b).id = i
           /\ Record(k, r, i, s, b).req = r
  BY DEF Record

LEMMA FinishedRecordTyped ==
    ASSUME NEW m, m.req \in Requests
    PROVE  FinishedRecord(m) \in Records /\ FinishedRecord(m).id = 0
  BY DEF FinishedRecord, Record, Records, Kinds, Statuses

LEMMA UnfetchedRecordTyped ==
    ASSUME NEW r \in Requests, NEW s \in Statuses
    PROVE  /\ Record("http_response", r, 0, s, 0) \in Records
           /\ Record("http_response", r, 0, s, 0).id = 0
  BY DEF Record, Records, Kinds

LEMMA OutcomeTyped ==
    ASSUME NEW p \in Fetches, NEW s \in Statuses, NEW b \in Nat
    PROVE  /\ Record("http_response", p.req, p.id, s, b) \in Records
           /\ Record("http_response", p.req, p.id, s, b).kind = "http_response"
           /\ Record("http_response", p.req, p.id, s, b).id = p.id
           /\ Record("http_response", p.req, p.id, s, b).req = p.req
  BY DEF Record, Records, Fetches, Kinds

LEMMA NewFetchTyped ==
    ASSUME NEW n \in Nat, NEW r \in Requests
    PROVE  /\ [id |-> n + 1, req |-> r] \in Fetches
           /\ [id |-> n + 1, req |-> r].id = n + 1
  BY DEF Fetches

LEMMA ReplyRecordTyped ==
    ASSUME NEW i \in Nat, NEW b \in Nat
    PROVE  /\ Record("cdp_reply", NoReq, i, "", b) \in Records
           /\ Record("cdp_reply", NoReq, i, "", b).kind # "http_response"
           /\ Record("cdp_reply", NoReq, i, "", b).id = i
  BY DEF Record, Records, Kinds, Statuses

LEMMA QuietNone == Quiet(<< >>)
  BY DEF Quiet

LEMMA QuietOne ==
    ASSUME NEW rec \in Records, rec.kind # "http_response" \/ rec.id = 0
    PROVE  Quiet(<<rec>>)
  BY SingletonTyped DEF Quiet

(* Emitting a record that settles nothing is a quiet step.                  *)
LEMMA EmitQuiet ==
    ASSUME log \in Seq(Records), NEW rec \in Records, NEW ok \in BOOLEAN, Emit(<<rec>>, ok),
           rec.kind # "http_response" \/ rec.id = 0
    PROVE  \E recs : Quiet(recs) /\ log' = log \o recs
  <1>1. CASE ok
    BY <1>1, QuietOne DEF Emit
  <1>2. CASE ~ok
    BY <1>2, QuietNone, EmptySeq, ConcatEmptySeq DEF Emit
  <1> QED  BY <1>1, <1>2

(* A step that changes neither fetches nor budget and appends quiet records *)
LEMMA QuietFrame ==
    ASSUME NEW recs, Quiet(recs), log' = log \o recs,
           pending' = pending, fetched' = fetched, commandID' = commandID,
           bodyBytes' = bodyBytes, overshoot' = overshoot
    PROVE  FetchSteps
  BY DEF FetchSteps, QuietStep

LEMMA HandleSteps ==
    ASSUME Typed, NEW m \in Messages, Handle(m)
    PROVE  FetchSteps
  <1>0. /\ unanswered \subseteq 1..commandID /\ commandID \in Nat
        /\ log \in Seq(Records) /\ pending \subseteq Fetches
    BY DEF Typed, TypeOK
  <1>1. CASE ResponseReceived(m)
    <2>1. PICK ok \in BOOLEAN :
            Emit(<<Record("http_metadata", m.req, 0, MetadataStatus(m), 0)>>, ok)
      BY <1>1 DEF ResponseReceived
    <2>2. Record("http_metadata", m.req, 0, MetadataStatus(m), 0) \in Records
      BY <1>0, <1>1, MessageTyped, Named, RecordTyped, StatusTyped DEF ResponseReceived
    <2>3. PICK recs : Quiet(recs) /\ log' = log \o recs
      BY <1>0, <2>1, <2>2, RecordFields, EmitQuiet
    <2> QED  BY <1>1, <2>3, QuietFrame DEF ResponseReceived
  <1>2. CASE FinishedOnly(m)
    <2>1. PICK ok \in BOOLEAN : Emit(<<FinishedRecord(m)>>, ok)
      BY <1>2 DEF FinishedOnly
    <2>2. FinishedRecord(m) \in Records /\ FinishedRecord(m).id = 0
      BY <1>0, <1>2, MessageTyped, FinishedRecordTyped DEF FinishedOnly
    <2>3. PICK recs : Quiet(recs) /\ log' = log \o recs
      BY <1>0, <2>1, <2>2, EmitQuiet
    <2> QED  BY <1>2, <2>3, QuietFrame DEF FinishedOnly
  <1>3. CASE FinishedRefused(m)
    <2>1. m.req \in Requests /\ FetchDecision(m) \in Statuses
      BY <1>0, <1>3, MessageTyped, StatusTyped DEF FinishedRefused
    <2>2. FinishedRecord(m) \in Records /\ FinishedRecord(m).id = 0
      BY <2>1, FinishedRecordTyped
    <2>3. PICK rec \in Records : rec.id = 0 /\ log' \in {log \o <<FinishedRecord(m), rec>>,
                                                        log \o <<FinishedRecord(m)>>}
      <3>1. /\ Record("http_response", m.req, 0, FetchDecision(m), 0) \in Records
            /\ Record("http_response", m.req, 0, FetchDecision(m), 0).id = 0
        BY <2>1, UnfetchedRecordTyped
      <3> QED  BY <1>3, <3>1 DEF FinishedRefused
    <2>4. Quiet(<<FinishedRecord(m), rec>>)
      BY <2>2, <2>3 DEF Quiet
    <2>5. Quiet(<<FinishedRecord(m)>>)
      BY <2>2, QuietOne
    <2> QED  BY <1>3, <2>3, <2>4, <2>5, QuietFrame DEF FinishedRefused
  <1>4. CASE FinishedFetched(m)
    <2>1. m.req \in Requests
      BY <1>0, <1>4, MessageTyped DEF FinishedFetched
    <2>2. FinishedRecord(m) \in Records /\ FinishedRecord(m).id = 0
      BY <2>1, FinishedRecordTyped
    <2>3. Quiet(<<FinishedRecord(m)>>) /\ log' = log \o <<FinishedRecord(m)>>
      BY <1>4, <2>2, QuietOne DEF FinishedFetched, FinishedFirst
    <2>4. /\ commandID' = commandID + 1
          /\ bodyBytes' = bodyBytes /\ overshoot' = overshoot
          /\ Reservation <= policy.maxTotal
      <3>1. FetchDecision(m) = "fetch"
        BY <1>4 DEF FinishedFetched
      <3>2. ~(Reservation > policy.maxTotal)
        BY <3>1 DEF FetchDecision
      <3>3. Cardinality(pending) \in Nat /\ bodyBytes \in Nat /\ policy.maxBody \in Nat
            /\ policy.maxTotal \in Nat
        BY FS_CardinalityType, PolicyAssumption DEF Typed, TypeOK
      <3>4. Reservation \in Nat
        <4>1. (Cardinality(pending) + 1) * policy.maxBody \in Nat
          BY <3>3
        <4> QED  BY <3>3, <4>1 DEF Reservation
      <3> QED  BY <1>4, <3>2, <3>3, <3>4 DEF FinishedFetched
    <2>5. PICK sent \in BOOLEAN :
            LET fetch == IF sent THEN {[id |-> commandID + 1, req |-> m.req]} ELSE {} IN
            pending' = pending \cup fetch /\ fetched' = fetched \cup fetch
      BY <1>4 DEF FinishedFetched
    <2>6. CASE sent
      <3>1. PICK f \in Fetches : f = [id |-> commandID + 1, req |-> m.req] /\ f.id = commandID + 1
        BY <1>0, <2>1, NewFetchTyped
      <3>2. pending' = pending \cup {f} /\ fetched' = fetched \cup {f}
        BY <2>5, <2>6, <3>1
      <3>3. FetchStep
        BY <2>3, <2>4, <3>1, <3>2 DEF FetchStep
      <3> QED  BY <3>3 DEF FetchSteps
    <2>7. CASE ~sent
      BY <2>3, <2>4, <2>5, <2>7 DEF FetchSteps, QuietStep
    <2> QED  BY <2>6, <2>7
  <1>5. CASE LoadingFailed(m)
    <2>1. PICK ok \in BOOLEAN : Emit(<<Record("http_failed", m.req, 0, "loading_failed", 0)>>, ok)
      BY <1>5 DEF LoadingFailed
    <2>2. Record("http_failed", m.req, 0, "loading_failed", 0) \in Records
      BY <1>0, <1>5, MessageTyped, Named, RecordTyped DEF LoadingFailed
    <2>3. PICK recs : Quiet(recs) /\ log' = log \o recs
      BY <1>0, <2>1, <2>2, RecordFields, EmitQuiet
    <2> QED  BY <1>5, <2>3, QuietFrame DEF LoadingFailed
  <1>6. CASE OtherEvent(m)
    <2>1. PICK ok \in BOOLEAN : Emit(<<Record("cdp_event", NoReq, 0, "", 0)>>, ok)
      BY <1>6 DEF OtherEvent
    <2>2. PICK recs : Quiet(recs) /\ log' = log \o recs
      BY <1>0, <2>1, PlainRecordTyped, RecordFields, EmitQuiet
    <2> QED  BY <1>6, <2>2, QuietFrame DEF OtherEvent
  <1>7. CASE BodyReply(m)
    <2>1. PICK p \in pending, ok \in BOOLEAN :
            /\ pending' = pending \ {p}
            /\ Emit(<<Record("http_response", p.req, p.id, BodyStatus(m), m.bytes)>>, ok)
      BY <1>7 DEF BodyReply, Settle
    <2>2. m.bytes \in Nat
      BY <1>0, <1>7, MessageTyped DEF BodyReply
    <2>3. /\ fetched' = fetched /\ commandID' = commandID
          /\ bodyBytes' = bodyBytes + m.bytes /\ overshoot' = overshoot + Excess(m.bytes)
      BY <1>7 DEF BodyReply
    <2>4. CASE ok
      <3>1. PICK rec \in Records :
              /\ rec = Record("http_response", p.req, p.id, BodyStatus(m), m.bytes)
              /\ rec.kind = "http_response" /\ rec.id = p.id /\ rec.req = p.req
        BY <1>0, <2>2, OutcomeTyped, StatusTyped
      <3>2. log' = log \o <<rec>>
        BY <2>1, <2>4, <3>1 DEF Emit
      <3>3. SettleStep
        BY <2>1, <2>2, <2>3, <3>1, <3>2 DEF SettleStep
      <3> QED  BY <3>3 DEF FetchSteps
    <2>5. CASE ~ok
      <3>1. log' = log /\ "sink" \in faults'
        BY <2>1, <2>5 DEF Emit
      <3> QED  BY <2>1, <2>2, <2>3, <3>1 DEF FetchSteps, LostStep
    <2> QED  BY <2>4, <2>5
  <1>8. CASE UnmatchedReply(m)
    <2>1. PICK ok \in BOOLEAN : Emit(<<Record("cdp_reply", NoReq, m.id, "", m.bytes)>>, ok)
      BY <1>8 DEF UnmatchedReply, LateRecord
    <2>2. /\ Record("cdp_reply", NoReq, m.id, "", m.bytes) \in Records
          /\ Record("cdp_reply", NoReq, m.id, "", m.bytes).kind # "http_response"
      BY <1>0, <1>8, MessageTyped, ReplyRecordTyped DEF UnmatchedReply
    <2>3. PICK recs : Quiet(recs) /\ log' = log \o recs
      BY <1>0, <2>1, <2>2, EmitQuiet
    <2> QED  BY <1>8, <2>3, QuietFrame DEF UnmatchedReply
  <1>9. CASE EnableRejected(m)
    <2>1. log' = log \o << >>
      BY <1>0, <1>9, ConcatEmptySeq DEF EnableRejected
    <2> QED  BY <1>9, <2>1, QuietNone, QuietFrame DEF EnableRejected
  <1> QED
    BY <1>1, <1>2, <1>3, <1>4, <1>5, <1>6, <1>7, <1>8, <1>9 DEF Handle, LoadingFinished

LEMMA NextSteps ==
    ASSUME Typed, [Next]_obsVars
    PROVE  FetchSteps
  <1>0. /\ log \in Seq(Records) /\ pending \subseteq Fetches /\ responses \subseteq Requests
        /\ commandID \in Nat /\ bodyBytes \in Nat /\ overshoot \in Nat
        /\ policy.maxBody \in Nat
    BY PolicyAssumption DEF Typed, TypeOK
  <1>1. CASE \/ RefusePolicy \/ Tick \/ TickDone \/ Leave \/ Drained \/ ExpireDone
             \/ Returned \/ UNCHANGED obsVars \/ \E p \in pending : DeadlinePasses(p)
    <2>1. /\ log' = log /\ pending' = pending /\ fetched' = fetched /\ commandID' = commandID
          /\ bodyBytes' = bodyBytes /\ overshoot' = overshoot
      BY <1>1 DEF RefusePolicy, Tick, TickDone, Leave, Drained, ExpireDone, Returned,
                  DeadlinePasses, obsVars
    <2>2. log' = log \o << >>
      BY <1>0, <2>1, ConcatEmptySeq
    <2> QED  BY <2>1, <2>2, QuietNone, QuietFrame
  <1>2. CASE EmitStart \/ EmitStop
    <2>1. PICK k \in {"capture_start", "capture_stop"}, ok \in BOOLEAN :
            Emit(<<Record(k, NoReq, 0, "", 0)>>, ok)
      BY <1>2 DEF EmitStart, EmitStop
    <2>2. PICK recs : Quiet(recs) /\ log' = log \o recs
      BY <1>0, <2>1, PlainRecordTyped, RecordFields, EmitQuiet
    <2> QED  BY <1>2, <2>2, QuietFrame DEF EmitStart, EmitStop
  <1>3. CASE SendEnable
    <2>1. log' = log \o << >>
      BY <1>0, <1>3, ConcatEmptySeq DEF SendEnable
    <2> QED  BY <1>3, <2>1, QuietNone DEF SendEnable, FetchSteps, QuietStep
  <1>4. ASSUME NEW p \in pending, ExpireFetch(p) \/ InterruptFetch(p)
        PROVE  FetchSteps
    <2>1. PICK s \in Statuses, ok \in BOOLEAN :
            /\ Emit(<<Record("http_response", p.req, p.id, s, 0)>>, ok)
            /\ pending' = IF ok THEN pending \ {p} ELSE pending
      BY <1>4, Named DEF ExpireFetch, InterruptFetch, TimeoutRecord
    <2>2. /\ fetched' = fetched /\ commandID' = commandID
          /\ bodyBytes' = bodyBytes /\ overshoot' = overshoot
      BY <1>4 DEF ExpireFetch, InterruptFetch
    <2>3. CASE ok
      <3>1. PICK rec \in Records :
              /\ rec = Record("http_response", p.req, p.id, s, 0)
              /\ rec.kind = "http_response" /\ rec.id = p.id /\ rec.req = p.req
        BY ZenonT(30), <1>0, OutcomeTyped
      <3>2. log' = log \o <<rec>>
        BY <2>1, <2>3, <3>1 DEF Emit
      <3>3. bodyBytes' = bodyBytes + 0 /\ overshoot' = overshoot + Excess(0)
        BY <1>0, <2>2 DEF Excess
      <3>4. SettleStep
        BY <2>1, <2>2, <2>3, <3>1, <3>2, <3>3 DEF SettleStep
      <3> QED  BY <3>4 DEF FetchSteps
    <2>4. CASE ~ok
      <3>1. log' = log \o << >>
        BY <1>0, <2>1, <2>4, ConcatEmptySeq DEF Emit
      <3> QED  BY <2>1, <2>2, <2>4, <3>1, QuietNone, QuietFrame
    <2> QED  BY <2>3, <2>4
  <1>5. ASSUME NEW r \in responses, InterruptResponse(r)
        PROVE  FetchSteps
    <2> DEFINE rec == Record("http_response", r, 0, "loading_not_observed_before_stop", 0)
    <2>1. PICK ok \in BOOLEAN : Emit(<<rec>>, ok)
      BY <1>5 DEF InterruptResponse
    <2>2. rec \in Records
      <3>1. /\ r \in Requests \cup {NoReq} /\ "http_response" \in Kinds
            /\ "loading_not_observed_before_stop" \in Statuses
        BY <1>0, Named
      <3> QED  BY <3>1, RecordTyped
    <2>3. rec.id = 0
      BY RecordFields
    <2> HIDE DEF rec
    <2>4. PICK recs : Quiet(recs) /\ log' = log \o recs
      BY <1>0, <2>1, <2>2, <2>3, EmitQuiet
    <2>5. UNCHANGED <<pending, fetched, commandID, bodyBytes, overshoot>>
      BY <1>5 DEF InterruptResponse
    <2> QED  BY <2>4, <2>5, QuietFrame
  <1> QED  BY <1>1, <1>2, <1>3, <1>4, <1>5, HandleSteps DEF Next

-----------------------------------------------------------------------------
(***************************************************************************)
(* The budget.  BudgetReserved is inductive once the types are known: a    *)
(* fetch was admitted against the reservation that now includes it, and a  *)
(* body frees one reservation for at most maxBody + its excess bytes.      *)
(***************************************************************************)
LEMMA AddFetch ==
    ASSUME Typed, NEW f
    PROVE  Cardinality(pending \cup {f}) * policy.maxBody
             <= (Cardinality(pending) + 1) * policy.maxBody
  <1>1. Cardinality(pending) \in Nat /\ policy.maxBody \in Nat
    BY FS_CardinalityType, PolicyAssumption DEF Typed, TypeOK
  <1>2. Cardinality(pending \cup {f}) \in {Cardinality(pending), Cardinality(pending) + 1}
    BY FS_AddElement DEF Typed
  <1>3. (Cardinality(pending) + 1) * policy.maxBody
          = Cardinality(pending) * policy.maxBody + policy.maxBody
    BY <1>1
  <1>4. Cardinality(pending) * policy.maxBody \in Nat
    BY <1>1
  <1> QED  BY <1>1, <1>2, <1>3, <1>4

LEMMA RemoveFetch ==
    ASSUME Typed, NEW p \in pending
    PROVE  Cardinality(pending \ {p}) * policy.maxBody + policy.maxBody
             = Cardinality(pending) * policy.maxBody
  <1>1. Cardinality(pending) \in Nat /\ policy.maxBody \in Nat
    BY FS_CardinalityType, PolicyAssumption DEF Typed, TypeOK
  <1>2. /\ Cardinality(pending \ {p}) = Cardinality(pending) - 1
        /\ IsFiniteSet(pending \ {p})
    BY FS_RemoveElement DEF Typed
  <1>3. Cardinality(pending \ {p}) \in Nat
    BY <1>2, FS_CardinalityType
  <1>4. Cardinality(pending) = Cardinality(pending \ {p}) + 1
    BY <1>1, <1>2, <1>3
  <1>5. (Cardinality(pending \ {p}) + 1) * policy.maxBody
          = Cardinality(pending \ {p}) * policy.maxBody + policy.maxBody
    BY <1>1, <1>3
  <1> QED  BY <1>4, <1>5

LEMMA BudgetStep ==
    ASSUME Typed, Typed', policy' = policy, FetchSteps, BudgetReserved
    PROVE  BudgetReserved'
  <1>0. /\ bodyBytes \in Nat /\ overshoot \in Nat
        /\ policy.maxBody \in Nat /\ policy.maxTotal \in Nat
        /\ bodyBytes' \in Nat /\ overshoot' \in Nat
    BY PolicyAssumption DEF Typed, TypeOK
  <1>1. /\ Cardinality(pending) * policy.maxBody \in Nat
        /\ Cardinality(pending') * policy.maxBody \in Nat
    <2>1. Cardinality(pending) \in Nat /\ Cardinality(pending') \in Nat
      BY FS_CardinalityType DEF Typed
    <2> QED  BY <1>0, <2>1
  <1>2. CASE QuietStep
    BY <1>2 DEF QuietStep, BudgetReserved
  <1>3. CASE FetchStep
    <2>1. PICK f \in Fetches : pending' = pending \cup {f}
      BY <1>3 DEF FetchStep
    <2>2. /\ bodyBytes + (Cardinality(pending) + 1) * policy.maxBody <= policy.maxTotal
          /\ bodyBytes' = bodyBytes /\ overshoot' = overshoot
      BY <1>3 DEF FetchStep, Reservation
    <2>3. Cardinality(pending') * policy.maxBody <= (Cardinality(pending) + 1) * policy.maxBody
      BY <2>1, AddFetch
    <2>4. (Cardinality(pending) + 1) * policy.maxBody \in Nat
      BY <1>0, FS_CardinalityType DEF Typed
    <2> QED  BY <1>0, <1>1, <2>2, <2>3, <2>4 DEF BudgetReserved
  <1>4. CASE SettleStep \/ LostStep
    <2>1. PICK p \in pending, n \in Nat :
            /\ pending' = pending \ {p}
            /\ bodyBytes' = bodyBytes + n /\ overshoot' = overshoot + Excess(n)
      BY <1>4 DEF SettleStep, LostStep
    <2>2. n <= policy.maxBody + Excess(n) /\ Excess(n) \in Nat
      BY <1>0, <2>1 DEF Excess
    <2>3. Cardinality(pending') * policy.maxBody + policy.maxBody
            = Cardinality(pending) * policy.maxBody
      BY <2>1, RemoveFetch
    <2> QED  BY <1>0, <1>1, <2>1, <2>2, <2>3 DEF BudgetReserved
  <1> QED  BY <1>2, <1>3, <1>4 DEF FetchSteps

(* The policy a capture starts with is its policy to the end.               *)
LEMMA PolicyFixed == [Next]_obsVars => policy' = policy
  <1>1. ASSUME NEW m \in Messages, Handle(m)
        PROVE  policy' = policy
    BY <1>1, Zenon
       DEF Handle, ResponseReceived, LoadingFinished, FinishedOnly, FinishedRefused,
           FinishedFetched, LoadingFailed, OtherEvent, BodyReply, UnmatchedReply,
           EnableRejected
  <1>2. ASSUME NEW p \in pending,
               DeadlinePasses(p) \/ ExpireFetch(p) \/ InterruptFetch(p)
        PROVE  policy' = policy
    BY <1>2, Zenon DEF DeadlinePasses, ExpireFetch, InterruptFetch
  <1>3. ASSUME NEW r \in responses, InterruptResponse(r)
        PROVE  policy' = policy
    BY <1>3, Zenon DEF InterruptResponse
  <1>4. CASE \/ RefusePolicy \/ EmitStart \/ SendEnable \/ Tick \/ TickDone \/ Leave
             \/ Drained \/ ExpireDone \/ EmitStop \/ Returned \/ UNCHANGED obsVars
    BY <1>4, Zenon
       DEF RefusePolicy, EmitStart, SendEnable, Tick, TickDone, Leave, Drained, ExpireDone,
           EmitStop, Returned, obsVars
  <1> QED  BY <1>1, <1>2, <1>3, <1>4, Zenon DEF Next

LEMMA BudgetInit == Init => BudgetReserved
  <1> SUFFICES ASSUME Init PROVE BudgetReserved
    OBVIOUS
  <1>1. Cardinality(pending) = 0 /\ bodyBytes = 0 /\ overshoot = 0
    BY FS_EmptySet DEF Init
  <1>2. policy.maxBody \in Nat /\ policy.maxTotal \in Nat
    BY PolicyAssumption DEF Init
  <1> QED  BY <1>1, <1>2 DEF BudgetReserved

(* Whatever the policy, the number of requests in flight and the order of   *)
(* answers, timeouts and failures, what is stored and what is in flight     *)
(* together never exceed maxTotal by more than the single bodies that came  *)
(* back longer than maxBody (observer.go:181).                              *)
THEOREM BudgetSafe == Spec => []BudgetReserved
  <1> DEFINE IInv == Typed /\ BudgetReserved
  <1>1. Init => IInv
    BY InitTyped, BudgetInit
  <1>2. IInv /\ [Next]_obsVars => IInv'
    BY NextTyped, NextSteps, PolicyFixed, BudgetStep
  <1>3. IInv => BudgetReserved
    OBVIOUS
  <1> QED  BY <1>1, <1>2, <1>3, PTL DEF Spec

-----------------------------------------------------------------------------
(***************************************************************************)
(* Outcomes.  A fetch in flight has a number of its own that no outcome    *)
(* bears yet; settling it is therefore the only way to bear it.            *)
(***************************************************************************)
Outcome(i) == log[i].kind = "http_response" /\ log[i].id # 0

OutcomeInv ==
    /\ \A p \in pending : p.id <= commandID
    /\ \A p, q \in pending : p.id = q.id => p = q
    /\ \A i \in Logged : Outcome(i) =>
          /\ log[i].id <= commandID
          /\ \A p \in pending : p.id # log[i].id
    /\ OneOutcomePerFetch

(* Appending quiet records adds no outcome.                                 *)
LEMMA QuietAppend ==
    ASSUME log \in Seq(Records), NEW recs, Quiet(recs), log' = log \o recs
    PROVE  \A i \in Logged' : Outcome(i)' => i \in Logged /\ Outcome(i) /\ log'[i] = log[i]
  <1>1. recs \in Seq(Records)
    BY DEF Quiet
  <1>2. TAKE i \in Logged'
  <1>3. i \in 1..(Len(log) + Len(recs))
    BY <1>1, ConcatProperties DEF Logged
  <1>4. CASE i <= Len(log)
    BY <1>1, <1>3, <1>4, ConcatProperties DEF Logged, Outcome
  <1>5. CASE i > Len(log)
    <2>1. i - Len(log) \in 1..Len(recs) /\ log'[i] = recs[i - Len(log)]
      BY <1>1, <1>3, <1>5, ConcatProperties
    <2> QED  BY <2>1 DEF Quiet, Outcome
  <1> QED  BY <1>3, <1>4, <1>5

(* Appending one outcome adds exactly that one.                             *)
LEMMA OutcomeAppend ==
    ASSUME log \in Seq(Records), NEW rec \in Records, log' = log \o <<rec>>
    PROVE  /\ Logged' = 1..(Len(log) + 1) /\ Len(log) \in Nat
           /\ log'[Len(log) + 1] = rec
           /\ \A i \in Logged : log'[i] = log[i]
  <1>1. <<rec>> \in Seq(Records) /\ Len(<<rec>>) = 1 /\ <<rec>>[1] = rec
    BY SingletonTyped
  <1>2. Len(log) \in Nat /\ Len(log') = Len(log) + 1
    BY <1>1, ConcatProperties, LenProperties
  <1> QED  BY <1>1, <1>2, ConcatProperties DEF Logged

LEMMA OutcomeStep ==
    ASSUME Typed, Typed', FetchSteps, OutcomeInv
    PROVE  OutcomeInv'
  <1>0. /\ log \in Seq(Records) /\ pending \subseteq Fetches /\ commandID \in Nat
        /\ \A i \in Logged : log[i].id \in Nat
        /\ \A p \in pending : p.id \in Nat
        /\ commandID' \in {commandID, commandID + 1}
    <2>1. /\ log \in Seq(Records) /\ pending \subseteq Fetches /\ commandID \in Nat
      BY DEF Typed, TypeOK
    <2>2. \A i \in Logged : log[i] \in Records
      BY <2>1 DEF Logged
    <2>3. commandID' \in {commandID, commandID + 1}
      BY DEF FetchSteps, QuietStep, FetchStep, SettleStep, LostStep
    <2>4. \A p \in pending : p.id \in Nat
      BY <2>1 DEF Fetches
    <2>5. \A i \in Logged : log[i].id \in Nat
      BY <2>2 DEF Records
    <2> QED  BY <2>1, <2>3, <2>4, <2>5
  <1>1. ASSUME NEW recs, Quiet(recs), log' = log \o recs
        PROVE  OneOutcomePerFetch' /\ \A i \in Logged' : Outcome(i)' =>
                 i \in Logged /\ Outcome(i) /\ log'[i] = log[i]
    <2>1. \A i \in Logged' : Outcome(i)' => i \in Logged /\ Outcome(i) /\ log'[i] = log[i]
      BY <1>0, <1>1, QuietAppend
    <2> QED  BY <2>1 DEF OutcomeInv, OneOutcomePerFetch, Outcome
  <1>2. CASE QuietStep
    <2>1. PICK recs : Quiet(recs) /\ log' = log \o recs
      BY <1>2 DEF QuietStep
    <2>2. OneOutcomePerFetch' /\ \A i \in Logged' : Outcome(i)' =>
                 i \in Logged /\ Outcome(i) /\ log'[i] = log[i]
      BY <1>1, <2>1
    <2>3. \A i \in Logged : Outcome(i) => log[i].id <= commandID'
      BY <1>0 DEF OutcomeInv
    <2>4. \A p \in pending : p.id <= commandID'
      BY <1>0 DEF OutcomeInv
    <2> QED  BY <1>2, <2>2, <2>3, <2>4 DEF QuietStep, OutcomeInv
  <1>3. CASE FetchStep
    <2>1. PICK f \in Fetches : /\ f.id = commandID + 1 /\ commandID' = commandID + 1
                              /\ pending' = pending \cup {f}
                              /\ \E recs : Quiet(recs) /\ log' = log \o recs
      BY <1>3 DEF FetchStep
    <2>2. OneOutcomePerFetch' /\ \A i \in Logged' : Outcome(i)' =>
                 i \in Logged /\ Outcome(i) /\ log'[i] = log[i]
      BY <1>1, <2>1
    <2>3. \A i \in Logged : Outcome(i) => log[i].id <= commandID' /\ log[i].id # f.id
      BY <1>0, <2>1 DEF OutcomeInv
    <2>4. \A p \in pending : p.id <= commandID' /\ p.id # f.id
      BY <1>0, <2>1 DEF OutcomeInv
    <2>5. \A p, q \in pending' : p.id = q.id => p = q
      BY <2>1, <2>4 DEF OutcomeInv
    <2>6. \A i \in Logged' : Outcome(i)' => /\ log'[i].id <= commandID'
                                          /\ \A q \in pending' : q.id # log'[i].id
      BY <2>1, <2>2, <2>3 DEF OutcomeInv
    <2>7. \A p \in pending' : p.id <= commandID'
      BY <1>0, <2>1, <2>4
    <2> QED  BY <2>2, <2>5, <2>6, <2>7 DEF OutcomeInv
  <1>4. CASE SettleStep
    <2>1. PICK p \in pending, rec \in Records :
            /\ rec.kind = "http_response" /\ rec.id = p.id
            /\ log' = log \o <<rec>> /\ pending' = pending \ {p} /\ commandID' = commandID
      BY <1>4 DEF SettleStep
    <2>2. /\ Logged' = 1..(Len(log) + 1) /\ Len(log) \in Nat
          /\ log'[Len(log) + 1] = rec
          /\ \A i \in Logged : log'[i] = log[i]
      BY <1>0, <2>1, OutcomeAppend
    <2>3. \A i \in Logged' : i = Len(log) + 1 \/ i \in Logged
      BY <2>2 DEF Logged
    <2>4. \A i \in Logged : Outcome(i) => log[i].id # p.id
      BY <2>1 DEF OutcomeInv
    <2>5. OneOutcomePerFetch'
      BY <2>1, <2>2, <2>3, <2>4 DEF OutcomeInv, OneOutcomePerFetch, Outcome
    <2>6. \A i \in Logged' : Outcome(i)' => /\ log'[i].id <= commandID'
                                          /\ \A q \in pending' : q.id # log'[i].id
      BY <1>0, <2>1, <2>2, <2>3 DEF OutcomeInv, Outcome
    <2> QED  BY <2>1, <2>5, <2>6 DEF OutcomeInv
  <1>5. CASE LostStep
    BY <1>5 DEF LostStep, OutcomeInv, OneOutcomePerFetch, Logged, Outcome
  <1> QED  BY <1>2, <1>3, <1>4, <1>5 DEF FetchSteps

LEMMA OutcomeInit == Init => OutcomeInv
  BY DEF Init, OutcomeInv, OneOutcomePerFetch, Logged

(* However the answer, the timeout and the shutdown of a body fetch fall    *)
(* together, at most one of them records its outcome (observer.go:79-82,    *)
(* 233-256).                                                                *)
THEOREM OutcomeUnique == Spec => []OneOutcomePerFetch
  <1> DEFINE IInv == Typed /\ OutcomeInv
  <1>1. Init => IInv
    BY InitTyped, OutcomeInit
  <1>2. IInv /\ [Next]_obsVars => IInv'
    BY NextTyped, NextSteps, OutcomeStep
  <1>3. IInv => OneOutcomePerFetch
    BY DEF OutcomeInv
  <1> QED  BY <1>1, <1>2, <1>3, PTL DEF Spec

-----------------------------------------------------------------------------
(***************************************************************************)
(* No fetch is lost.                                                       *)
(***************************************************************************)
LEMMA FaultsGrow == [Next]_obsVars => faults \subseteq faults'
  <1> SUFFICES ASSUME [Next]_obsVars
               PROVE  faults \subseteq faults'
    OBVIOUS
  <1>1. ASSUME NEW m \in Messages, Handle(m)
        PROVE  faults \subseteq faults'
    BY <1>1 DEF Handle, ResponseReceived, LoadingFinished, FinishedOnly, FinishedRefused,
                FinishedFetched, LoadingFailed, OtherEvent, BodyReply, UnmatchedReply,
                EnableRejected, Emit
  <1>2. ASSUME NEW p \in pending, DeadlinePasses(p) \/ ExpireFetch(p) \/ InterruptFetch(p)
        PROVE  faults \subseteq faults'
    BY <1>2 DEF DeadlinePasses, ExpireFetch, InterruptFetch, Emit
  <1>3. ASSUME NEW r \in responses, InterruptResponse(r)
        PROVE  faults \subseteq faults'
    BY <1>3 DEF InterruptResponse, Emit
  <1>4. CASE RefusePolicy \/ EmitStart \/ SendEnable \/ Tick \/ TickDone \/ Leave
    BY <1>4 DEF RefusePolicy, EmitStart, SendEnable, Tick, TickDone, Leave, Emit
  <1>5. CASE Drained \/ ExpireDone \/ EmitStop \/ Returned
    BY <1>5 DEF Drained, ExpireDone, EmitStop, Returned, Emit, obsVars
  <1>6. CASE UNCHANGED obsVars
    BY <1>6 DEF obsVars
  <1> QED  BY <1>1, <1>2, <1>3, <1>4, <1>5, <1>6 DEF Next

Recorded(f) == \E i \in Logged : /\ log[i].kind = "http_response"
                                  /\ log[i].id = f.id
                                  /\ log[i].req = f.req

(* What is on record stays on record: the log is only appended to.          *)
LEMMA RecordedStays ==
    ASSUME log \in Seq(Records), NEW recs \in Seq(Records), log' = log \o recs,
           NEW f, Recorded(f)
    PROVE  Recorded(f)'
  <1>1. PICK i \in Logged : log[i].kind = "http_response" /\ log[i].id = f.id /\ log[i].req = f.req
    BY DEF Recorded
  <1>2. i \in Logged' /\ log'[i] = log[i]
    BY <1>1, ConcatProperties, LenProperties DEF Logged
  <1> QED  BY <1>1, <1>2 DEF Recorded

LEMMA AccountedStep ==
    ASSUME Typed, faults \subseteq faults', FetchSteps, FetchAccounted
    PROVE  FetchAccounted'
  <1> SUFFICES ASSUME "sink" \notin faults', NEW f \in fetched' \ pending'
               PROVE  Recorded(f)'
    BY DEF FetchAccounted, Recorded
  <1>0. log \in Seq(Records)
    BY DEF Typed, TypeOK
  <1>1. \A g \in fetched \ pending : Recorded(g)
    BY DEF FetchAccounted, Recorded
  <1>2. CASE QuietStep \/ FetchStep
    <2>1. PICK recs \in Seq(Records) : log' = log \o recs
      BY <1>2 DEF QuietStep, FetchStep, Quiet
    <2>2. f \in fetched \ pending
      BY <1>2 DEF QuietStep, FetchStep
    <2> QED  BY <1>0, <1>1, <2>1, <2>2, RecordedStays
  <1>3. CASE SettleStep
    <2>1. PICK p \in pending, rec \in Records :
            /\ rec.kind = "http_response" /\ rec.id = p.id /\ rec.req = p.req
            /\ log' = log \o <<rec>> /\ pending' = pending \ {p} /\ fetched' = fetched
      BY <1>3 DEF SettleStep
    <2>2. CASE f = p
      <3>1. Len(log) + 1 \in Logged' /\ log'[Len(log) + 1] = rec
        BY <1>0, <2>1, OutcomeAppend
      <3> QED  BY <2>1, <2>2, <3>1 DEF Recorded
    <2>3. CASE f # p
      <3>1. f \in fetched \ pending
        BY <2>1, <2>3
      <3>2. <<rec>> \in Seq(Records)
        BY SingletonTyped
      <3> QED  BY <1>0, <1>1, <2>1, <3>1, <3>2, RecordedStays
    <2> QED  BY <2>2, <2>3
  <1>4. CASE LostStep
    BY <1>4 DEF LostStep
  <1> QED  BY <1>2, <1>3, <1>4 DEF FetchSteps

(* As long as the sink takes every record, each body fetch ever sent is in  *)
(* flight or has an http_response under its number and request: no answer,  *)
(* timeout or shutdown drops one silently (observer.go:79-82, 233-256).     *)
THEOREM FetchesAccounted == Spec => []FetchAccounted
  <1> DEFINE IInv == Typed /\ FetchAccounted
  <1>1. Init => IInv
    BY InitTyped DEF Init, FetchAccounted
  <1>2. IInv /\ [Next]_obsVars => IInv'
    BY NextTyped, NextSteps, FaultsGrow, AccountedStep
  <1>3. IInv => FetchAccounted
    OBVIOUS
  <1> QED  BY <1>1, <1>2, <1>3, PTL DEF Spec

-----------------------------------------------------------------------------
(***************************************************************************)
(* When commands may be sent at all.                                       *)
(***************************************************************************)
LEMMA DisabledStep ==
    ASSUME DisabledNeverFetches, [Next]_obsVars
    PROVE  DisabledNeverFetches'
  <1>1. policy' = policy
    BY PolicyFixed
  <1> SUFFICES ASSUME ~policy.httpBodies, fetched = {}, responses = {}
               PROVE  fetched' = {} /\ responses' = {}
    BY <1>1 DEF DisabledNeverFetches
  <1>2. ASSUME NEW m \in Messages, Handle(m)
        PROVE  fetched' = {} /\ responses' = {}
    BY <1>2 DEF Handle, ResponseReceived, MetadataStatus, LoadingFinished, FinishedOnly,
                FinishedRefused, FinishedFetched, LoadingFailed, OtherEvent, BodyReply,
                UnmatchedReply, EnableRejected
  <1> QED
    BY <1>2 DEF Next, obsVars, RefusePolicy, EmitStart, SendEnable, DeadlinePasses, Tick,
                ExpireFetch, TickDone, Leave, Drained, InterruptFetch, InterruptResponse,
                ExpireDone, EmitStop, Returned

(* A capture whose HTTP bodies are disabled requests none and tracks no     *)
(* response, for any traffic (observer.go:148-151).                         *)
THEOREM DisabledSafe == Spec => []DisabledNeverFetches
  <1>1. Init => DisabledNeverFetches
    BY DEF Init, DisabledNeverFetches
  <1> QED  BY <1>1, DisabledStep, PTL DEF Spec

(* No command is sent once the event loop was left: the drain and the       *)
(* expiry of the shutdown only record (session.go:82, observer.go:177).     *)
THEOREM QuietShutdown == Spec => NoCommandAfterLoop
  <1>1. ASSUME [Next]_obsVars, phase \notin {"enable", "loop"}
        PROVE  commandID' = commandID
    <2>1. ASSUME NEW m \in Messages, Handle(m)
          PROVE  commandID' = commandID
      <3>1. ~FinishedFetched(m)
        BY <1>1 DEF FinishedFetched, FetchDecision, Commands
      <3> QED
        BY <2>1, <3>1 DEF Handle, ResponseReceived, LoadingFinished, FinishedOnly,
                FinishedRefused, LoadingFailed, OtherEvent, BodyReply, UnmatchedReply,
                EnableRejected
    <2> QED
      BY <1>1, <2>1 DEF Next, obsVars, RefusePolicy, EmitStart, SendEnable, DeadlinePasses,
                Tick, ExpireFetch, TickDone, Leave, Drained, InterruptFetch,
                InterruptResponse, ExpireDone, EmitStop, Returned
  <1>2. [Next]_obsVars => [phase \notin {"enable", "loop"} => commandID' = commandID]_obsVars
    BY <1>1
  <1> QED  BY <1>2, PTL DEF Spec, NoCommandAfterLoop

-----------------------------------------------------------------------------
(***************************************************************************)
(* No answer is lost.                                                      *)
(***************************************************************************)
Retained(id) ==
    \/ "sink" \in faults'
    \/ id = EnableID /\ phase = "loop" /\ phase' = "drain"
    \/ \E i \in 1..Len(log') : i > Len(log) /\ log'[i].id = id

LEMMA EmitRetains ==
    ASSUME log \in Seq(Records), NEW rec \in Records, NEW ok \in BOOLEAN, Emit(<<rec>>, ok)
    PROVE  Retained(rec.id)
  <1>1. CASE ok
    <2>1. log' = log \o <<rec>>
      BY <1>1 DEF Emit
    <2>2. Len(log) + 1 \in 1..Len(log') /\ Len(log) + 1 > Len(log) /\ log'[Len(log) + 1] = rec
      BY <2>1, OutcomeAppend DEF Logged
    <2> QED  BY <2>2 DEF Retained
  <1>2. CASE ~ok
    BY <1>2 DEF Emit, Retained
  <1> QED  BY <1>1, <1>2

LEMMA HandleRetains ==
    ASSUME Typed, NEW m \in Messages, Handle(m), NEW id \in unanswered \ unanswered'
    PROVE  Retained(id)
  <1>0. /\ unanswered \subseteq 1..commandID /\ commandID \in Nat
        /\ log \in Seq(Records) /\ pending \subseteq Fetches
    BY DEF Typed, TypeOK
  <1>1. CASE BodyReply(m)
    <2>1. m.bytes \in Nat
      BY <1>0, <1>1, MessageTyped DEF BodyReply
    <2>2. PICK q \in pending, won \in BOOLEAN :
            /\ m.id = q.id
            /\ Emit(<<Record("http_response", q.req, q.id, BodyStatus(m), m.bytes)>>, won)
      BY <1>1 DEF BodyReply
    <2>3. PICK rec \in Records : rec.id = q.id /\ Emit(<<rec>>, won)
      BY <1>0, <2>1, <2>2, OutcomeTyped, StatusTyped
    <2>4. id = q.id
      BY <1>1, <2>2 DEF BodyReply
    <2> QED  BY <1>0, <2>3, <2>4, EmitRetains
  <1>2. CASE UnmatchedReply(m)
    <2>1. PICK ok \in BOOLEAN : Emit(<<Record("cdp_reply", NoReq, m.id, "", m.bytes)>>, ok)
      BY <1>2 DEF UnmatchedReply, LateRecord
    <2>2. m.id \in Nat /\ m.bytes \in Nat /\ id = m.id
      BY <1>0, <1>2, MessageTyped DEF UnmatchedReply
    <2>3. PICK rec \in Records : rec.id = id /\ Emit(<<rec>>, ok)
      BY <2>1, <2>2, ReplyRecordTyped
    <2> QED  BY <1>0, <2>3, EmitRetains
  <1>3. CASE EnableRejected(m)
    <2>1. id = EnableID
      BY <1>3 DEF EnableRejected
    <2> QED  BY <1>3, <2>1 DEF EnableRejected, Commands, Retained
  <1>4. CASE ResponseReceived(m) \/ LoadingFinished(m) \/ LoadingFailed(m) \/ OtherEvent(m)
    BY <1>4 DEF ResponseReceived, LoadingFinished, FinishedOnly, FinishedRefused,
                FinishedFetched, LoadingFailed, OtherEvent
  <1> QED  BY <1>1, <1>2, <1>3, <1>4 DEF Handle

(* Every answer Chrome gives is on record once it is handled, whether it    *)
(* settled a fetch or came too late, unless the sink refused it; only the   *)
(* rejection of Network.enable becomes run()'s error (observer.go:78-92,    *)
(* session.go:132-134).                                                     *)
THEOREM AnswersKept == Spec => AnswersRetained
  <1>1. ASSUME Typed, [Next]_obsVars
        PROVE  \A id \in unanswered \ unanswered' : Retained(id)
    <2>1. ASSUME ~ \E m \in Messages : Handle(m)
          PROVE  unanswered \subseteq unanswered'
      BY <1>1, <2>1 DEF Next, obsVars, RefusePolicy, EmitStart, SendEnable, DeadlinePasses,
                Tick, ExpireFetch, TickDone, Leave, Drained, InterruptFetch,
                InterruptResponse, ExpireDone, EmitStop, Returned
    <2> QED  BY <1>1, <2>1, HandleRetains
  <1>2. Typed /\ [Next]_obsVars =>
          [\A id \in unanswered \ unanswered' :
             \/ "sink" \in faults'
             \/ id = EnableID /\ phase = "loop" /\ phase' = "drain"
             \/ \E i \in 1..Len(log') : i > Len(log) /\ log'[i].id = id]_obsVars
    BY <1>1 DEF Retained
  <1> QED  BY <1>2, InitTyped, NextTyped, PTL DEF Spec, AnswersRetained

-----------------------------------------------------------------------------
(***************************************************************************)
(* No awaited response is forgotten.                                       *)
(***************************************************************************)
(* A response the capture still waits for is tracked or being fetched.      *)
Open(r) == r \in responses \/ \E p \in pending : p.req = r

Followed == \A i \in Awaited : Closes(log[i].req, i) \/ Open(log[i].req)

(* Nothing is open before the capture or once its expiry is through.        *)
NothingLeft == phase \in {"start", "stop", "done"} => responses = {} /\ pending = {}

AwaitedInv == faults = {} => Followed /\ NothingLeft

Promise == "awaiting_loading_finished"
OutcomeKinds == {"http_response", "http_failed", "http_metadata"}

(* Every step does this to the log: a response it starts to wait for is     *)
(* open after it, and what it closes has its outcome among the new records. *)
FollowStep == \E recs \in Seq(Records) :
    /\ log' = log \o recs
    /\ \A j \in 1..Len(recs) : recs[j].status = Promise => Open(recs[j].req)'
    /\ \A r : Open(r) => \/ Open(r)'
                         \/ \E j \in 1..Len(recs) :
                                recs[j].req = r /\ recs[j].kind \in OutcomeKinds

LEMMA FollowNone ==
    ASSUME log \in Seq(Records), log' = log, \A r : Open(r) => Open(r)'
    PROVE  FollowStep
  <1>1. log' = log \o << >> /\ << >> \in Seq(Records) /\ Len(<< >>) = 0
    BY ConcatEmptySeq
  <1>2. \A j \in 1..Len(<< >>) : FALSE
    BY <1>1
  <1> QED  BY <1>1, <1>2 DEF FollowStep

LEMMA FollowOne ==
    ASSUME NEW rec \in Records, log' = log \o <<rec>>,
           rec.status = Promise => Open(rec.req)',
           \A r : Open(r) => Open(r)' \/ (rec.req = r /\ rec.kind \in OutcomeKinds)
    PROVE  FollowStep
  <1>1. <<rec>> \in Seq(Records) /\ Len(<<rec>>) = 1 /\ <<rec>>[1] = rec
    OBVIOUS
  <1>2. \A j \in 1..Len(<<rec>>) : <<rec>>[j] = rec
    BY <1>1
  <1>3. ASSUME NEW r, Open(r), ~Open(r)'
        PROVE  \E j \in 1..Len(<<rec>>) : <<rec>>[j].req = r /\ <<rec>>[j].kind \in OutcomeKinds
    <2>1. 1 \in 1..Len(<<rec>>) /\ <<rec>>[1].req = r /\ <<rec>>[1].kind \in OutcomeKinds
      BY <1>1, <1>3
    <2> QED  BY <2>1
  <1> QED  BY <1>1, <1>2, <1>3 DEF FollowStep

LEMMA RecordStatus ==
    ASSUME NEW k, NEW r, NEW i, NEW s, NEW b
    PROVE  Record(k, r, i, s, b).status = s
  BY DEF Record

(* The handlers, when nothing fails.                                        *)
LEMMA HandleFollows ==
    ASSUME Typed, NEW m \in Messages, Handle(m), faults' = {}
    PROVE  FollowStep
  <1>0. /\ unanswered \subseteq 1..commandID /\ commandID \in Nat
        /\ log \in Seq(Records) /\ pending \subseteq Fetches /\ responses \subseteq Requests
    BY DEF Typed, TypeOK
  <1>1. CASE ResponseReceived(m)
    <2> DEFINE rec == Record("http_metadata", m.req, 0, MetadataStatus(m), 0)
    <2>1. log' = log \o <<rec>> /\ pending' = pending
      BY <1>1 DEF ResponseReceived, Emit
    <2>2. rec \in Records
      BY <1>0, <1>1, MessageTyped, Named, RecordTyped, StatusTyped DEF ResponseReceived
    <2>3. rec.req = m.req /\ rec.status = MetadataStatus(m)
      BY RecordFields, RecordStatus
    <2>4. responses \subseteq responses'
      BY <1>1 DEF ResponseReceived
    <2>5. ASSUME MetadataStatus(m) = Promise PROVE m.req \in responses'
      BY <1>1, <2>5 DEF ResponseReceived, MetadataStatus, Promise
    <2> HIDE DEF rec
    <2> QED  BY <2>1, <2>2, <2>3, <2>4, <2>5, FollowOne DEF Open
  <1>2. CASE FinishedOnly(m)
    <2>1. log' = log \o <<FinishedRecord(m)>> /\ UNCHANGED <<pending, responses>>
      BY <1>2 DEF FinishedOnly, Emit
    <2>2. FinishedRecord(m) \in Records
      BY <1>0, <1>2, MessageTyped, FinishedRecordTyped DEF FinishedOnly
    <2>3. FinishedRecord(m).status # Promise
      BY DEF FinishedRecord, Record, Promise
    <2> QED  BY <2>1, <2>2, <2>3, FollowOne DEF Open
  <1>3. CASE FinishedRefused(m)
    <2> DEFINE fin == FinishedRecord(m)
               out == Record("http_response", m.req, 0, FetchDecision(m), 0)
    <2>1. /\ log' = log \o <<fin, out>> /\ pending' = pending
          /\ responses' = responses \ {m.req}
      BY <1>3 DEF FinishedRefused
    <2>2. m.req \in Requests /\ FetchDecision(m) \in Statuses
      BY <1>0, <1>3, MessageTyped, StatusTyped DEF FinishedRefused
    <2>3. fin \in Records /\ out \in Records
      BY <2>2, FinishedRecordTyped, UnfetchedRecordTyped
    <2>4. fin.status # Promise /\ out.status # Promise
      <3>1. FetchDecision(m) # Promise
        BY DEF FetchDecision, Promise
      <3> QED  BY <3>1 DEF FinishedRecord, Record, Promise
    <2>5. out.req = m.req /\ out.kind \in OutcomeKinds
      BY RecordFields DEF OutcomeKinds
    <2> HIDE DEF fin, out
    <2>6. /\ <<fin, out>> \in Seq(Records) /\ 2 \in 1..Len(<<fin, out>>) /\ <<fin, out>>[2] = out
          /\ \A j \in 1..Len(<<fin, out>>) : <<fin, out>>[j] \in {fin, out}
      BY <2>3
    <2>7. \A r : Open(r) => Open(r)' \/ r = m.req
      BY <2>1 DEF Open
    <2> QED  BY <2>1, <2>4, <2>5, <2>6, <2>7 DEF FollowStep
  <1>4. CASE FinishedFetched(m)
    <2> DEFINE f == [id |-> commandID + 1, req |-> m.req]
    <2>1. log' = log \o <<FinishedRecord(m)>>
      BY <1>4 DEF FinishedFetched, FinishedFirst
    <2>2. pending' = pending \cup {f} /\ responses' = responses \ {m.req}
      BY <1>4 DEF FinishedFetched
    <2>3. FinishedRecord(m) \in Records
      BY <1>0, <1>4, MessageTyped, FinishedRecordTyped DEF FinishedFetched
    <2>4. FinishedRecord(m).status # Promise
      BY DEF FinishedRecord, Record, Promise
    <2>5. f \in pending' /\ f.req = m.req
      BY <2>2
    <2> HIDE DEF f
    <2>6. \A r : Open(r) => Open(r)'
      BY <2>2, <2>5 DEF Open
    <2> QED  BY <2>1, <2>3, <2>4, <2>6, FollowOne
  <1>5. CASE LoadingFailed(m)
    <2> DEFINE rec == Record("http_failed", m.req, 0, "loading_failed", 0)
    <2>1. log' = log \o <<rec>> /\ pending' = pending /\ responses' = responses \ {m.req}
      BY <1>5 DEF LoadingFailed, Emit
    <2>2. rec \in Records
      BY <1>0, <1>5, MessageTyped, Named, RecordTyped DEF LoadingFailed
    <2>3. rec.req = m.req /\ rec.kind \in OutcomeKinds /\ rec.status # Promise
      BY RecordFields, RecordStatus DEF OutcomeKinds, Promise
    <2> HIDE DEF rec
    <2>4. \A r : Open(r) => Open(r)' \/ rec.req = r
      BY <2>1, <2>3 DEF Open
    <2> QED  BY <2>1, <2>2, <2>3, <2>4, FollowOne
  <1>6. CASE OtherEvent(m)
    <2> DEFINE rec == Record("cdp_event", NoReq, 0, "", 0)
    <2>1. log' = log \o <<rec>> /\ UNCHANGED <<pending, responses>>
      BY <1>6 DEF OtherEvent, Emit
    <2>2. rec \in Records /\ rec.status # Promise
      BY PlainRecordTyped DEF Record, Promise
    <2> HIDE DEF rec
    <2> QED  BY <2>1, <2>2, FollowOne DEF Open
  <1>7. CASE BodyReply(m)
    <2>1. PICK p \in pending :
            /\ log' = log \o <<Record("http_response", p.req, p.id, BodyStatus(m), m.bytes)>>
            /\ pending' = pending \ {p} /\ responses' = responses
      BY <1>7 DEF BodyReply, Settle, Emit
    <2> DEFINE rec == Record("http_response", p.req, p.id, BodyStatus(m), m.bytes)
    <2>2. m.bytes \in Nat
      BY <1>0, <1>7, MessageTyped DEF BodyReply
    <2>3. rec \in Records /\ rec.req = p.req /\ rec.kind = "http_response"
      BY <1>0, <2>2, OutcomeTyped, StatusTyped
    <2>4. rec.status # Promise
      <3>1. BodyStatus(m) # Promise
        BY DEF BodyStatus, Promise
      <3> QED  BY <3>1, RecordStatus
    <2>5. log' = log \o <<rec>>
      BY <2>1
    <2> HIDE DEF rec
    <2>6. \A r : Open(r) => Open(r)' \/ rec.req = r
      BY <2>1, <2>3 DEF Open
    <2> QED  BY <2>3, <2>4, <2>5, <2>6, FollowOne DEF OutcomeKinds
  <1>8. CASE UnmatchedReply(m)
    <2> DEFINE rec == Record("cdp_reply", NoReq, m.id, "", m.bytes)
    <2>1. log' = log \o <<rec>> /\ UNCHANGED <<pending, responses>>
      BY <1>8 DEF UnmatchedReply, LateRecord, Emit
    <2>2. rec \in Records
      BY <1>0, <1>8, MessageTyped, ReplyRecordTyped DEF UnmatchedReply
    <2>3. rec.status # Promise
      BY DEF Record, Promise
    <2> HIDE DEF rec
    <2> QED  BY <2>1, <2>2, <2>3, FollowOne DEF Open
  <1>9. CASE EnableRejected(m)
    BY <1>0, <1>9, FollowNone DEF EnableRejected, Open
  <1> QED
    BY <1>1, <1>2, <1>3, <1>4, <1>5, <1>6, <1>7, <1>8, <1>9 DEF Handle, LoadingFinished

(* Time, the shutdown and the ends of a capture, when nothing fails.        *)
LEMMA NextFollows ==
    ASSUME Typed, [Next]_obsVars, faults' = {}
    PROVE  FollowStep
  <1>0. log \in Seq(Records) /\ pending \subseteq Fetches /\ responses \subseteq Requests
    BY DEF Typed, TypeOK
  <1>1. CASE \/ RefusePolicy \/ SendEnable \/ Tick \/ TickDone \/ Leave \/ Drained \/ ExpireDone
             \/ Returned \/ UNCHANGED obsVars \/ \E p \in pending : DeadlinePasses(p)
    <2>1. UNCHANGED <<log, pending, responses>>
      BY <1>1 DEF RefusePolicy, SendEnable, Tick, TickDone, Leave, Drained, ExpireDone, Returned,
                  DeadlinePasses, obsVars
    <2> QED  BY <1>0, <2>1, FollowNone DEF Open
  <1>2. CASE EmitStart \/ EmitStop
    <2>1. PICK k \in {"capture_start", "capture_stop"} :
            log' = log \o <<Record(k, NoReq, 0, "", 0)>> /\ UNCHANGED <<pending, responses>>
      BY <1>2 DEF EmitStart, EmitStop, Emit
    <2> DEFINE rec == Record(k, NoReq, 0, "", 0)
    <2>2. rec \in Records /\ rec.status # Promise
      BY PlainRecordTyped DEF Record, Promise
    <2>3. log' = log \o <<rec>>
      BY <2>1
    <2> HIDE DEF rec
    <2> QED  BY <2>1, <2>2, <2>3, FollowOne DEF Open
  <1>3. ASSUME NEW p \in pending, ExpireFetch(p) \/ InterruptFetch(p)
        PROVE  FollowStep
    <2>1. PICK s \in {"body_timeout", "interrupted"} :
            /\ log' = log \o <<Record("http_response", p.req, p.id, s, 0)>>
            /\ pending' = pending \ {p} /\ responses' = responses
      BY <1>3 DEF ExpireFetch, InterruptFetch, TimeoutRecord, Emit
    <2> DEFINE rec == Record("http_response", p.req, p.id, s, 0)
    <2>2. rec \in Records /\ rec.req = p.req /\ rec.kind = "http_response"
      <3>1. p \in Fetches /\ s \in Statuses /\ 0 \in Nat
        BY <1>0, Named
      <3> QED  BY <3>1, OutcomeTyped
    <2>3. rec.status # Promise /\ log' = log \o <<rec>>
      BY <2>1, RecordStatus DEF Promise
    <2> HIDE DEF rec
    <2>4. \A r : Open(r) => Open(r)' \/ rec.req = r
      BY <2>1, <2>2 DEF Open
    <2> QED  BY <2>2, <2>3, <2>4, FollowOne DEF OutcomeKinds
  <1>4. ASSUME NEW q \in responses, InterruptResponse(q)
        PROVE  FollowStep
    <2> DEFINE rec == Record("http_response", q, 0, "loading_not_observed_before_stop", 0)
    <2>1. log' = log \o <<rec>> /\ pending' = pending /\ responses' = responses \ {q}
      BY <1>4 DEF InterruptResponse, Emit
    <2>2. rec \in Records
      BY <1>0, Named, UnfetchedRecordTyped
    <2>3. rec.req = q /\ rec.kind = "http_response" /\ rec.status # Promise
      BY RecordFields, RecordStatus DEF Promise
    <2> HIDE DEF rec
    <2>4. \A r : Open(r) => Open(r)' \/ rec.req = r
      BY <2>1, <2>3 DEF Open
    <2> QED  BY <2>1, <2>2, <2>3, <2>4, FollowOne DEF OutcomeKinds
  <1> QED  BY <1>1, <1>2, <1>3, <1>4, HandleFollows DEF Next

LEMMA FollowedStep ==
    ASSUME log \in Seq(Records), Followed, FollowStep
    PROVE  Followed'
  <1>1. PICK recs \in Seq(Records) :
          /\ log' = log \o recs
          /\ \A j \in 1..Len(recs) : recs[j].status = Promise => Open(recs[j].req)'
          /\ \A r : Open(r) => \/ Open(r)'
                               \/ \E j \in 1..Len(recs) :
                                      recs[j].req = r /\ recs[j].kind \in OutcomeKinds
    BY DEF FollowStep
  <1>2. /\ Len(log) \in Nat /\ Len(recs) \in Nat /\ Len(log') = Len(log) + Len(recs)
        /\ \A i \in Logged : i \in Logged' /\ log'[i] = log[i]
        /\ \A j \in 1..Len(recs) : Len(log) + j \in Logged' /\ log'[Len(log) + j] = recs[j]
    BY <1>1, ConcatProperties, LenProperties DEF Logged
  <1>3. ASSUME NEW i \in Logged', i \notin Logged
        PROVE  \E j \in 1..Len(recs) : i = Len(log) + j
    <2>1. i - Len(log) \in 1..Len(recs) /\ i = Len(log) + (i - Len(log))
      BY <1>2, <1>3 DEF Logged
    <2> QED  BY <2>1
  <1>4. ASSUME NEW i \in Logged', log'[i].status = Promise
        PROVE  Closes(log[i].req, i)' \/ Open(log[i].req)'
    <2>1. CASE i \notin Logged
      <3>1. PICK j \in 1..Len(recs) : i = Len(log) + j
        BY <1>3, <2>1
      <3> QED  BY <1>1, <1>2, <1>4, <3>1
    <2>2. CASE i \in Logged /\ Closes(log[i].req, i)
      <3>1. PICK j \in Logged : j > i /\ log[j].req = log[i].req /\ log[j].kind \in OutcomeKinds
        BY <2>2 DEF Closes, OutcomeKinds
      <3>2. j \in Logged' /\ log'[j].req = log'[i].req /\ log'[j].kind \in OutcomeKinds
        BY <1>2, <2>2, <3>1
      <3> QED  BY <3>1, <3>2 DEF Closes, OutcomeKinds
    <2>3. CASE i \in Logged /\ Open(log[i].req)
      <3>1. CASE Open(log[i].req)'
        BY <1>2, <2>3, <3>1
      <3>2. ASSUME NEW j \in 1..Len(recs), recs[j].req = log[i].req,
                   recs[j].kind \in OutcomeKinds
            PROVE  Closes(log[i].req, i)'
        <4>1. i <= Len(log) /\ i \in Nat
          BY <1>2, <2>3 DEF Logged
        <4>2. Len(log) + j > i
          BY <1>2, <4>1
        <4>3. log'[Len(log) + j].req = log'[i].req /\ log'[Len(log) + j].kind \in OutcomeKinds
          BY <1>2, <2>3, <3>2
        <4> QED  BY <1>2, <4>2, <4>3 DEF Closes, OutcomeKinds
      <3> QED  BY <1>1, <1>2, <2>3, <3>1, <3>2
    <2>4. i \in Logged => Closes(log[i].req, i) \/ Open(log[i].req)
      BY <1>2, <1>4 DEF Followed, Awaited, Promise
    <2> QED  BY <2>1, <2>2, <2>3, <2>4
  <1> QED  BY <1>4 DEF Followed, Awaited, Promise

LEMMA NothingLeftStep ==
    ASSUME [Next]_obsVars, NothingLeft, faults' = {}
    PROVE  NothingLeft'
  <1>1. ASSUME NEW m \in Messages, Handle(m)
        PROVE  phase' \notin {"start", "stop", "done"}
    BY <1>1 DEF Handle, ResponseReceived, LoadingFinished, FinishedOnly, FinishedRefused,
                FinishedFetched, LoadingFailed, OtherEvent, BodyReply, UnmatchedReply,
                EnableRejected, OnResult
  <1>2. ASSUME NEW p \in pending, DeadlinePasses(p) \/ ExpireFetch(p) \/ InterruptFetch(p)
        PROVE  phase' \notin {"start", "stop", "done"}
    BY <1>2 DEF DeadlinePasses, ExpireFetch, InterruptFetch, Emit, OnResult
  <1>3. ASSUME NEW r \in responses, InterruptResponse(r)
        PROVE  phase' \notin {"start", "stop", "done"}
    BY <1>3 DEF InterruptResponse, Emit
  <1>4. CASE EmitStart \/ SendEnable \/ Tick \/ TickDone \/ Leave \/ Drained
    <2>1. phase' \notin {"start", "stop", "done"}
      BY <1>4 DEF EmitStart, SendEnable, Tick, TickDone, Leave, Drained
    <2> QED  BY <2>1 DEF NothingLeft
  <1>5. CASE RefusePolicy \/ ExpireDone \/ EmitStop \/ Returned \/ UNCHANGED obsVars
    BY <1>5 DEF NothingLeft, RefusePolicy, ExpireDone, AllExpired, EmitStop, Returned, obsVars
  <1> QED  BY <1>1, <1>2, <1>3, <1>4, <1>5 DEF Next, NothingLeft

(* While neither the sink nor the socket fails, a response recorded as      *)
(* awaiting its end is tracked, being fetched, or closed by a later record  *)
(* of its request, and by the end of the capture it is closed, for any      *)
(* traffic, timing and number of requests (observer.go:143-197, 233-256).   *)
THEOREM AwaitedSafe == Spec => []AwaitedAccounted
  <1>1. Init => Typed /\ AwaitedInv
    <2>1. Init => AwaitedInv
      BY DEF Init, AwaitedInv, Followed, Awaited, Logged, NothingLeft
    <2> QED  BY <2>1, InitTyped
  <1>2. ASSUME Typed, AwaitedInv, [Next]_obsVars
        PROVE  AwaitedInv'
    <2>1. SUFFICES ASSUME faults' = {} PROVE Followed' /\ NothingLeft'
      BY DEF AwaitedInv
    <2>2. Followed /\ NothingLeft
      BY <1>2, <2>1, FaultsGrow DEF AwaitedInv
    <2>3. log \in Seq(Records)
      BY <1>2 DEF Typed, TypeOK
    <2> QED  BY <1>2, <2>1, <2>2, <2>3, NextFollows, FollowedStep, NothingLeftStep
  <1>3. AwaitedInv => AwaitedAccounted
    BY DEF AwaitedInv, AwaitedAccounted, Followed, NothingLeft, Open
  <1> QED  BY <1>1, <1>2, <1>3, NextTyped, PTL DEF Spec
=============================================================================
