------------------------------ MODULE Observer ------------------------------
(***************************************************************************)
(* The capture observer (internal/capture/observer.go) as the event loop   *)
(* of internal/capture/session.go drives it: which HTTP responses it       *)
(* tracks, which bodies it fetches over CDP, what it reserves of the body  *)
(* budget, and which records it hands to its sink, in order.               *)
(*                                                                         *)
(* One goroutine owns this state, so a call of handle is one step; expire, *)
(* which emits one record per request in map order, takes one step per     *)
(* record.  The sink may refuse any record (a full disk) and the socket    *)
(* may refuse any command.  Session.tla adds the other goroutines.         *)
(***************************************************************************)
EXTENDS Naturals, Sequences, FiniteSets

CONSTANTS
    Requests,       \* CDP request identifiers
    NoReq,          \* a record that belongs to no request
    Policies,       \* the BodyPolicy values a capture may be given
    MaxBudget,      \* the largest body budget run() accepts (1<<30)
    MaxTracked,     \* responses tracked at once (4096 in the code)
    BodySizes,      \* decoded lengths of the bodies Chrome may return
    Traffic,        \* the events the tab may produce
    MaxMessages     \* bound: messages handled in one capture

EventMessages ==
    [type : {"other"}]
      \cup [type : {"metadata"}, req : Requests, selected : BOOLEAN]
      \cup [type : {"finished"}, req : Requests, encoded : {"invalid", "fits", "over"}]
      \cup [type : {"failed"}, req : Requests]

ASSUME PolicyAssumption ==
    Policies \subseteq [maxBody : Nat, maxTotal : Nat, httpBodies : BOOLEAN]

ASSUME TrafficAssumption ==
    /\ NoReq \notin Requests
    /\ MaxTracked \in Nat
    /\ MaxBudget \in Nat
    /\ MaxMessages \in Nat
    /\ BodySizes \subseteq Nat
    /\ Traffic \subseteq EventMessages

VARIABLES
    phase,       \* where run() is: see Phases
    policy,      \* BodyPolicy, fixed for the capture; httpBodies = ~DisableHTTPBodies
    responses,   \* requests whose metadata is tracked (observer.responses)
    pending,     \* body fetches in flight, [id, req] (observer.pending)
    overdue,     \* those of pending past their 30 s deadline
    bodyBytes,   \* decoded body bytes counted against the budget
    commandID,   \* the last CDP command number handed out
    log,         \* the records the sink accepted
    unanswered,  \* commands on the wire that Chrome has not answered
    handled,     \* messages handled so far
    fetched,     \* history: every [id, req] a getResponseBody was sent for
    overshoot,   \* history: bytes by which stored bodies exceeded maxBody
    faults       \* history: which of {"sink", "send"} ever failed

obsVars == <<phase, policy, responses, pending, overdue, bodyBytes, commandID,
             log, unanswered, handled, fetched, overshoot, faults>>

Phases == {"start", "enable", "loop", "tick", "drain", "expire", "stop", "done"}
Statuses == {"", "disabled", "not_selected", "awaiting_loading_finished", "metadata_limit",
             "invalid_loading_finished", "interrupted", "encoded_size_limit",
             "body_budget_limit", "loading_failed", "body_unavailable",
             "invalid_body_result", "invalid_body_encoding", "stored",
             "stored_over_limit", "body_timeout", "loading_not_observed_before_stop"}
Kinds == {"capture_start", "cdp_event", "http_metadata", "http_finished", "http_failed",
          "http_response", "cdp_reply", "capture_stop"}
Records == [kind : Kinds, req : Requests \cup {NoReq}, id : Nat, status : Statuses, bytes : Nat]
Fetches == [id : Nat \ {0}, req : Requests]

Record(kind, req, id, status, bytes) ==
    [kind |-> kind, req |-> req, id |-> id, status |-> status, bytes |-> bytes]

TypeOK ==
    /\ phase \in Phases
    /\ policy \in Policies
    /\ responses \subseteq Requests /\ Cardinality(responses) <= MaxTracked
    /\ pending \subseteq Fetches
    /\ overdue \subseteq pending
    /\ bodyBytes \in Nat
    /\ commandID \in Nat
    /\ log \in Seq(Records)
    /\ unanswered \subseteq 1..commandID
    /\ handled \in 0..MaxMessages
    /\ fetched \subseteq Fetches
    /\ overshoot \in Nat
    /\ faults \subseteq {"sink", "send"}

(***************************************************************************)
(* Replies.  Chrome answers a command once, with an error, with a result   *)
(* that is no body (malformed, or undecodable base64), or with a body.     *)
(* Network.enable is command 1.                                            *)
(***************************************************************************)
EnableID == 1

ReplyMessages(id) ==
    [type : {"reply"}, id : {id}, result : {"error", "malformed", "undecodable"}, bytes : {0}]
      \cup [type : {"reply"}, id : {id}, result : {"body"}, bytes : BodySizes]

EnableReplies ==
    [type : {"reply"}, id : {EnableID}, result : {"error", "malformed"}, bytes : {0}]

Replies(id) == IF id = EnableID THEN EnableReplies ELSE ReplyMessages(id)

-----------------------------------------------------------------------------
(* emit: the sink accepts the records (ok), or it refuses and nothing is    *)
(* recorded.                                                                *)
Emit(recs, ok) ==
    /\ log' = IF ok THEN log \o recs ELSE log
    /\ faults' = IF ok THEN faults ELSE faults \cup {"sink"}

(* An error leaves the loop for the deferred shutdown; the shutdown itself  *)
(* joins errors and carries on.                                             *)
OnResult(ok) ==
    phase' = IF phase \in {"loop", "tick"} /\ ~ok THEN "drain" ELSE phase

Commands == phase = "loop"      \* handle's parameter: may it send commands?

-----------------------------------------------------------------------------
(***************************************************************************)
(* Network.responseReceived: decide whether the body is wanted, track it.  *)
(***************************************************************************)
\* mutant: the limit is tested one too late
TrackAtLimit == Cardinality(responses) <= MaxTracked
MayTrack == Cardinality(responses) < MaxTracked

MetadataStatus(m) ==
    IF ~policy.httpBodies THEN "disabled"
    ELSE IF ~m.selected THEN "not_selected"
    ELSE IF MayTrack THEN "awaiting_loading_finished" ELSE "metadata_limit"

ResponseReceived(m) == \E ok \in BOOLEAN :
    /\ m.type = "metadata"
    /\ responses' = IF MetadataStatus(m) = "awaiting_loading_finished" /\ MayTrack
                    THEN responses \cup {m.req} ELSE responses
    /\ Emit(<<Record("http_metadata", m.req, 0, MetadataStatus(m), 0)>>, ok)
    /\ OnResult(ok)
    /\ UNCHANGED <<policy, pending, overdue, bodyBytes, commandID, unanswered,
                   fetched, overshoot>>

(***************************************************************************)
(* Network.loadingFinished: persist it, then fetch the tracked body unless *)
(* a limit refuses it.  Every fetch in flight reserves maxBody bytes.  *)
(***************************************************************************)
\* mutant: the fetch about to be sent reserves nothing
ReserveInFlight == bodyBytes + Cardinality(pending) * policy.maxBody
Reservation == bodyBytes + (Cardinality(pending) + 1) * policy.maxBody

\* mutant: the shutdown drain may still send commands
FetchAlways(m) ==
    IF m.encoded = "invalid" THEN "invalid_loading_finished"
    ELSE IF m.encoded = "over" THEN "encoded_size_limit"
    ELSE IF Reservation > policy.maxTotal THEN "body_budget_limit"
    ELSE "fetch"
FetchDecision(m) ==
    IF m.encoded = "invalid" THEN "invalid_loading_finished"
    ELSE IF ~Commands THEN "interrupted"
    ELSE IF m.encoded = "over" THEN "encoded_size_limit"
    ELSE IF Reservation > policy.maxTotal THEN "body_budget_limit"
    ELSE "fetch"

FinishedRecord(m) == Record("http_finished", m.req, 0, "", 0)

(* what is on disk before the command is sent *)
FinishedFirst(m) == <<FinishedRecord(m)>>

(* http_finished is refused, or nothing waits for this request *)
FinishedOnly(m) == \E ok \in BOOLEAN :
    /\ m.type = "finished"
    /\ ok => m.req \notin responses
    /\ Emit(<<FinishedRecord(m)>>, ok)
    /\ OnResult(ok)
    /\ UNCHANGED <<policy, responses, pending, overdue, bodyBytes, commandID,
                   unanswered, fetched, overshoot>>

(* the body is not fetched; the response is recorded with the reason *)
FinishedRefused(m) == \E ok \in BOOLEAN :
    /\ m.type = "finished"
    /\ m.req \in responses
    /\ FetchDecision(m) # "fetch"
    /\ responses' = responses \ {m.req}
    /\ log' = log \o IF ok THEN <<FinishedRecord(m),
                                  Record("http_response", m.req, 0, FetchDecision(m), 0)>>
                           ELSE <<FinishedRecord(m)>>
    /\ faults' = IF ok THEN faults ELSE faults \cup {"sink"}
    /\ OnResult(ok)
    /\ UNCHANGED <<policy, pending, overdue, bodyBytes, commandID, unanswered,
                   fetched, overshoot>>

(* the body is fetched; a command number is spent even when the send fails, *)
(* and then the response, tracked no longer, is not pending either          *)
FinishedFetched(m) == \E sent \in BOOLEAN :
    LET fetch == IF sent THEN {[id |-> commandID + 1, req |-> m.req]} ELSE {} IN
    /\ m.type = "finished"
    /\ m.req \in responses
    /\ FetchDecision(m) = "fetch"
    /\ responses' = responses \ {m.req}
    /\ commandID' = commandID + 1
    /\ log' = log \o FinishedFirst(m)
    /\ pending' = pending \cup fetch
    /\ fetched' = fetched \cup fetch
    /\ unanswered' = unanswered \cup {f.id : f \in fetch}
    /\ faults' = IF sent THEN faults ELSE faults \cup {"send"}
    /\ OnResult(sent)
    /\ UNCHANGED <<policy, overdue, bodyBytes, overshoot>>

LoadingFinished(m) == FinishedOnly(m) \/ FinishedRefused(m) \/ FinishedFetched(m)

(* Network.loadingFailed: nothing is left to fetch *)
LoadingFailed(m) == \E ok \in BOOLEAN :
    /\ m.type = "failed"
    /\ responses' = responses \ {m.req}
    /\ Emit(<<Record("http_failed", m.req, 0, "loading_failed", 0)>>, ok)
    /\ OnResult(ok)
    /\ UNCHANGED <<policy, pending, overdue, bodyBytes, commandID, unanswered,
                   fetched, overshoot>>

(* every other event, WebSocket frames and undecodable ones included, is    *)
(* one record                                                               *)
OtherEvent(m) == \E ok \in BOOLEAN :
    /\ m.type = "other"
    /\ Emit(<<Record("cdp_event", NoReq, 0, "", 0)>>, ok)
    /\ OnResult(ok)
    /\ UNCHANGED <<policy, responses, pending, overdue, bodyBytes, commandID,
                   unanswered, fetched, overshoot>>

-----------------------------------------------------------------------------
(***************************************************************************)
(* Command replies.  The fetch stops being pending before its body is      *)
(* decoded and recorded; a reply to no pending fetch (Network.enable, or a *)
(* body that outlived its timeout) is retained as a cdp_reply.             *)
(***************************************************************************)
BodyStatus(m) ==
    IF m.result = "error" THEN "body_unavailable"
    ELSE IF m.result = "malformed" THEN "invalid_body_result"
    ELSE IF m.result = "undecodable" THEN "invalid_body_encoding"
    ELSE IF m.bytes > policy.maxBody THEN "stored_over_limit"
    ELSE "stored"

Excess(n) == IF n > policy.maxBody THEN n - policy.maxBody ELSE 0

\* mutant: a fetch stays pending after its answer
KeepFetch(p) == pending
Settle(p) == pending \ {p}

BodyReply(m) == \E p \in pending, ok \in BOOLEAN :
    /\ m.type = "reply"
    /\ m.id = p.id
    /\ pending' = Settle(p)
    /\ overdue' = overdue \ {p}
    /\ bodyBytes' = bodyBytes + m.bytes
    /\ overshoot' = overshoot + Excess(m.bytes)
    /\ unanswered' = unanswered \ {m.id}
    /\ Emit(<<Record("http_response", p.req, p.id, BodyStatus(m), m.bytes)>>, ok)
    /\ OnResult(ok)
    /\ UNCHANGED <<policy, responses, commandID, fetched>>

\* mutant: a reply nobody waits for is dropped
DropLate(m) == << >>
LateRecord(m) == <<Record("cdp_reply", NoReq, m.id, "", m.bytes)>>

UnmatchedReply(m) == \E ok \in BOOLEAN :
    /\ m.type = "reply"
    /\ \A p \in pending : p.id # m.id
    /\ ~(m.id = EnableID /\ m.result = "error" /\ Commands)
    /\ unanswered' = unanswered \ {m.id}
    /\ Emit(LateRecord(m), ok)
    /\ OnResult(ok)
    /\ UNCHANGED <<policy, responses, pending, overdue, bodyBytes, commandID,
                   fetched, overshoot>>

(* run() itself looks at the reply to Network.enable first, and an error    *)
(* ends the loop before handle sees the message                             *)
EnableRejected(m) ==
    /\ m.type = "reply"
    /\ m.id = EnableID /\ m.result = "error" /\ Commands
    /\ phase' = "drain"
    /\ unanswered' = unanswered \ {m.id}
    /\ UNCHANGED <<policy, responses, pending, overdue, bodyBytes, commandID, log,
                   fetched, overshoot, faults>>

Messages == Traffic \cup UNION {Replies(id) : id \in unanswered}

Handle(m) ==
    /\ phase \in {"loop", "drain"}
    /\ handled < MaxMessages
    /\ handled' = handled + 1
    /\ \/ ResponseReceived(m)
       \/ LoadingFinished(m)
       \/ LoadingFailed(m)
       \/ OtherEvent(m)
       \/ BodyReply(m)
       \/ UnmatchedReply(m)
       \/ EnableRejected(m)

-----------------------------------------------------------------------------
(***************************************************************************)
(* Time and expiry.  A fetch may become overdue at any moment; a tick of   *)
(* the loop's timer settles all that are, one record each.  A record that  *)
(* the sink refuses leaves its fetch, and the rest, pending.               *)
(***************************************************************************)
DeadlinePasses(p) ==
    /\ phase = "loop"
    /\ p \in pending \ overdue
    /\ overdue' = overdue \cup {p}
    /\ UNCHANGED <<phase, policy, responses, pending, bodyBytes, commandID, log,
                   unanswered, handled, fetched, overshoot, faults>>

Tick ==
    /\ phase = "loop"
    /\ overdue # {}
    /\ phase' = "tick"
    /\ UNCHANGED <<policy, responses, pending, overdue, bodyBytes, commandID, log,
                   unanswered, handled, fetched, overshoot, faults>>

\* mutant: an overdue fetch is only forgotten
ForgetFetch(p) == << >>
TimeoutRecord(p) == <<Record("http_response", p.req, p.id, "body_timeout", 0)>>

ExpireFetch(p) == \E ok \in BOOLEAN :
    /\ phase = "tick"
    /\ p \in overdue
    /\ pending' = IF ok THEN pending \ {p} ELSE pending
    /\ overdue' = IF ok THEN overdue \ {p} ELSE overdue
    /\ Emit(TimeoutRecord(p), ok)
    /\ OnResult(ok)
    /\ UNCHANGED <<policy, responses, bodyBytes, commandID, unanswered, handled,
                   fetched, overshoot>>

TickDone ==
    /\ phase = "tick"
    /\ overdue = {}
    /\ phase' = "loop"
    /\ UNCHANGED <<policy, responses, pending, overdue, bodyBytes, commandID, log,
                   unanswered, handled, fetched, overshoot, faults>>

-----------------------------------------------------------------------------
(***************************************************************************)
(* The life of a capture, as run() frames it.                              *)
(***************************************************************************)
ValidPolicy ==
    /\ policy.maxBody > 0
    /\ policy.maxTotal >= policy.maxBody
    /\ policy.maxTotal <= MaxBudget

RefusePolicy ==
    /\ phase = "start"
    /\ ~ValidPolicy
    /\ phase' = "done"
    /\ UNCHANGED <<policy, responses, pending, overdue, bodyBytes, commandID, log,
                   unanswered, handled, fetched, overshoot, faults>>

EmitStart == \E ok \in BOOLEAN :
    /\ phase = "start"
    /\ ValidPolicy
    /\ phase' = IF ok THEN "enable" ELSE "drain"
    /\ Emit(<<Record("capture_start", NoReq, 0, "", 0)>>, ok)
    /\ UNCHANGED <<policy, responses, pending, overdue, bodyBytes, commandID,
                   unanswered, handled, fetched, overshoot>>

SendEnable == \E sent \in BOOLEAN :
    /\ phase = "enable"
    /\ commandID' = commandID + 1
    /\ phase' = IF sent THEN "loop" ELSE "drain"
    /\ unanswered' = IF sent THEN unanswered \cup {commandID + 1} ELSE unanswered
    /\ faults' = IF sent THEN faults ELSE faults \cup {"send"}
    /\ UNCHANGED <<policy, responses, pending, overdue, bodyBytes, log, handled,
                   fetched, overshoot>>

(* the loop returns: cancelled, disconnected, or Network.enable timed out   *)
Leave ==
    /\ phase = "loop"
    /\ phase' = "drain"
    /\ UNCHANGED <<policy, responses, pending, overdue, bodyBytes, commandID, log,
                   unanswered, handled, fetched, overshoot, faults>>

(* every packet read is handled and both goroutines are joined              *)
Drained ==
    /\ phase = "drain"
    /\ phase' = "expire"
    /\ UNCHANGED <<policy, responses, pending, overdue, bodyBytes, commandID, log,
                   unanswered, handled, fetched, overshoot, faults>>

(* expire(now, all): what is left is recorded, fetches first; the first     *)
(* record the sink refuses ends it                                          *)
InterruptFetch(p) == \E ok \in BOOLEAN :
    /\ phase = "expire"
    /\ p \in pending
    /\ pending' = IF ok THEN pending \ {p} ELSE pending
    /\ overdue' = IF ok THEN overdue \ {p} ELSE overdue
    /\ phase' = IF ok THEN "expire" ELSE "stop"
    /\ Emit(<<Record("http_response", p.req, p.id, "interrupted", 0)>>, ok)
    /\ UNCHANGED <<policy, responses, bodyBytes, commandID, unanswered, handled,
                   fetched, overshoot>>

InterruptResponse(r) == \E ok \in BOOLEAN :
    /\ phase = "expire"
    /\ pending = {}
    /\ r \in responses
    /\ responses' = IF ok THEN responses \ {r} ELSE responses
    /\ phase' = IF ok THEN "expire" ELSE "stop"
    /\ Emit(<<Record("http_response", r, 0, "loading_not_observed_before_stop", 0)>>, ok)
    /\ UNCHANGED <<policy, pending, overdue, bodyBytes, commandID, unanswered, handled,
                   fetched, overshoot>>

\* mutant: shutdown expires the fetches and forgets the tracked responses
FetchesExpired == pending = {}
AllExpired == pending = {} /\ responses = {}

ExpireDone ==
    /\ phase = "expire"
    /\ AllExpired
    /\ phase' = "stop"
    /\ UNCHANGED <<policy, responses, pending, overdue, bodyBytes, commandID, log,
                   unanswered, handled, fetched, overshoot, faults>>

EmitStop == \E ok \in BOOLEAN :
    /\ phase = "stop"
    /\ phase' = "done"
    /\ Emit(<<Record("capture_stop", NoReq, 0, "", 0)>>, ok)
    /\ UNCHANGED <<policy, responses, pending, overdue, bodyBytes, commandID,
                   unanswered, handled, fetched, overshoot>>

Returned == phase = "done" /\ UNCHANGED obsVars

Init ==
    /\ phase = "start"
    /\ policy \in Policies
    /\ responses = {}
    /\ pending = {}
    /\ overdue = {}
    /\ bodyBytes = 0
    /\ commandID = 0
    /\ log = << >>
    /\ unanswered = {}
    /\ handled = 0
    /\ fetched = {}
    /\ overshoot = 0
    /\ faults = {}

Next ==
    \/ RefusePolicy
    \/ EmitStart
    \/ SendEnable
    \/ \E m \in Messages : Handle(m)
    \/ \E p \in pending : DeadlinePasses(p) \/ ExpireFetch(p) \/ InterruptFetch(p)
    \/ Tick
    \/ TickDone
    \/ Leave
    \/ Drained
    \/ \E r \in responses : InterruptResponse(r)
    \/ ExpireDone
    \/ EmitStop
    \/ Returned

Spec == Init /\ [][Next]_obsVars

-----------------------------------------------------------------------------
(***************************************************************************)
(* Properties                                                              *)
(***************************************************************************)
Logged == 1..Len(log)

(* The budget is never promised twice: the bytes already stored, plus a     *)
(* full maxBody for every fetch in flight, stay within maxTotal, except by  *)
(* the bytes Chrome returned beyond maxBody in one body                     *)
(* (observer.go:181, docs/phase1-capture.md:49).                            *)
BudgetReserved == bodyBytes + Cardinality(pending) * policy.maxBody <= policy.maxTotal + overshoot

(* A body command has at most one http_response record, whatever the order  *)
(* of its answer, its timeout and the shutdown (observer.go:79-82, 233-245).*)
OneOutcomePerFetch == \A i, j \in Logged :
    (/\ log[i].kind = "http_response"
     /\ log[j].kind = "http_response"
     /\ log[i].id # 0
     /\ log[i].id = log[j].id) => i = j

(* Unless the sink refused a record, a fetch that is no longer in flight    *)
(* left its http_response: no answer, timeout or shutdown loses one.        *)
FetchAccounted == "sink" \notin faults =>
    \A f \in fetched \ pending :
        \E i \in Logged : /\ log[i].kind = "http_response"
                          /\ log[i].id = f.id
                          /\ log[i].req = f.req

(* The outcome of a response recorded as awaiting_loading_finished: a later *)
(* record of the same request that closes or supersedes it.                 *)
Closes(r, i) == \E j \in Logged :
    /\ j > i
    /\ log[j].req = r
    /\ log[j].kind \in {"http_response", "http_failed", "http_metadata"}

Awaited == {i \in Logged : log[i].status = "awaiting_loading_finished"}

(* While nothing failed, a response the capture said it would wait for is   *)
(* still tracked, is being fetched, or has its outcome on record; once the  *)
(* capture is over only the record counts.                                  *)
AwaitedAccounted == faults = {} =>
    \A i \in Awaited :
        \/ Closes(log[i].req, i)
        \/ /\ phase # "done"
           /\ \/ log[i].req \in responses
              \/ \E p \in pending : p.req = log[i].req

(* With --http-bodies=false no body is ever requested and no response is    *)
(* tracked (observer.go:148-151).                                           *)
DisabledNeverFetches == ~policy.httpBodies => fetched = {} /\ responses = {}

(* Shutdown only records: no command leaves after the loop was left         *)
(* (session.go:82, observer.go:177).                                        *)
NoCommandAfterLoop == [][phase \notin {"enable", "loop"} => commandID' = commandID]_obsVars

(* Every answer Chrome gives is on record once it is handled, matched or    *)
(* late, unless the sink refuses it (observer.go:83); only the rejection of *)
(* Network.enable is turned into the error of run() instead.                *)
AnswersRetained == [][\A id \in unanswered \ unanswered' :
    \/ "sink" \in faults'
    \/ id = EnableID /\ phase = "loop" /\ phase' = "drain"
    \/ \E i \in 1..Len(log') : i > Len(log) /\ log'[i].id = id]_obsVars
=============================================================================
