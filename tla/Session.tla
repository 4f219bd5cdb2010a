------------------------------- MODULE Session -------------------------------
(***************************************************************************)
(* One capture session: run() of internal/capture/session.go.  Three       *)
(* goroutines share a cancellable context, a socket, a bounded channel of  *)
(* packets and a one-place channel for the result of closing the socket:   *)
(*                                                                         *)
(*   - the reader reads messages and hands each over, errors included;     *)
(*   - the watcher closes the socket once the context is cancelled, since  *)
(*     Read and Write ignore the context;                                  *)
(*   - the loop drives the observer (module Observer, whose state this     *)
(*     module shares) and, when it leaves, cancels, drains the channel,    *)
(*     joins the others, expires what is unfinished and records            *)
(*     capture_stop.                                                       *)
(*                                                                         *)
(* The environment is the user (who may cancel), the tab (which may answer,*)
(* send events, or go away), the disk behind the sink, and time.           *)
(***************************************************************************)
EXTENDS Naturals, Sequences, FiniteSets

CONSTANTS Requests, NoReq, Policies, MaxBudget, MaxTracked, BodySizes, Traffic, MaxMessages,
    PacketCap           \* capacity of the packets channel (64 in the code)

ASSUME PacketCapAssumption == PacketCap \in Nat \ {0}

VARIABLES
    phase, policy, responses, pending, overdue, bodyBytes, commandID, log, unanswered,
    handled, fetched, overshoot, faults,
    caller,         \* has the user cancelled the caller's context?
    ctxDone,        \* is run()'s derived context cancelled?
    conn,           \* the socket: "open" or "closed"
    peer,           \* the tab behind it: "up" or "gone"
    reader,         \* the reader goroutine
    hand,           \* the packet it holds
    packets,        \* the channel
    watcher,        \* the watcher goroutine
    closeResult,    \* the channel the watcher reports on
    enabled,        \* was Network.enable answered?
    enableLate,     \* has its 10 s deadline passed?
    errs,           \* the errors joined into run()'s result; none means nil
    nread,          \* messages read
    readEnd         \* history: why the read that ended the reader failed

O == INSTANCE Observer

(* what the instance assumes of the constants it shares                     *)
ASSUME SharedPolicyAssumption ==
    Policies \subseteq [maxBody : Nat, maxTotal : Nat, httpBodies : BOOLEAN]

ASSUME SharedTrafficAssumption ==
    /\ NoReq \notin Requests
    /\ MaxTracked \in Nat
    /\ MaxBudget \in Nat
    /\ MaxMessages \in Nat
    /\ BodySizes \subseteq Nat
    /\ Traffic \subseteq O!EventMessages

sessVars == <<caller, ctxDone, conn, peer, reader, hand, packets, watcher, closeResult,
              enabled, enableLate, errs, nread, readEnd>>
observer == <<phase, policy, responses, pending, overdue, bodyBytes, commandID, log,
              unanswered, handled, fetched, overshoot, faults>>
vars == <<observer, sessVars>>

NoPacket == [type |-> "none"]
ErrorPacket(eof) == [type |-> "error", eof |-> eof]
IsError(p) == p.type = "error"
ReadEnds == {"none", "closed", "gone", "frame"}
Errors == {"budgets", "sink", "send", "enable_rejected", "enable_timeout", "disconnected",
           "read_error", "reader_ended", "close_error"}

SessionTypeOK ==
    /\ O!TypeOK
    /\ caller \in BOOLEAN /\ ctxDone \in BOOLEAN
    /\ conn \in {"open", "closed"} /\ peer \in {"up", "gone"}
    /\ reader \in {"idle", "reading", "handing", "done"}
    /\ watcher \in {"idle", "waiting", "closing", "done"}
    /\ closeResult \in {"empty", "ok", "error", "taken"}
    /\ Len(packets) <= PacketCap
    /\ enabled \in BOOLEAN /\ enableLate \in BOOLEAN
    /\ errs \subseteq Errors
    /\ nread \in 0..MaxMessages
    /\ readEnd \in ReadEnds

-----------------------------------------------------------------------------
(***************************************************************************)
(* The reader.                                                             *)
(***************************************************************************)
RepliesUnderWay == {p.id : p \in {q \in {packets[i] : i \in 1..Len(packets)} \cup {hand} :
                                      q.type = "reply"}}

(* The tab is silent until Network.enable was sent, and answers a command once. *)
Incoming ==
    IF commandID = 0 THEN {}
    ELSE Traffic \cup UNION {O!Replies(id) : id \in unanswered \ RepliesUnderWay}

ReadMessage ==
    /\ reader = "reading"
    /\ conn = "open" /\ peer = "up"
    /\ nread < MaxMessages
    /\ hand' \in Incoming
    /\ reader' = "handing"
    /\ nread' = nread + 1
    /\ UNCHANGED <<observer, caller, ctxDone, conn, peer, packets, watcher, closeResult,
                   enabled, enableLate, errs, readEnd>>

(* Read fails once either end is closed, and it fails on a tab that is well *)
(* when a frame is not text or not JSON.  Only the peer's end gives io.EOF. *)
ReadFails(cause) ==
    /\ reader = "reading"
    /\ \/ cause = "closed" /\ conn = "closed"
       \/ cause = "gone" /\ peer = "gone"
       \/ cause = "frame" /\ conn = "open" /\ peer = "up"
    /\ \E eof \in BOOLEAN : (eof => cause = "gone") /\ hand' = ErrorPacket(eof)
    /\ reader' = "handing"
    /\ readEnd' = cause
    /\ UNCHANGED <<observer, caller, ctxDone, conn, peer, packets, watcher, closeResult,
                   enabled, enableLate, errs, nread>>

HandedOff == Append(packets, hand)

\* mutant: one packet more than the channel holds
HasRoomForOneMore == Len(packets) <= PacketCap
HasRoom == Len(packets) < PacketCap

HandOff ==
    /\ reader = "handing"
    /\ HasRoom
    /\ packets' = HandedOff
    /\ reader' = IF IsError(hand) THEN "done" ELSE "reading"
    /\ hand' = NoPacket
    /\ UNCHANGED <<observer, caller, ctxDone, conn, peer, watcher, closeResult, enabled,
                   enableLate, errs, nread, readEnd>>

-----------------------------------------------------------------------------
(***************************************************************************)
(* The watcher.                                                            *)
(***************************************************************************)
CloseSocket ==
    /\ watcher = "waiting"
    /\ ctxDone
    /\ conn' = "closed"
    /\ watcher' = "closing"
    /\ UNCHANGED <<observer, caller, ctxDone, peer, reader, hand, packets, closeResult,
                   enabled, enableLate, errs, nread, readEnd>>

ReportClose ==
    /\ watcher = "closing"
    /\ closeResult' \in {"ok", "error"}
    /\ watcher' = "done"
    /\ UNCHANGED <<observer, caller, ctxDone, conn, peer, reader, hand, packets, enabled,
                   enableLate, errs, nread, readEnd>>

-----------------------------------------------------------------------------
(***************************************************************************)
(* The loop.  Outcome(more) is what every step of it does to the result    *)
(* and to the context: a failed record or command, and each error of more, *)
(* is joined; leaving the loop cancels.  A command is written only to an   *)
(* open socket, and the write fails only when one end is gone.             *)
(***************************************************************************)
Outcome(more) ==
    /\ errs' = errs \cup faults' \cup more
    /\ ctxDone' = (ctxDone \/ phase' \in {"drain", "done"})
    /\ unanswered' \subseteq unanswered \/ conn = "open"
    /\ "send" \in faults' \ faults => conn = "closed" \/ peer = "gone"

LoopUnchanged == <<caller, peer, reader, hand, watcher, nread, readEnd>>

(* Bad budgets: nothing was started, and the socket is closed in place      *)
Refuse ==
    /\ O!RefusePolicy
    /\ Outcome({"budgets"})
    /\ conn' = "closed"
    /\ UNCHANGED <<LoopUnchanged, packets, closeResult, enabled, enableLate>>

Start ==
    /\ O!EmitStart \/ O!SendEnable
    /\ Outcome({})
    /\ UNCHANGED <<LoopUnchanged, conn, packets, closeResult, enabled, enableLate>>

\* mutant: a return that skips the deferred expiry
LeaveAtOnce ==
    /\ phase = "loop"
    /\ phase' = "stop"
    /\ UNCHANGED <<policy, responses, pending, overdue, bodyBytes, commandID, log,
                   unanswered, handled, fetched, overshoot, faults>>
LeaveLoop == O!Leave

(* case <-ctx.Done()                                                        *)
Cancelled ==
    /\ ctxDone
    /\ LeaveLoop
    /\ Outcome({})
    /\ UNCHANGED <<LoopUnchanged, conn, packets, closeResult, enabled, enableLate>>

(* case now := <-ticker.C; a tick that finds nothing overdue does nothing   *)
EnableTimedOut ==
    /\ ~enabled /\ enableLate
    /\ LeaveLoop
    /\ Outcome({"enable_timeout"})
    /\ UNCHANGED <<LoopUnchanged, conn, packets, closeResult, enabled, enableLate>>

\* mutant: the expiry is nested under the test of the enable deadline
ExpireUntilEnabled == ~enabled /\ ~enableLate
TickExpires == enabled \/ ~enableLate

ExpireOverdue ==
    /\ TickExpires
    /\ O!Tick \/ O!TickDone \/ \E p \in pending : O!ExpireFetch(p)
    /\ Outcome({})
    /\ UNCHANGED <<LoopUnchanged, conn, packets, closeResult, enabled, enableLate>>

(* case p, ok := <-packets, with a message                                  *)
ReceiveMessage ==
    /\ phase = "loop"
    /\ packets # << >>
    /\ ~IsError(Head(packets))
    /\ O!Handle(Head(packets))
    /\ packets' = Tail(packets)
    /\ enabled' = (enabled \/ /\ Head(packets).type = "reply"
                              /\ Head(packets).id = O!EnableID
                              /\ Head(packets).result # "error")
    /\ Outcome(IF Head(packets).type = "reply" /\ O!EnableRejected(Head(packets))
               THEN {"enable_rejected"} ELSE {})
    /\ UNCHANGED <<LoopUnchanged, conn, closeResult, enableLate>>

\* mutant: the end of the stream is taken for the end of the capture
EofIsClean(p) == IF ctxDone \/ p.eof THEN {} ELSE {"read_error"}
\* mutant: the loop does not ask whether it was cancelled
NoCancelCheck(p) == IF p.eof THEN {"disconnected"} ELSE {"read_error"}
ReadErrorResult(p) ==
    IF ctxDone THEN {} ELSE IF p.eof THEN {"disconnected"} ELSE {"read_error"}

(* case p, ok := <-packets, with an error or with the channel closed        *)
ReceiveEnd ==
    /\ LeaveLoop
    /\ \/ /\ packets # << >>
          /\ IsError(Head(packets))
          /\ packets' = Tail(packets)
          /\ Outcome(ReadErrorResult(Head(packets)))
       \/ /\ packets = << >> /\ reader = "done"
          /\ packets' = packets
          /\ Outcome({"reader_ended"})
    /\ UNCHANGED <<LoopUnchanged, conn, closeResult, enabled, enableLate>>

-----------------------------------------------------------------------------
(***************************************************************************)
(* The deferred shutdown.  Everything read is handled, without commands.   *)
(***************************************************************************)
\* mutant: packets still in the channel are thrown away
DiscardPacket(p) == UNCHANGED observer
DrainPacket(p) == O!Handle(p)

\* mutant: the goroutines are joined before the channel is drained
DrainAfterJoin == phase = "drain" /\ reader = "done"
Draining == phase = "drain"

Drain ==
    /\ Draining
    /\ packets # << >>
    /\ packets' = Tail(packets)
    /\ IF IsError(Head(packets)) THEN UNCHANGED observer ELSE DrainPacket(Head(packets))
    /\ Outcome({})
    /\ UNCHANGED <<LoopUnchanged, conn, closeResult, enabled, enableLate>>

\* mutant: only the reader is waited for
ReaderJoined == packets = << >> /\ reader = "done"
Joined ==
    /\ packets = << >> /\ reader = "done"
    /\ watcher = "done" /\ closeResult \in {"ok", "error"}

Join ==
    /\ Joined
    /\ O!Drained
    /\ Outcome(IF closeResult = "error" THEN {"close_error"} ELSE {})
    /\ closeResult' = "taken"
    /\ UNCHANGED <<LoopUnchanged, conn, packets, enabled, enableLate>>

ExpireAll ==
    /\ \/ \E p \in pending : O!InterruptFetch(p)
       \/ \E r \in responses : O!InterruptResponse(r)
       \/ O!ExpireDone
    /\ Outcome({})
    /\ UNCHANGED <<LoopUnchanged, conn, packets, closeResult, enabled, enableLate>>

Stop ==
    /\ O!EmitStop
    /\ Outcome({})
    /\ UNCHANGED <<LoopUnchanged, conn, packets, closeResult, enabled, enableLate>>

-----------------------------------------------------------------------------
(***************************************************************************)
(* The environment: the user, the tab and time.                            *)
(***************************************************************************)
UserCancels ==
    /\ phase # "done"
    /\ ~caller
    /\ caller' = TRUE
    /\ ctxDone' = TRUE
    /\ UNCHANGED <<observer, conn, peer, reader, hand, packets, watcher, closeResult,
                   enabled, enableLate, errs, nread, readEnd>>

TabGoesAway ==
    /\ phase # "done"
    /\ peer = "up"
    /\ peer' = "gone"
    /\ UNCHANGED <<observer, caller, ctxDone, conn, reader, hand, packets, watcher,
                   closeResult, enabled, enableLate, errs, nread, readEnd>>

EnableDeadlinePasses ==
    /\ phase = "loop"
    /\ ~enabled /\ ~enableLate
    /\ enableLate' = TRUE
    /\ UNCHANGED <<observer, caller, ctxDone, conn, peer, reader, hand, packets, watcher,
                   closeResult, enabled, errs, nread, readEnd>>

BodyDeadlinePasses ==
    /\ \E p \in pending : O!DeadlinePasses(p)
    /\ UNCHANGED sessVars

Returned == phase = "done" /\ UNCHANGED vars

Init ==
    /\ O!Init
    /\ caller = FALSE /\ ctxDone = FALSE
    /\ conn = "open" /\ peer = "up"
    /\ reader = IF O!ValidPolicy THEN "reading" ELSE "idle"
    /\ watcher = IF O!ValidPolicy THEN "waiting" ELSE "idle"
    /\ hand = NoPacket
    /\ packets = << >>
    /\ closeResult = "empty"
    /\ enabled = FALSE /\ enableLate = FALSE
    /\ errs = {}
    /\ nread = 0 /\ readEnd = "none"

Reader == ReadFails("closed") \/ ReadFails("gone") \/ HandOff
Watcher == CloseSocket \/ ReportClose
Main == Refuse \/ Start \/ Cancelled \/ ReceiveMessage \/ ReceiveEnd \/ Drain \/ Join
          \/ ExpireAll \/ Stop
Timer == EnableTimedOut \/ ExpireOverdue

Next ==
    \/ ReadMessage \/ ReadFails("frame") \/ Reader \/ Watcher \/ Main \/ Timer
    \/ UserCancels \/ TabGoesAway \/ EnableDeadlinePasses \/ BodyDeadlinePasses
    \/ Returned

Spec == Init /\ [][Next]_vars

(***************************************************************************)
(* A goroutine that can step does, the ticker fires every second and its   *)
(* buffered tick waits in the select, and time passes.  The user need not  *)
(* cancel, and the tab need send nothing, garbled or not, nor go away.      *)
(***************************************************************************)
Fairness ==
    /\ WF_vars(Reader)
    /\ WF_vars(Watcher)
    /\ WF_vars(Main)
    /\ WF_vars(Timer)
    /\ WF_vars(EnableDeadlinePasses)
    /\ WF_vars(BodyDeadlinePasses)

FairSpec == Spec /\ Fairness

-----------------------------------------------------------------------------
(***************************************************************************)
(* Properties                                                              *)
(***************************************************************************)
Holding == IF reader = "handing" /\ ~IsError(hand) THEN 1 ELSE 0
Queued == Cardinality({i \in 1..Len(packets) : ~IsError(packets[i])})

(* A completed read is always handed off and handled, during cancellation   *)
(* too (session.go:65-67, 80-86): at every moment each message read is with *)
(* the reader, in the channel, or handled.                                  *)
NoReadLost == nread = handled + Queued + Holding

(* When run() returns, no goroutine of it is left, the channel is empty and *)
(* the socket is closed (session.go:52-53, 87-88).                          *)
ReturnsJoined == phase = "done" =>
    /\ conn = "closed" /\ ctxDone
    /\ reader \in {"idle", "done"} /\ watcher \in {"idle", "done"}
    /\ packets = << >> /\ hand = NoPacket

(* run() returns nil only because the caller cancelled: no lost tab, failed *)
(* record or refused command passes for a complete capture.                 *)
NilOnlyWhenCancelled == phase = "done" /\ errs = {} => caller

(* The socket that the session itself closes is never reported as a lost    *)
(* tab or as a failed read, and a disconnection is reported only of a tab   *)
(* that is gone (session.go:123-129).                                       *)
OwnCloseNotBlamed ==
    /\ errs \cap {"disconnected", "read_error"} # {} => readEnd \in {"gone", "frame"}
    /\ "disconnected" \in errs => peer = "gone"

(* Every step of the session is a step of the sequential observer.          *)
ObserverSpec == O!Spec

(* A cancelled or orphaned session always returns (no goroutine waits for   *)
(* another forever, even with the channel full).                            *)
ShutdownCompletes == (caller \/ peer = "gone") ~> phase = "done"

(* No fetch stays in flight for ever: an answer, its timeout or the end of  *)
(* the session settles it, unless the sink refuses records.                 *)
FetchesSettle == \A id \in 1..MaxMessages :
    (\E p \in pending : p.id = id) ~>
        ((\A p \in pending : p.id # id) \/ "sink" \in faults)

(* Ctrl-C ends a capture whose tab, frames, disk and socket are healthy     *)
(* without an error (README.md:43, docs/phase1-capture.md:11).              *)
CancelIsClean ==
    (/\ phase = "done" /\ enabled /\ caller
     /\ peer = "up" /\ readEnd # "frame" /\ "sink" \notin faults)
        => errs \subseteq {"close_error"}
=============================================================================
