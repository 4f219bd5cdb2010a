------------------------------- MODULE Names --------------------------------
(***************************************************************************)
(* Request names for responses (Names.observe in internal/decode/names.go).*)
(* A response of the game protocol carries only the number of its request, *)
(* so the observer remembers, per connection, which request used a number. *)
(*                                                                         *)
(* The model runs the observer beside the conversation it watches: the     *)
(* client and the server know which request a response answers             *)
(* (outstanding), the observer sees frames, some of them undecodable, and  *)
(* only from the moment the capture starts.                                *)
(***************************************************************************)
EXTENDS Naturals, FiniteSets

CONSTANTS
    Conns,              \* CDP connection ids
    Numbers,            \* message numbers
    Methods,            \* request names
    None, Ambiguous,    \* no pending request; a number used twice ("" in the code)
    MaxPending,         \* pending requests per connection (65536 in the code)
    MaxOutstanding,     \* how many unanswered requests the client gives one number
    Garbling,           \* which frames may fail to decode: "request", "response"
    Observed,           \* may the capture have begun before the conversation?
    MaxRequests         \* bound: requests the client sends

ASSUME NamesAssumption ==
    /\ None \notin Methods /\ Ambiguous \notin Methods /\ None # Ambiguous
    /\ MaxPending \in Nat
    /\ MaxOutstanding \in Nat
    /\ MaxRequests \in Nat
    /\ Observed \subseteq BOOLEAN
    /\ Garbling \subseteq {"request", "response"}

VARIABLES
    capturing,      \* has capture_start been seen?
    pending,        \* Names.pending: connection and number to request name
    garbles,        \* which kind of frame this conversation garbles
    sent,           \* requests sent so far
    outstanding,    \* requests the server has not answered
    verdict         \* what the observer said of the latest frame

namesVars == <<capturing, pending, garbles, sent, outstanding, verdict>>

Requests == [id : 1..MaxRequests, conn : Conns, number : Numbers, method : Methods,
             seen : BOOLEAN, noted : BOOLEAN]
NoRequest == [id |-> 0]

(* A verdict: the status, the name it settled on, and the request that the  *)
(* frame truly belongs to.                                                  *)
Verdict(status, name, req) == [status |-> status, name |-> name, of |-> req]
NothingSeen == Verdict("nothing", None, NoRequest)
Statuses == {"nothing", "undecodable", "ambiguous_request_number", "pending_state_limit",
             "request", "type_unresolved", "response"}

NamesTypeOK ==
    /\ capturing \in BOOLEAN
    /\ pending \in [Conns -> [Numbers -> Methods \cup {None, Ambiguous}]]
    /\ \A c \in Conns : Cardinality({n \in Numbers : pending[c][n] # None}) <= MaxPending
    /\ garbles \in Garbling
    /\ sent \in 0..MaxRequests
    /\ outstanding \subseteq Requests
    /\ verdict.status \in Statuses

-----------------------------------------------------------------------------
(***************************************************************************)
(* What the observer does with one frame.                                  *)
(***************************************************************************)
Used(c) == {n \in Numbers : pending[c][n] # None}

\* mutant: the limit admits one more
OneOverFull(c) == Cardinality(Used(c)) > MaxPending
Full(c) == Cardinality(Used(c)) >= MaxPending

NoteRequest(c, n, m) ==
    IF pending[c][n] # None THEN Ambiguous
    ELSE IF Full(c) THEN None
    ELSE m

RequestStatus(c, n) ==
    IF pending[c][n] # None THEN "ambiguous_request_number"
    ELSE IF Full(c) THEN "pending_state_limit"
    ELSE "request"

ObserveRequest(r) ==
    /\ pending' = [pending EXCEPT ![r.conn][r.number] = NoteRequest(r.conn, r.number, r.method)]
    /\ verdict' = Verdict(RequestStatus(r.conn, r.number),
                          IF RequestStatus(r.conn, r.number) = "request" THEN r.method ELSE None, r)

\* mutant: a number stays pending after its response
KeepAfterResponse(c, n) == pending
Consume(c, n) == [pending EXCEPT ![c][n] = None]

(* A response may carry a name of its own; otherwise the pending request    *)
(* names it, unless there is none or more than one.                         *)
ObserveResponse(r, named) ==
    LET found == pending[r.conn][r.number] IN
    /\ pending' = Consume(r.conn, r.number)
    /\ verdict' = IF named THEN Verdict("response", r.method, r)
                  ELSE IF found \in {None, Ambiguous} THEN Verdict("type_unresolved", None, r)
                  ELSE Verdict("response", found, r)

(* A frame whose wrapper does not decode changes nothing                    *)
ObserveGarbled(r) ==
    /\ pending' = pending
    /\ verdict' = Verdict("undecodable", None, r)

-----------------------------------------------------------------------------
(***************************************************************************)
(* The conversation.                                                       *)
(***************************************************************************)
SameNumber(c, n) == {r \in outstanding : r.conn = c /\ r.number = n}

(* seen: the observer decoded the request; noted: it also has it pending    *)
SendRequest(c, n, m) == \E garbled \in BOOLEAN :
    LET r == [id |-> sent + 1, conn |-> c, number |-> n, method |-> m,
              seen |-> capturing /\ ~garbled,
              noted |-> capturing /\ ~garbled /\ RequestStatus(c, n) = "request"] IN
    /\ sent < MaxRequests
    /\ Cardinality(SameNumber(c, n)) < MaxOutstanding
    /\ garbled => capturing /\ garbles = "request"
    /\ sent' = sent + 1
    /\ outstanding' = outstanding \cup {r}
    /\ IF ~capturing THEN UNCHANGED <<pending, verdict>>
       ELSE IF garbled THEN ObserveGarbled(r)
       ELSE ObserveRequest(r)
    /\ UNCHANGED <<capturing, garbles>>

Respond(r) == \E named \in BOOLEAN, garbled \in BOOLEAN :
    /\ r \in outstanding
    /\ garbled => capturing /\ garbles = "response"
    /\ outstanding' = outstanding \ {r}
    /\ IF ~capturing THEN UNCHANGED <<pending, verdict>>
       ELSE IF garbled THEN ObserveGarbled(r)
       ELSE ObserveResponse(r, named)
    /\ UNCHANGED <<capturing, garbles, sent>>

(* websocket_close, and websocket_open of the same id: nothing of the old   *)
(* connection is answered any more                                          *)
\* mutant: a reopened connection inherits the numbers of the closed one
KeepConnection(c) == pending
\* mutant: closing one connection clears them all
ForgetAll(c) == [d \in Conns |-> [n \in Numbers |-> None]]
ForgetConnection(c) == [pending EXCEPT ![c] = [n \in Numbers |-> None]]

Reconnect(c) ==
    /\ outstanding' = {r \in outstanding : r.conn # c}
    /\ pending' = IF capturing THEN ForgetConnection(c) ELSE pending
    /\ verdict' = NothingSeen
    /\ UNCHANGED <<capturing, garbles, sent>>

(* capture_start clears every connection                                    *)
StartCapture ==
    /\ ~capturing
    /\ capturing' = TRUE
    /\ pending' = [c \in Conns |-> [n \in Numbers |-> None]]
    /\ UNCHANGED <<garbles, sent, outstanding, verdict>>

NamesInit ==
    /\ capturing \in Observed
    /\ pending = [c \in Conns |-> [n \in Numbers |-> None]]
    /\ garbles \in Garbling
    /\ sent = 0
    /\ outstanding = {}
    /\ verdict = NothingSeen

NamesNext ==
    \/ \E c \in Conns, n \in Numbers, m \in Methods : SendRequest(c, n, m)
    \/ \E r \in outstanding : Respond(r)
    \/ \E c \in Conns : Reconnect(c)
    \/ StartCapture

NamesSpec == NamesInit /\ [][NamesNext]_namesVars

-----------------------------------------------------------------------------
(***************************************************************************)
(* Properties                                                              *)
(***************************************************************************)
(* A response is never named after another request than the one it answers: *)
(* a name is found or the type stays unresolved (names.go:260,              *)
(* docs/phase1-capture.md:41).                                              *)
NeverMisattributed == verdict.status = "response" => verdict.name = verdict.of.method

(* The response to a request that was noted is named, as long as only       *)
(* requests garble: no interleaving with other numbers, connections or      *)
(* reconnects costs it its name.                                            *)
NotedIsNamed == (garbles = "request" /\ verdict.status = "type_unresolved")
    => ~verdict.of.noted

(* docs/phase1-capture.md:41 and names.go:260: a number that is used again  *)
(* before its first request is answered is ambiguous and resolves no        *)
(* response of either request, when the observer saw them both.             *)
AmbiguityNeverPicks == (verdict.status = "response" /\ verdict.of.seen)
    => verdict.name = verdict.of.method

(* Unless a response was garbled, what is pending is a request the server   *)
(* still owes an answer: nothing stale is left to name a later response.    *)
PendingIsOwed == garbles = "request" => \A c \in Conns, n \in Numbers :
    pending[c][n] # None => \E r \in SameNumber(c, n) : r.method = pending[c][n] /\ r.noted
=============================================================================
