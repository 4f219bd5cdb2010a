----------------------------- MODULE NamesProofs -----------------------------
(***************************************************************************)
(* Proofs about Names, for any numbers of connections, message numbers,    *)
(* methods and requests.  The types hold for every client; that no         *)
(* response is misattributed, for a client that uses a number again only   *)
(* after its request was answered (MaxOutstanding = 1).                    *)
(***************************************************************************)
EXTENDS Names, FiniteSetTheorems, TLAPS

Typed ==
    /\ NamesTypeOK
    /\ \A c \in Conns : IsFiniteSet(Used(c))
    /\ IsFiniteSet(outstanding)
    /\ sent = 0 => outstanding = {}

(* Before the capture starts nothing is pending and nothing noted.          *)
Blind == ~capturing =>
    /\ \A c \in Conns, n \in Numbers : pending[c][n] = None
    /\ \A r \in outstanding : ~r.noted

(* A number has one request under way.                                      *)
OneEach == \A r, s \in outstanding : r.conn = s.conn /\ r.number = s.number => r = s

(* What is pending is owed, unless the answer was garbled: then it is       *)
(* ambiguous by now, or the number is not in use.                           *)
Owing == \A c \in Conns, n \in Numbers : pending[c][n] # None =>
    \/ \E r \in SameNumber(c, n) : r.noted /\ r.method = pending[c][n]
    \/ garbles = "response" /\ (pending[c][n] = Ambiguous \/ SameNumber(c, n) = {})

(* And unless one was garbled, what was noted is still pending.             *)
NotedPending == garbles = "request" =>
    \A r \in outstanding : r.noted => pending[r.conn][r.number] = r.method

NamesInv == Blind /\ OneEach /\ Owing /\ NotedPending /\ NeverMisattributed /\ NotedIsNamed

-----------------------------------------------------------------------------
(***************************************************************************)
(* Types.                                                                  *)
(***************************************************************************)
LEMMA InitTyped == NamesInit => Typed
  <1> SUFFICES ASSUME NamesInit PROVE Typed
    OBVIOUS
  <1>1. \A c \in Conns : Used(c) = {}
    BY DEF NamesInit, Used
  <1>2. \A c \in Conns : IsFiniteSet(Used(c)) /\ Cardinality(Used(c)) <= MaxPending
    BY <1>1, FS_EmptySet, NamesAssumption
  <1>3. NamesTypeOK
    BY <1>2, NamesAssumption DEF NamesInit, NamesTypeOK, Used, NothingSeen, Verdict, Statuses
  <1> QED  BY <1>2, <1>3, FS_EmptySet DEF NamesInit, Typed

(* A table of which one entry was noted, consumed or made ambiguous.        *)
LEMMA EntryTyped ==
    ASSUME Typed, NEW c \in Conns, NEW n \in Numbers, NEW v \in Methods \cup {None, Ambiguous},
           pending' = [pending EXCEPT ![c][n] = v],
           pending[c][n] = None /\ v # None => ~Full(c)
    PROVE  /\ pending' \in [Conns -> [Numbers -> Methods \cup {None, Ambiguous}]]
           /\ \A d \in Conns : IsFiniteSet(Used(d)') /\ Cardinality(Used(d)') <= MaxPending
  <1>1. pending \in [Conns -> [Numbers -> Methods \cup {None, Ambiguous}]]
    BY DEF Typed, NamesTypeOK
  <1>2. pending' \in [Conns -> [Numbers -> Methods \cup {None, Ambiguous}]]
    BY <1>1
  <1>3. \A d \in Conns : /\ IsFiniteSet(Used(d)) /\ Cardinality(Used(d)) \in Nat
                         /\ Cardinality(Used(d)) <= MaxPending
    BY FS_CardinalityType DEF Typed, NamesTypeOK, Used
  <1>4. ASSUME NEW d \in Conns PROVE IsFiniteSet(Used(d)') /\ Cardinality(Used(d)') <= MaxPending
    <2>1. CASE Used(d)' \subseteq Used(d)
      <3>1. IsFiniteSet(Used(d)') /\ Cardinality(Used(d)') <= Cardinality(Used(d))
        BY <1>3, <2>1, FS_Subset
      <3>2. Cardinality(Used(d)') \in Nat
        BY <3>1, FS_CardinalityType
      <3> QED  BY <1>3, <3>1, <3>2, NamesAssumption
    <2>2. CASE d = c /\ v # None /\ pending[c][n] = None
      <3>1. n \notin Used(d) /\ Used(d)' = Used(d) \cup {n}
        BY <1>1, <2>2 DEF Used
      <3>2. Cardinality(Used(d)) < MaxPending
        BY <1>3, <2>2, NamesAssumption DEF Full
      <3>3. IsFiniteSet(Used(d)') /\ Cardinality(Used(d)') = Cardinality(Used(d)) + 1
        BY <1>3, <3>1, FS_AddElement
      <3> QED  BY <1>3, <3>2, <3>3, NamesAssumption
    <2>3. Used(d)' \subseteq Used(d) \/ (d = c /\ v # None /\ pending[c][n] = None)
      BY <1>1 DEF Used
    <2> QED  BY <2>1, <2>2, <2>3
  <1> QED  BY <1>2, <1>4

(* A table of which a connection, or every one, was forgotten.              *)
LEMMA ForgetTyped ==
    ASSUME Typed, pending' \in [Conns -> [Numbers -> Methods \cup {None, Ambiguous}]],
           \A d \in Conns, n \in Numbers : pending'[d][n] \in {None, pending[d][n]}
    PROVE  \A d \in Conns : IsFiniteSet(Used(d)') /\ Cardinality(Used(d)') <= MaxPending
  <1> SUFFICES ASSUME NEW d \in Conns
               PROVE  IsFiniteSet(Used(d)') /\ Cardinality(Used(d)') <= MaxPending
    OBVIOUS
  <1>1. IsFiniteSet(Used(d)) /\ Cardinality(Used(d)) <= MaxPending
    BY DEF Typed, NamesTypeOK, Used
  <1>2. Used(d)' \subseteq Used(d)
    BY DEF Used
  <1>3. IsFiniteSet(Used(d)') /\ Cardinality(Used(d)') <= Cardinality(Used(d))
    BY <1>1, <1>2, FS_Subset
  <1>4. Cardinality(Used(d)') \in Nat /\ Cardinality(Used(d)) \in Nat
    BY <1>1, <1>3, FS_CardinalityType
  <1> QED  BY <1>1, <1>3, <1>4, NamesAssumption

(* Typed, from what a step does to the table, the requests and the verdict. *)
LEMMA TypedFrom ==
    ASSUME pending' \in [Conns -> [Numbers -> Methods \cup {None, Ambiguous}]],
           \A d \in Conns : IsFiniteSet(Used(d)') /\ Cardinality(Used(d)') <= MaxPending,
           capturing' \in BOOLEAN, garbles' \in Garbling, sent' \in 0..MaxRequests,
           outstanding' \subseteq Requests, IsFiniteSet(outstanding'),
           sent' = 0 => outstanding' = {},
           verdict'.status \in Statuses
    PROVE  Typed'
  BY DEF Typed, NamesTypeOK, Used

LEMMA SameTable ==
    ASSUME Typed, pending' = pending
    PROVE  /\ pending' \in [Conns -> [Numbers -> Methods \cup {None, Ambiguous}]]
           /\ \A d \in Conns : IsFiniteSet(Used(d)') /\ Cardinality(Used(d)') <= MaxPending
  BY DEF Typed, NamesTypeOK, Used

LEMMA TypedStep == Typed /\ [NamesNext]_namesVars => Typed'
  <1> SUFFICES ASSUME Typed, [NamesNext]_namesVars PROVE Typed'
    OBVIOUS
  <1>1. /\ capturing \in BOOLEAN /\ garbles \in Garbling /\ sent \in 0..MaxRequests /\ sent \in Nat
        /\ outstanding \subseteq Requests /\ IsFiniteSet(outstanding)
        /\ pending \in [Conns -> [Numbers -> Methods \cup {None, Ambiguous}]]
        /\ verdict.status \in Statuses /\ (sent = 0 => outstanding = {})
    BY NamesAssumption DEF Typed, NamesTypeOK
  <1>2. ASSUME NEW c \in Conns, NEW n \in Numbers, NEW m \in Methods, SendRequest(c, n, m)
        PROVE  Typed'
    <2>1. PICK garbled \in BOOLEAN :
            LET r == [id |-> sent + 1, conn |-> c, number |-> n, method |-> m,
                      seen |-> capturing /\ ~garbled,
                      noted |-> capturing /\ ~garbled /\ RequestStatus(c, n) = "request"] IN
            /\ sent < MaxRequests
            /\ sent' = sent + 1
            /\ outstanding' = outstanding \cup {r}
            /\ IF ~capturing THEN UNCHANGED <<pending, verdict>>
               ELSE IF garbled THEN ObserveGarbled(r)
               ELSE ObserveRequest(r)
            /\ UNCHANGED <<capturing, garbles>>
      BY <1>2 DEF SendRequest
    <2> DEFINE r == [id |-> sent + 1, conn |-> c, number |-> n, method |-> m,
                     seen |-> capturing /\ ~garbled,
                     noted |-> capturing /\ ~garbled /\ RequestStatus(c, n) = "request"]
    <2>2. sent + 1 \in 1..MaxRequests /\ sent' \in 0..MaxRequests /\ sent' # 0
      BY <1>1, <2>1, NamesAssumption
    <2>3. (capturing /\ ~garbled) \in BOOLEAN
          /\ (capturing /\ ~garbled /\ RequestStatus(c, n) = "request") \in BOOLEAN
      OBVIOUS
    <2>4. r \in Requests /\ r.conn = c /\ r.number = n /\ r.method = m
      BY <2>2, <2>3 DEF Requests
    <2> HIDE DEF r
    <2>5. outstanding' = outstanding \cup {r} /\ UNCHANGED <<capturing, garbles>>
      BY <2>1 DEF r
    <2>6. outstanding' \subseteq Requests /\ IsFiniteSet(outstanding')
      BY <1>1, <2>4, <2>5, FS_AddElement
    <2>7. CASE ObserveRequest(r)
      <3>1. /\ NoteRequest(c, n, m) \in Methods \cup {None, Ambiguous}
            /\ pending' = [pending EXCEPT ![c][n] = NoteRequest(c, n, m)]
            /\ pending[c][n] = None /\ NoteRequest(c, n, m) # None => ~Full(c)
        BY <2>4, <2>7 DEF ObserveRequest, NoteRequest
      <3>2. verdict'.status \in Statuses
        BY <2>7 DEF ObserveRequest, Verdict, RequestStatus, Statuses
      <3> QED  BY <1>1, <2>2, <2>5, <2>6, <3>1, <3>2, EntryTyped, TypedFrom
    <2>8. CASE pending' = pending /\ verdict'.status \in Statuses
      BY <1>1, <2>2, <2>5, <2>6, <2>8, SameTable, TypedFrom
    <2>9. ObserveRequest(r) \/ UNCHANGED <<pending, verdict>> \/ ObserveGarbled(r)
      BY <2>1 DEF r
    <2> QED  BY <1>1, <2>7, <2>8, <2>9 DEF ObserveGarbled, Verdict, Statuses
  <1>3. ASSUME NEW r \in outstanding, Respond(r) PROVE Typed'
    <2>1. /\ outstanding' = outstanding \ {r} /\ UNCHANGED <<capturing, garbles, sent>>
          /\ \/ UNCHANGED <<pending, verdict>> \/ ObserveGarbled(r)
             \/ \E named \in BOOLEAN : ObserveResponse(r, named)
      BY <1>3 DEF Respond
    <2>2. r.conn \in Conns /\ r.number \in Numbers
      BY <1>1, <1>3 DEF Requests
    <2>3. outstanding' \subseteq Requests /\ IsFiniteSet(outstanding') /\ (sent' = 0 => outstanding' = {})
      BY <1>1, <2>1, FS_RemoveElement
    <2>4. CASE \E named \in BOOLEAN : ObserveResponse(r, named)
      <3>1. /\ pending' = [pending EXCEPT ![r.conn][r.number] = None]
            /\ verdict'.status \in Statuses
        BY <2>4 DEF ObserveResponse, Consume, Verdict, Statuses
      <3>2. None \in Methods \cup {None, Ambiguous}
        OBVIOUS
      <3>3. /\ pending' \in [Conns -> [Numbers -> Methods \cup {None, Ambiguous}]]
            /\ \A d \in Conns : IsFiniteSet(Used(d)') /\ Cardinality(Used(d)') <= MaxPending
        BY <2>2, <3>1, <3>2, EntryTyped
      <3> QED  BY <1>1, <2>1, <2>3, <3>1, <3>3, TypedFrom
    <2>5. CASE pending' = pending /\ verdict'.status \in Statuses
      BY <1>1, <2>1, <2>3, <2>5, SameTable, TypedFrom
    <2> QED  BY <1>1, <2>1, <2>4, <2>5 DEF ObserveGarbled, Verdict, Statuses
  <1>4. ASSUME NEW c \in Conns, Reconnect(c) PROVE Typed'
    <2>1. /\ outstanding' \subseteq outstanding /\ UNCHANGED <<capturing, garbles, sent>>
          /\ verdict'.status \in Statuses
      BY <1>4 DEF Reconnect, NothingSeen, Verdict, Statuses
    <2>2. /\ pending' \in [Conns -> [Numbers -> Methods \cup {None, Ambiguous}]]
          /\ \A d \in Conns, n \in Numbers : pending'[d][n] \in {None, pending[d][n]}
      BY <1>1, <1>4 DEF Reconnect, ForgetConnection
    <2>3. \A d \in Conns : IsFiniteSet(Used(d)') /\ Cardinality(Used(d)') <= MaxPending
      BY <2>2, ForgetTyped
    <2>4. outstanding' \subseteq Requests /\ IsFiniteSet(outstanding') /\ (sent' = 0 => outstanding' = {})
      BY <1>1, <2>1, FS_Subset
    <2> QED  BY <1>1, <2>1, <2>2, <2>3, <2>4, TypedFrom
  <1>5. ASSUME StartCapture PROVE Typed'
    <2>1. capturing' = TRUE /\ UNCHANGED <<garbles, sent, outstanding, verdict>>
      BY <1>5 DEF StartCapture
    <2>2. /\ pending' \in [Conns -> [Numbers -> Methods \cup {None, Ambiguous}]]
          /\ \A d \in Conns, n \in Numbers : pending'[d][n] \in {None, pending[d][n]}
      BY <1>1, <1>5 DEF StartCapture
    <2>3. \A d \in Conns : IsFiniteSet(Used(d)') /\ Cardinality(Used(d)') <= MaxPending
      BY <2>2, ForgetTyped
    <2> QED  BY <1>1, <2>1, <2>2, <2>3, TypedFrom
  <1>6. CASE UNCHANGED namesVars
    <2>1. UNCHANGED <<capturing, pending, garbles, sent, outstanding, verdict>>
      BY <1>6 DEF namesVars
    <2> QED  BY <1>1, <2>1, SameTable, TypedFrom
  <1> QED  BY <1>2, <1>3, <1>4, <1>5, <1>6 DEF NamesNext

(* Every reachable state of the table is well-typed, and holds at most      *)
(* MaxPending requests of a connection, whatever is used again, garbled,    *)
(* reconnected or unseen (names.go:236-262).                                *)
THEOREM NamesTyped == NamesSpec => []NamesTypeOK
  <1>1. Typed => NamesTypeOK
    BY DEF Typed
  <1> QED  BY <1>1, InitTyped, TypedStep, PTL DEF NamesSpec

-----------------------------------------------------------------------------
(***************************************************************************)
(* Names.                                                                  *)
(***************************************************************************)
LEMMA InitNames == NamesInit => NamesInv
  BY DEF NamesInit, NamesInv, Blind, OneEach, Owing, NotedPending, NeverMisattributed, NotedIsNamed,
         NothingSeen, Verdict

(* What the client sends under a number that is free.                       *)
LEMMA SendNames ==
    ASSUME MaxOutstanding = 1, Typed, NamesInv,
           NEW c \in Conns, NEW n \in Numbers, NEW m \in Methods, SendRequest(c, n, m)
    PROVE  NamesInv'
  <1>1. /\ pending \in [Conns -> [Numbers -> Methods \cup {None, Ambiguous}]]
        /\ outstanding \subseteq Requests /\ IsFiniteSet(outstanding)
        /\ Blind /\ OneEach /\ Owing /\ NotedPending /\ NeverMisattributed /\ NotedIsNamed
    BY DEF Typed, NamesTypeOK, NamesInv
  <1>2. PICK garbled \in BOOLEAN :
          LET r == [id |-> sent + 1, conn |-> c, number |-> n, method |-> m,
                    seen |-> capturing /\ ~garbled,
                    noted |-> capturing /\ ~garbled /\ RequestStatus(c, n) = "request"] IN
          /\ Cardinality(SameNumber(c, n)) < MaxOutstanding
          /\ garbled => capturing /\ garbles = "request"
          /\ outstanding' = outstanding \cup {r}
          /\ IF ~capturing THEN UNCHANGED <<pending, verdict>>
             ELSE IF garbled THEN ObserveGarbled(r)
             ELSE ObserveRequest(r)
          /\ UNCHANGED <<capturing, garbles>>
    BY DEF SendRequest
  <1> DEFINE r == [id |-> sent + 1, conn |-> c, number |-> n, method |-> m,
                   seen |-> capturing /\ ~garbled,
                   noted |-> capturing /\ ~garbled /\ RequestStatus(c, n) = "request"]
  <1>3. /\ r.conn = c /\ r.number = n /\ r.method = m
        /\ r.noted <=> capturing /\ ~garbled /\ RequestStatus(c, n) = "request"
    OBVIOUS
  <1>4. /\ outstanding' = outstanding \cup {r} /\ UNCHANGED <<capturing, garbles>>
        /\ garbled => capturing /\ garbles = "request"
        /\ ~capturing => UNCHANGED <<pending, verdict>>
        /\ capturing /\ garbled => ObserveGarbled(r)
        /\ capturing /\ ~garbled => ObserveRequest(r)
    BY <1>2
  <1> HIDE DEF r
  <1>5. \A s \in outstanding : ~ (s.conn = c /\ s.number = n)
    <2>1. IsFiniteSet(SameNumber(c, n))
      BY <1>1, FS_Subset DEF SameNumber
    <2>2. Cardinality(SameNumber(c, n)) = 0
      BY <1>2, <2>1, FS_CardinalityType
    <2>3. SameNumber(c, n) = {}
      BY <2>1, <2>2, FS_EmptySet
    <2> QED  BY <2>3 DEF SameNumber
  <1>6. OneEach'
    BY <1>1, <1>3, <1>4, <1>5 DEF OneEach
  <1>7. Blind'
    BY <1>1, <1>3, <1>4 DEF Blind
  (* The table: of (c, n) alone, and as noted.                              *)
  <1>8. /\ \A d \in Conns, k \in Numbers : ~ (d = c /\ k = n) => pending'[d][k] = pending[d][k]
        /\ r.noted => pending[c][n] = None /\ pending'[c][n] = m
        /\ ~r.noted => pending'[c][n] \in {pending[c][n], Ambiguous}
        /\ pending[c][n] = None /\ ~r.noted => pending'[c][n] = None
    <2>1. CASE capturing /\ ~garbled
      <3>1. pending' = [pending EXCEPT ![c][n] = NoteRequest(c, n, m)]
        BY <1>3, <1>4, <2>1 DEF ObserveRequest
      <3>2. /\ r.noted => pending[c][n] = None /\ NoteRequest(c, n, m) = m
            /\ ~r.noted => NoteRequest(c, n, m) \in {pending[c][n], Ambiguous}
            /\ pending[c][n] = None /\ ~r.noted => NoteRequest(c, n, m) = None
        BY <1>3, <2>1 DEF NoteRequest, RequestStatus
      <3>3. /\ pending'[c][n] = NoteRequest(c, n, m)
            /\ \A d \in Conns, k \in Numbers : ~ (d = c /\ k = n) => pending'[d][k] = pending[d][k]
        BY <1>1, <3>1
      <3> QED  BY <3>2, <3>3
    <2>2. CASE ~capturing \/ garbled
      BY <1>3, <1>4, <2>2 DEF ObserveGarbled
    <2> QED  BY <2>1, <2>2
  <1>9. \A d \in Conns, k \in Numbers :
          /\ ~ (d = c /\ k = n) => SameNumber(d, k)' = SameNumber(d, k)
          /\ SameNumber(c, n)' = {r} /\ SameNumber(c, n) = {}
    BY <1>3, <1>4, <1>5 DEF SameNumber
  <1>10. NotedPending'
    <2> SUFFICES ASSUME garbles' = "request", NEW s \in outstanding', s.noted
                 PROVE  pending'[s.conn][s.number] = s.method
      BY DEF NotedPending
    <2>1. CASE s = r
      BY <1>3, <1>8, <2>1
    <2>2. CASE s \in outstanding
      <3>1. s.conn \in Conns /\ s.number \in Numbers /\ ~ (s.conn = c /\ s.number = n)
        BY <1>1, <1>5, <2>2 DEF Requests
      <3> QED  BY <1>1, <1>4, <1>8, <2>2, <3>1 DEF NotedPending
    <2> QED  BY <1>4, <2>1, <2>2
  <1>11. Owing'
    <2> SUFFICES ASSUME NEW d \in Conns, NEW k \in Numbers, pending'[d][k] # None
                 PROVE  \/ \E s \in SameNumber(d, k)' : s.noted /\ s.method = pending'[d][k]
                        \/ garbles' = "response"
                           /\ (pending'[d][k] = Ambiguous \/ SameNumber(d, k)' = {})
      BY DEF Owing
    <2>1. CASE ~ (d = c /\ k = n)
      BY <1>1, <1>4, <1>8, <1>9, <2>1 DEF Owing
    <2>2. CASE d = c /\ k = n /\ r.noted
      BY <1>3, <1>8, <1>9, <2>2
    <2>3. CASE d = c /\ k = n /\ ~r.noted
      <3>1. pending[c][n] # None /\ garbles = "response"
        BY <1>1, <1>8, <1>9, <2>3 DEF Owing
      <3>2. capturing /\ ~garbled
        BY <1>1, <1>4, <3>1 DEF Blind
      <3>3. pending' = [pending EXCEPT ![c][n] = Ambiguous]
        BY <1>3, <1>4, <3>1, <3>2 DEF ObserveRequest, NoteRequest
      <3>4. pending'[c][n] = Ambiguous
        BY <1>1, <3>3
      <3> QED  BY <1>4, <2>3, <3>1, <3>4
    <2> QED  BY <2>1, <2>2, <2>3
  <1>12. verdict' = verdict \/ verdict'.status \notin {"response", "type_unresolved"}
    BY <1>4 DEF ObserveGarbled, ObserveRequest, Verdict, RequestStatus
  <1>13. NeverMisattributed' /\ NotedIsNamed'
    BY <1>1, <1>4, <1>12 DEF NeverMisattributed, NotedIsNamed
  <1> QED  BY <1>6, <1>7, <1>10, <1>11, <1>13 DEF NamesInv

(* The answer to the one request of its number.                             *)
LEMMA RespondNames ==
    ASSUME MaxOutstanding = 1, Typed, NamesInv, NEW r \in outstanding, Respond(r)
    PROVE  NamesInv'
  <1>1. /\ pending \in [Conns -> [Numbers -> Methods \cup {None, Ambiguous}]]
        /\ outstanding \subseteq Requests
        /\ Blind /\ OneEach /\ Owing /\ NotedPending /\ NeverMisattributed /\ NotedIsNamed
    BY DEF Typed, NamesTypeOK, NamesInv
  <1>2. PICK named \in BOOLEAN, garbled \in BOOLEAN :
          /\ garbled => capturing /\ garbles = "response"
          /\ outstanding' = outstanding \ {r}
          /\ IF ~capturing THEN UNCHANGED <<pending, verdict>>
             ELSE IF garbled THEN ObserveGarbled(r)
             ELSE ObserveResponse(r, named)
          /\ UNCHANGED <<capturing, garbles, sent>>
    BY DEF Respond
  <1>3. r.conn \in Conns /\ r.number \in Numbers /\ r.method \in Methods
    BY <1>1 DEF Requests
  <1>4. SameNumber(r.conn, r.number) = {r}
    BY <1>1 DEF SameNumber, OneEach
  <1>5. \A d \in Conns, k \in Numbers :
          SameNumber(d, k)' = IF d = r.conn /\ k = r.number THEN {} ELSE SameNumber(d, k)
    BY <1>2, <1>4 DEF SameNumber
  <1>6. \A d \in Conns, k \in Numbers :
          \/ pending'[d][k] = pending[d][k] /\ (~capturing \/ garbled \/ ~ (d = r.conn /\ k = r.number))
          \/ pending'[d][k] = None /\ d = r.conn /\ k = r.number
    <2>1. CASE ~capturing \/ garbled
      BY <1>2, <2>1 DEF ObserveGarbled
    <2>2. CASE capturing /\ ~garbled
      <3>1. pending' = [pending EXCEPT ![r.conn][r.number] = None]
        BY <1>2, <2>2 DEF ObserveResponse, Consume
      <3> QED  BY <1>1, <1>3, <3>1
    <2> QED  BY <2>1, <2>2
  <1>7. Blind' /\ OneEach'
    BY <1>1, <1>2, <1>6 DEF Blind, OneEach
  <1>8. NotedPending'
    <2> SUFFICES ASSUME garbles' = "request", NEW s \in outstanding', s.noted
                 PROVE  pending'[s.conn][s.number] = s.method
      BY DEF NotedPending
    <2>1. s \in outstanding /\ s # r /\ s.conn \in Conns /\ s.number \in Numbers
      BY <1>1, <1>2 DEF Requests
    <2>2. ~ (s.conn = r.conn /\ s.number = r.number)
      BY <1>1, <2>1 DEF OneEach
    <2> QED  BY <1>1, <1>2, <1>6, <2>1, <2>2 DEF NotedPending
  <1>9. Owing'
    <2> SUFFICES ASSUME NEW d \in Conns, NEW k \in Numbers, pending'[d][k] # None
                 PROVE  \/ \E s \in SameNumber(d, k)' : s.noted /\ s.method = pending'[d][k]
                        \/ garbles' = "response"
                           /\ (pending'[d][k] = Ambiguous \/ SameNumber(d, k)' = {})
      BY DEF Owing
    <2>1. pending'[d][k] = pending[d][k]
      BY <1>6
    <2>2. CASE ~ (d = r.conn /\ k = r.number)
      BY <1>1, <1>2, <1>5, <2>1, <2>2 DEF Owing
    <2>3. CASE d = r.conn /\ k = r.number
      <3>1. capturing /\ garbled
        BY <1>1, <1>6, <2>1, <2>3 DEF Blind
      <3> QED  BY <1>2, <1>5, <2>3, <3>1
    <2> QED  BY <2>2, <2>3
  <1>10. NeverMisattributed' /\ NotedIsNamed'
    <2>1. CASE ~capturing \/ garbled
      <3>1. verdict' = verdict \/ verdict'.status = "undecodable"
        BY <1>2, <2>1 DEF ObserveGarbled, Verdict
      <3> QED  BY <1>1, <1>2, <3>1 DEF NeverMisattributed, NotedIsNamed
    <2>2. CASE capturing /\ ~garbled
      <3> DEFINE found == pending[r.conn][r.number]
      <3>1. verdict' = IF named THEN Verdict("response", r.method, r)
                       ELSE IF found \in {None, Ambiguous} THEN Verdict("type_unresolved", None, r)
                       ELSE Verdict("response", found, r)
        BY <1>2, <2>2 DEF ObserveResponse
      <3>2. found \notin {None, Ambiguous} => found = r.method
        BY <1>1, <1>3, <1>4 DEF Owing
      <3>3. garbles = "request" /\ r.noted => found \notin {None, Ambiguous}
        BY <1>1, <1>3, NamesAssumption DEF NotedPending
      <3> HIDE DEF found
      <3> QED  BY <1>2, <3>1, <3>2, <3>3 DEF NeverMisattributed, NotedIsNamed, Verdict
    <2> QED  BY <2>1, <2>2
  <1> QED  BY <1>7, <1>8, <1>9, <1>10 DEF NamesInv

LEMMA ConnectionNames ==
    ASSUME Typed, NamesInv, NEW c \in Conns, Reconnect(c)
    PROVE  NamesInv'
  <1>1. /\ pending \in [Conns -> [Numbers -> Methods \cup {None, Ambiguous}]]
        /\ outstanding \subseteq Requests
        /\ Blind /\ OneEach /\ Owing /\ NotedPending
    BY DEF Typed, NamesTypeOK, NamesInv
  <1>2. /\ outstanding' = {r \in outstanding : r.conn # c}
        /\ pending' = IF capturing THEN ForgetConnection(c) ELSE pending
        /\ verdict'.status = "nothing" /\ UNCHANGED <<capturing, garbles>>
    BY DEF Reconnect, NothingSeen, Verdict
  <1>3. /\ \A d \in Conns, k \in Numbers : d # c => pending'[d][k] = pending[d][k]
        /\ \A k \in Numbers : pending'[c][k] = None
    BY <1>1, <1>2 DEF ForgetConnection, Blind
  <1>4. \A d \in Conns, k \in Numbers : d # c => SameNumber(d, k)' = SameNumber(d, k)
    BY <1>2 DEF SameNumber
  <1>5. Blind' /\ OneEach'
    BY <1>1, <1>2, <1>3 DEF Blind, OneEach
  <1>6. NotedPending'
    BY <1>1, <1>2, <1>3 DEF NotedPending, Requests
  <1>7. Owing'
    <2> SUFFICES ASSUME NEW d \in Conns, NEW k \in Numbers, pending'[d][k] # None
                 PROVE  \/ \E s \in SameNumber(d, k)' : s.noted /\ s.method = pending'[d][k]
                        \/ garbles' = "response"
                           /\ (pending'[d][k] = Ambiguous \/ SameNumber(d, k)' = {})
      BY DEF Owing
    <2>1. d # c
      BY <1>3
    <2> QED  BY <1>1, <1>2, <1>3, <1>4, <2>1 DEF Owing
  <1>8. NeverMisattributed' /\ NotedIsNamed'
    BY <1>2 DEF NeverMisattributed, NotedIsNamed
  <1> QED  BY <1>5, <1>6, <1>7, <1>8 DEF NamesInv

LEMMA NamesStep == MaxOutstanding = 1 /\ Typed /\ NamesInv /\ [NamesNext]_namesVars => NamesInv'
  <1> SUFFICES ASSUME MaxOutstanding = 1, Typed, NamesInv, [NamesNext]_namesVars PROVE NamesInv'
    OBVIOUS
  <1>1. CASE StartCapture
    <2>1. /\ ~capturing /\ capturing' = TRUE /\ UNCHANGED <<garbles, sent, outstanding, verdict>>
          /\ \A c \in Conns, n \in Numbers : pending'[c][n] = None
      BY <1>1 DEF StartCapture
    <2>2. \A r \in outstanding : ~r.noted
      BY <2>1 DEF NamesInv, Blind
    <2> QED  BY <2>1, <2>2 DEF NamesInv, Blind, OneEach, Owing, NotedPending, NeverMisattributed,
                 NotedIsNamed
  <1>2. CASE UNCHANGED namesVars
    BY <1>2 DEF namesVars, NamesInv, Blind, OneEach, Owing, NotedPending, NeverMisattributed,
           NotedIsNamed, SameNumber
  <1> QED  BY <1>1, <1>2, SendNames, RespondNames, ConnectionNames DEF NamesNext

LEMMA NamesInvariant ==
    ASSUME MaxOutstanding = 1
    PROVE  NamesSpec => []NamesInv
  <1>1. Typed /\ NamesInv /\ [NamesNext]_namesVars => NamesInv'
    BY NamesStep
  <1> QED  BY <1>1, InitTyped, TypedStep, InitNames, PTL DEF NamesSpec

(* A response is never named after another request than the one it answers  *)
(* (names.go:260): for every client that uses a number again only after its *)
(* request was answered, whatever frames do not decode and wherever the     *)
(* capture starts or a connection is opened again.                          *)
THEOREM NamesSafe ==
    ASSUME MaxOutstanding = 1
    PROVE  NamesSpec => []NeverMisattributed
  <1>1. NamesInv => NeverMisattributed
    BY DEF NamesInv
  <1> QED  BY <1>1, NamesInvariant, PTL

(* Of such a client a response to a request that was noted is named, as     *)
(* long as only requests garble.                                            *)
THEOREM NotedNamed ==
    ASSUME MaxOutstanding = 1
    PROVE  NamesSpec => []NotedIsNamed
  <1>1. NamesInv => NotedIsNamed
    BY DEF NamesInv
  <1> QED  BY <1>1, NamesInvariant, PTL

(* And, as long as only requests garble, what is pending is a request the   *)
(* server still owes an answer (names.go:257-285).                          *)
THEOREM PendingOwed ==
    ASSUME MaxOutstanding = 1
    PROVE  NamesSpec => []PendingIsOwed
  <1>1. NamesInv => PendingIsOwed
    BY DEF NamesInv, Owing, PendingIsOwed
  <1> QED  BY <1>1, NamesInvariant, PTL

=============================================================================
