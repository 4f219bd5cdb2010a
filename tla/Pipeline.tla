------------------------------ MODULE Pipeline -------------------------------
(***************************************************************************)
(* mjcap ingest and mjcap decode (internal/cli/ingest.go, decode.go,       *)
(* loginreuse.go).  ingest captures first and decodes only what a capture  *)
(* that ended well has left.  Decoding reads the capture to its end,       *)
(* collecting the game records, the latest MAKA report of each game and    *)
(* the accounts that logged in; then each record, in order, gets its self  *)
(* seat and its report and is stored.  One bad record or report ends the   *)
(* collection; a failed join or save ends the storing and keeps what was   *)
(* stored before.  After an exit or a power loss the user may decode the   *)
(* capture again.                                                          *)
(***************************************************************************)
EXTENDS GameStore, Sequences, FiniteSets, FiniteSetsExt

CONSTANTS
    Accounts,
    SeatOf,         \* SeatOf[u][a]: the seat of account a in game u, or None
    Filters,        \* the choices for --game-uuid, None when it is not given
    EarlierLogins,  \* the choices for the logins of the other captures, newest first;
                    \* << >> also when --login-from-captures is not given
    MaxRuns         \* bound: how often the capture is decoded

ASSUME PipelineAssumption ==
    /\ SeatOf \in [Uuids -> [Accounts -> Seats \cup {None}]]
    /\ \A others \in EarlierLogins : others \in Seq(Seq(Accounts))
    /\ MaxRuns \in Nat \ {0}

(* Decoded responses of the capture.  A record that is not sound has rounds *)
(* that cannot be rebuilt; a "bad" frame stands for a head or a report with *)
(* a field missing, or for a line that Replay refuses.                      *)
Frames == [kind : {"record"}, uuid : Uuids, sound : BOOLEAN]
          \cup [kind : {"report"}, uuid : Uuids, joins : BOOLEAN]
          \cup [kind : {"login"}, id : Accounts]
          \cup {[kind |-> "bad"]}
Captures == UNION {[1..n -> Frames] : n \in 0..MaxRecords}

VARIABLES
    capture,        \* the capture file
    earlier,        \* per other capture, newest first, its logins in order
    filter,         \* --game-uuid, or None
    phase,          \* "capture", "collect", "login", "join", "save", "output", "exit" or "down"
    pos,            \* frames read
    pending,        \* the collected records, by their place in the capture
    reports,        \* per game the latest report, by its place, or 0
    loginIDs,       \* accounts known to be the user's
    stored,         \* games stored by this run
    code,           \* the exit code
    runs,           \* runs so far
    before          \* history: the store when this run began

inputs == <<capture, earlier, filter>>
vars == <<storeVars, inputs, phase, pos, pending, reports, loginIDs, stored, code, runs, before>>

TypeOK ==
    /\ StoreTypeOK
    /\ phase \in {"capture", "collect", "login", "join", "save", "output", "exit", "down"}
    /\ pos \in 0..Len(capture)
    /\ pending \in Seq(1..pos)
    /\ reports \in [Uuids -> 0..pos]
    /\ loginIDs \subseteq Accounts
    /\ stored \in 0..Len(pending)
    /\ code \in 0..1
    /\ runs \in 1..MaxRuns
    /\ before \in [Uuids -> Contents]
    /\ save # "idle" => phase = "save"

-----------------------------------------------------------------------------
Exit(status) == phase' = "exit" /\ code' = status

(* ingest: a capture that ended with an error is not decoded, although its  *)
(* file is kept.                                                            *)
CaptureEnds == \E clean \in BOOLEAN :
    /\ phase = "capture"
    /\ IF clean THEN phase' = "collect" /\ UNCHANGED code ELSE Exit(1)
    /\ UNCHANGED <<storeVars, inputs, pos, pending, reports, loginIDs, stored, runs, before>>

(***************************************************************************)
(* collectCaptureGames                                                     *)
(***************************************************************************)
Wanted(uuid) == filter \in {None, uuid}

Aborts(frame) == frame.kind = "bad" \/ (frame.kind = "record" /\ Wanted(frame.uuid) /\ ~frame.sound)

\* mutant: the first report of a game is kept
FirstReport(uuid) == IF reports[uuid] = 0 THEN pos + 1 ELSE reports[uuid]
LatestReport(uuid) == pos + 1

ReadFrame ==
    /\ phase = "collect"
    /\ pos < Len(capture)
    /\ ~Aborts(capture[pos + 1])
    /\ LET frame == capture[pos + 1] IN
       /\ loginIDs' = IF frame.kind = "login" THEN loginIDs \cup {frame.id} ELSE loginIDs
       /\ reports' = IF frame.kind = "report"
                     THEN [reports EXCEPT ![frame.uuid] = LatestReport(frame.uuid)] ELSE reports
       /\ pending' = IF frame.kind = "record" /\ Wanted(frame.uuid)
                     THEN Append(pending, pos + 1) ELSE pending
    /\ pos' = pos + 1
    /\ UNCHANGED <<storeVars, inputs, phase, stored, code, runs, before>>

(* The whole command ends at the first such frame: nothing is stored.       *)
CollectFails ==
    /\ phase = "collect"
    /\ pos < Len(capture)
    /\ Aborts(capture[pos + 1])
    /\ Exit(1)
    /\ UNCHANGED <<storeVars, inputs, pos, pending, reports, loginIDs, stored, runs, before>>

CollectEnds ==
    /\ phase = "collect"
    /\ pos = Len(capture)
    /\ IF pending = << >> THEN Exit(1) ELSE phase' = "login" /\ UNCHANGED code
    /\ UNCHANGED <<storeVars, inputs, pos, pending, reports, loginIDs, stored, runs, before>>

(***************************************************************************)
(* reuseLoginIDs, when the capture has no login: the first login of the    *)
(* newest other capture that has one.                                      *)
(***************************************************************************)
WithLogin == {c \in 1..Len(earlier) : earlier[c] # << >>}
ReusedIDs == IF WithLogin = {} THEN {} ELSE {earlier[Min(WithLogin)][1]}

KnownIDs == IF loginIDs = {} THEN ReusedIDs ELSE loginIDs

ReuseLogin ==
    /\ phase = "login"
    /\ loginIDs' = KnownIDs
    /\ phase' = "join"
    /\ UNCHANGED <<storeVars, inputs, pos, pending, reports, stored, code, runs, before>>

-----------------------------------------------------------------------------
(***************************************************************************)
(* joinAndStoreGames                                                       *)
(***************************************************************************)
AtTable(uuid, ids) == {a \in ids : SeatOf[uuid][a] # None}
SelfSeat(uuid, ids) ==
    IF Cardinality(AtTable(uuid, ids)) # 1 THEN None
    ELSE SeatOf[uuid][CHOOSE a \in AtTable(uuid, ids) : TRUE]

(* The reconstruction of the n-th collected record                          *)
Joined(n) ==
    LET uuid == capture[pending[n]].uuid IN
    [uuid |-> uuid, record |-> pending[n], report |-> reports[uuid],
     seat |-> SelfSeat(uuid, loginIDs)]

Joins(n) == LET report == reports[capture[pending[n]].uuid] IN
    report # 0 => capture[report].joins

(* The next game: its report is joined, and Save called.                    *)
JoinNext ==
    /\ phase = "join"
    /\ stored < Len(pending)
    /\ Joins(stored + 1)
    /\ phase' = "save" /\ save' = "create"
    /\ UNCHANGED <<dir, onDisk, tmp, listing, inputs, pos, pending, reports, loginIDs, stored, code, runs, before>>

JoinFails ==
    /\ phase = "join"
    /\ stored < Len(pending)
    /\ ~Joins(stored + 1)
    /\ Exit(1)
    /\ UNCHANGED <<storeVars, inputs, pos, pending, reports, loginIDs, stored, runs, before>>

SaveStep ==
    /\ phase = "save"
    /\ CreateTemp(Joined(stored + 1)) \/ WriteTemp \/ SyncTemp \/ Publish
    /\ UNCHANGED <<inputs, phase, pos, pending, reports, loginIDs, stored, code, runs, before>>

SaveReturns ==
    /\ phase = "save"
    /\ SyncDir
    /\ stored' = stored + 1
    /\ phase' = "join"
    /\ UNCHANGED <<inputs, pos, pending, reports, loginIDs, code, runs, before>>

\* mutant: a failed save is passed over
GoOn == phase' = "join" /\ stored' = stored + 1 /\ UNCHANGED code
GiveUp == Exit(1) /\ UNCHANGED stored

SaveError ==
    /\ phase = "save"
    /\ SaveFails
    /\ GiveUp
    /\ UNCHANGED <<inputs, pos, pending, reports, loginIDs, runs, before>>

AllStored ==
    /\ phase = "join"
    /\ stored = Len(pending)
    /\ phase' = "output"
    /\ UNCHANGED <<storeVars, inputs, pos, pending, reports, loginIDs, stored, code, runs, before>>

(* writeGamesOutput: --out may exist already, or the write fail.            *)
WriteOutput == \E status \in 0..1 :
    /\ phase = "output"
    /\ Exit(status)
    /\ UNCHANGED <<storeVars, inputs, pos, pending, reports, loginIDs, stored, runs, before>>

-----------------------------------------------------------------------------
Lister ==
    /\ ReadDir \/ (\E u \in Uuids : Load(u)) \/ ListEnds
    /\ UNCHANGED <<inputs, phase, pos, pending, reports, loginIDs, stored, code, runs, before>>

PowerLoss ==
    /\ PowerFails
    /\ phase' = "down"
    /\ UNCHANGED <<inputs, pos, pending, reports, loginIDs, stored, code, runs, before>>

Collecting ==
    /\ phase' = "collect"
    /\ pos' = 0
    /\ pending' = << >>
    /\ reports' = [u \in Uuids |-> 0]
    /\ loginIDs' = {}
    /\ stored' = 0
    /\ code' = 0
    /\ before' = dir

DecodeAgain ==
    /\ phase \in {"exit", "down"}
    /\ runs < MaxRuns
    /\ runs' = runs + 1
    /\ Collecting
    /\ UNCHANGED <<storeVars, inputs>>

Init ==
    /\ StoreInit
    /\ capture \in Captures
    /\ earlier \in EarlierLogins
    /\ filter \in Filters
    /\ phase \in {"capture", "collect"}
    /\ phase = "capture" => filter = None
    /\ pos = 0 /\ pending = << >>
    /\ reports = [u \in Uuids |-> 0] /\ loginIDs = {}
    /\ stored = 0 /\ code = 0 /\ runs = 1
    /\ before = dir

Next ==
    \/ CaptureEnds \/ ReadFrame \/ CollectFails \/ CollectEnds \/ ReuseLogin
    \/ JoinNext \/ JoinFails \/ SaveStep \/ SaveReturns \/ SaveError \/ AllStored \/ WriteOutput
    \/ Lister \/ PowerLoss \/ DecodeAgain

Spec == Init /\ [][Next]_vars

-----------------------------------------------------------------------------
(***************************************************************************)
(* Properties                                                              *)
(***************************************************************************)
Places(kind, uuid) == {i \in 1..Len(capture) : capture[i].kind = kind /\ capture[i].uuid = uuid}
Last(places) == IF places = {} THEN 0 ELSE Max(places)
LoggedIn == {capture[i].id : i \in {j \in 1..Len(capture) : capture[j].kind = "login"}}
Owners == IF LoggedIn # {} THEN LoggedIn ELSE ReusedIDs

(* The game a finished run owes the store: the last record of the uuid with *)
(* the last report of it, wherever the report stands in the capture, and    *)
(* the seat of the one account of the user, wherever the login stands.      *)
Owed(uuid) ==
    [uuid |-> uuid, record |-> Last(Places("record", uuid)),
     report |-> Last(Places("report", uuid)), seat |-> SelfSeat(uuid, Owners)]

(* An exit with 0 means that every wanted game of the capture is stored in  *)
(* full, its own last record with its own last report (decode.go:132-136),  *)
(* and every other entry of the store is as it was, whatever earlier runs   *)
(* left behind.                                                             *)
ExitZeroStored == phase = "exit" /\ code = 0 =>
    \A u \in Uuids : dir[u] = IF Wanted(u) /\ Places("record", u) # {} THEN Owed(u) ELSE before[u]

(* A run stores its games in capture order and keeps those it stored when a *)
(* later one fails (decode.go:207-210): at every moment the store holds, of *)
(* each game, the last record saved so far, or what it held before the run. *)
SavedSoFar == stored + (IF save = "dirsync" THEN 1 ELSE 0)
PartialProgress == phase # "down" =>
    \A u \in Uuids :
        LET saved == {n \in 1..SavedSoFar : capture[pending[n]].uuid = u} IN
        dir[u] = IF saved = {} THEN before[u] ELSE Joined(Max(saved))
=============================================================================
