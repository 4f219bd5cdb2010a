--------------------------- MODULE PipelineProofs ---------------------------
(***************************************************************************)
(* Proofs about Pipeline and the GameStore it drives, for any captures,    *)
(* games, accounts and runs: the store is a map of complete games that a   *)
(* listing never finds broken, and a run that fails keeps what it stored.  *)
(***************************************************************************)
EXTENDS Pipeline, FiniteSetTheorems, SequenceTheorems, WellFoundedInduction, TLAPS

(* The store: a file is a complete game of its own uuid, whatever a power   *)
(* loss leaves; a temporary file is renamed only when its bytes are on the  *)
(* disk; and what a listing has still to load is there.                     *)
FilesComplete ==
    /\ dir \in [Uuids -> Games \cup {None}]
    /\ onDisk \in [Uuids -> SUBSET (Games \cup {None})]
    /\ \A u \in Uuids : dir[u] \in onDisk[u] /\ onDisk[u] \subseteq GamesOf[u] \cup {None}

TempSynced ==
    /\ save \in {"idle", "create", "write", "sync", "rename", "dirsync"}
    /\ IF save \in {"idle", "create", "dirsync"} THEN tmp = None ELSE tmp \in Temps
    /\ save = "rename" => tmp.bytes = "synced"

ListingFinds ==
    /\ listing \in [state : {"idle", "loading"}, names : SUBSET Uuids]
    /\ \A u \in listing.names : dir[u] # None

StoreInv == FilesComplete /\ TempSynced /\ ListingFinds

(* The run: what was collected are records of the capture read so far, and  *)
(* nothing is stored before the collection has ended.                       *)
Collected ==
    /\ capture \in Captures
    /\ earlier \in EarlierLogins
    /\ phase \in {"capture", "collect", "login", "join", "save", "output", "exit", "down"}
    /\ pos \in 0..Len(capture)
    /\ pending \in Seq(1..pos)
    /\ \A n \in 1..Len(pending) : capture[pending[n]].kind = "record"
    /\ reports \in [Uuids -> 0..pos]
    /\ loginIDs \subseteq Accounts
    /\ code \in 0..1 /\ runs \in 1..MaxRuns
    /\ before \in [Uuids -> Games \cup {None}]

Progressing ==
    /\ stored \in 0..Len(pending)
    /\ phase \in {"capture", "collect", "login"} => stored = 0
    /\ phase = "save" => stored < Len(pending)
    /\ save # "idle" => phase = "save"
    /\ save \in {"write", "sync", "rename"} => tmp.game = Joined(stored + 1)
    /\ phase = "save" => save # "idle"

RunInv == Collected /\ Progressing

PipelineInv == StoreInv /\ RunInv

-----------------------------------------------------------------------------
(***************************************************************************)
(* The data.                                                               *)
(***************************************************************************)
LEMMA LeastOfNaturals ==
    ASSUME NEW S, S \subseteq Nat, S # {}
    PROVE  \E x \in S : \A y \in S : x <= y
  <1> DEFINE R == {p \in Nat \X Nat : p[1] < p[2]}
  <1>1. IsWellFoundedOn(R, Nat)
    BY NatLessThanWellFounded DEF OpToRel
  <1>2. \A x, y \in Nat : <<y, x>> \in R <=> y < x
    OBVIOUS
  <1> HIDE DEF R
  <1>3. PICK x \in S : \A y \in S : ~ (<<y, x>> \in R)
    BY <1>1, WFMin
  <1>4. ASSUME NEW y \in S PROVE x <= y
    <2>1. x \in Nat /\ y \in Nat
      OBVIOUS
    <2>2. ~ (y < x)
      BY <1>2, <1>3, <2>1
    <2> QED  BY <2>1, <2>2
  <1> QED  BY <1>4

LEMMA MinOfNaturals ==
    ASSUME NEW S, S \subseteq Nat, S # {}
    PROVE  Min(S) \in S
  BY LeastOfNaturals DEF Min

LEMMA MaxIs ==
    ASSUME NEW S, S \subseteq Nat, NEW m \in S, \A k \in S : k <= m
    PROVE  Max(S) = m
  <1>1. m \in S /\ \A k \in S : m >= k
    OBVIOUS
  <1>2. ASSUME NEW x \in S, \A k \in S : x >= k PROVE x = m
    BY <1>2
  <1> QED  BY <1>1, <1>2 DEF Max

LEMMA MaxOfBounded ==
    ASSUME NEW n \in Nat, NEW S, S \subseteq 0..n, S # {}
    PROVE  Max(S) \in S /\ \A k \in S : k <= Max(S)
  <1> DEFINE below == {n - k : k \in S}
  <1>1. below \subseteq Nat /\ below # {}
    <2>1. ASSUME NEW k \in S PROVE n - k \in Nat
      <3>1. k \in 0..n
        OBVIOUS
      <3> QED  BY <3>1
    <2> QED  BY <2>1
  <1>2. PICK x \in below : \A y \in below : x <= y
    BY <1>1, LeastOfNaturals
  <1>3. PICK m \in S : x = n - m
    BY <1>2
  <1>4. ASSUME NEW k \in S PROVE k <= m
    <2>1. n - m <= n - k
      BY <1>2, <1>3
    <2>2. k \in 0..n /\ m \in 0..n
      OBVIOUS
    <2> QED  BY <2>1, <2>2
  <1>5. Max(S) = m
    <2>1. S \subseteq Nat
      OBVIOUS
    <2> QED  BY <1>4, <2>1, MaxIs
  <1> QED  BY <1>4, <1>5

LEMMA GamesOfUuid ==
    ASSUME NEW u \in Uuids
    PROVE  /\ GamesOf[u] \subseteq Games
           /\ \A g \in GamesOf[u] : g.uuid = u
  BY DEF GamesOf, Games

LEMMA GameHasUuid ==
    ASSUME NEW g \in Games
    PROVE  g.uuid \in Uuids /\ g \in GamesOf[g.uuid]
  BY DEF GamesOf, Games

LEMMA FramesOfCapture ==
    ASSUME NEW c \in Captures
    PROVE  /\ Len(c) \in 0..MaxRecords
           /\ \A i \in 1..Len(c) : c[i] \in Frames
  <1>1. PICK n \in 0..MaxRecords : c \in [1..n -> Frames]
    BY DEF Captures
  <1>2. n \in Nat
    BY <1>1, StoreAssumption
  <1>3. Len(c) = n
    BY <1>1, <1>2
  <1> QED  BY <1>1, <1>3

(* The seat is one of the table's, or none.                                 *)
LEMMA SeatTyped ==
    ASSUME NEW u \in Uuids, NEW ids, ids \subseteq Accounts
    PROVE  SelfSeat(u, ids) \in Seats \cup {None}
  <1>1. CASE Cardinality(AtTable(u, ids)) # 1
    BY <1>1 DEF SelfSeat
  <1>2. CASE Cardinality(AtTable(u, ids)) = 1
    <2>1. AtTable(u, ids) # {}
      BY <1>2, FS_EmptySet
    <2>2. (CHOOSE a \in AtTable(u, ids) : TRUE) \in Accounts
      BY <2>1 DEF AtTable
    <2> QED  BY <1>2, <2>2, PipelineAssumption DEF SelfSeat
  <1> QED  BY <1>1, <1>2

(* What is joined is a game.                                                *)
LEMMA JoinedTyped ==
    ASSUME Collected, NEW n \in 1..Len(pending)
    PROVE  /\ capture[pending[n]].uuid \in Uuids
           /\ Joined(n).uuid = capture[pending[n]].uuid
           /\ Joined(n) \in Games
  <1> DEFINE u == capture[pending[n]].uuid
  <1>1. pending[n] \in 1..pos /\ pos \in 0..Len(capture)
    BY DEF Collected
  <1>2. /\ Len(capture) \in 0..MaxRecords
        /\ \A i \in 1..Len(capture) : capture[i] \in Frames
    BY FramesOfCapture DEF Collected
  <1>3. capture[pending[n]] \in Frames /\ capture[pending[n]].kind = "record"
    BY <1>1, <1>2 DEF Collected
  <1>4. u \in Uuids
    BY <1>3 DEF Frames
  <1>5. pending[n] \in 0..MaxRecords /\ reports[u] \in 0..MaxRecords
    BY <1>1, <1>2, <1>4, StoreAssumption DEF Collected
  <1>6. SelfSeat(u, loginIDs) \in Seats \cup {None}
    BY <1>4, SeatTyped DEF Collected
  <1>7. Joined(n) = [uuid |-> u, record |-> pending[n], report |-> reports[u],
                     seat |-> SelfSeat(u, loginIDs)]
    BY DEF Joined
  <1> HIDE DEF u
  <1>8. Joined(n) \in GamesOf[u]
    BY <1>4, <1>5, <1>6, <1>7 DEF GamesOf
  <1> QED  BY <1>4, <1>7, <1>8, GamesOfUuid DEF u

(* The reused login is that of an account.                                  *)
LEMMA KnownTyped ==
    ASSUME Collected
    PROVE  KnownIDs \subseteq Accounts
  <1>1. CASE WithLogin = {}
    BY <1>1 DEF KnownIDs, ReusedIDs, Collected
  <1>2. CASE WithLogin # {}
    <2>1. earlier \in Seq(Seq(Accounts))
      BY PipelineAssumption DEF Collected
    <2>2. Min(WithLogin) \in WithLogin
      <3>1. WithLogin \subseteq Nat
        BY <2>1 DEF WithLogin
      <3> QED  BY <1>2, <3>1, MinOfNaturals
    <2>3. earlier[Min(WithLogin)] \in Seq(Accounts) /\ earlier[Min(WithLogin)] # << >>
      BY <2>1, <2>2 DEF WithLogin
    <2>4. earlier[Min(WithLogin)][1] \in Accounts
      BY <2>3
    <2> QED  BY <1>2, <2>4 DEF KnownIDs, ReusedIDs, Collected
  <1> QED  BY <1>1, <1>2

-----------------------------------------------------------------------------
(***************************************************************************)
(* The store.                                                              *)
(***************************************************************************)
SaveCalled == save = "idle" /\ save' = "create" /\ UNCHANGED <<dir, onDisk, tmp, listing>>

(* Every step of the pipeline does one of these to the store.               *)
StoreStep ==
    \/ SaveCalled \/ (\E g \in Games : CreateTemp(g)) \/ WriteTemp \/ SyncTemp
    \/ Publish \/ SyncDir \/ SaveFails
    \/ ReadDir \/ (\E u \in Uuids : Load(u)) \/ ListEnds \/ PowerFails
    \/ UNCHANGED storeVars

LEMMA StoreStarts == StoreInit => StoreInv /\ Map!Init
  <1> SUFFICES ASSUME StoreInit PROVE StoreInv /\ Map!Init
    OBVIOUS
  <1>1. \A u \in Uuids : OldGame(u) \in GamesOf[u]
    BY StoreAssumption DEF OldGame, GamesOf
  <1>2. /\ dir \in [Uuids -> {OldGame(u) : u \in Uuids} \cup {None}]
        /\ \A u \in Uuids : dir[u] \in {OldGame(u), None}
        /\ onDisk = [u \in Uuids |-> {dir[u]}]
    BY DEF StoreInit
  <1>3. \A u \in Uuids : dir[u] \in GamesOf[u] \cup {None}
    BY <1>1, <1>2
  <1>4. \A u \in Uuids : dir[u] \in Games \cup {None}
    BY <1>3, GamesOfUuid
  <1>5. FilesComplete
    BY <1>2, <1>3, <1>4 DEF FilesComplete
  <1>6. TempSynced /\ ListingFinds
    BY DEF StoreInit, TempSynced, ListingFinds
  <1>7. Map!Init
    BY <1>2, <1>3, <1>4 DEF Map!Init, Games
  <1> QED  BY <1>5, <1>6, <1>7 DEF StoreInv

(* Until the file is renamed nothing happens to the entries.                *)
LEMMA QuietStore ==
    ASSUME StoreInv,
           \/ SaveCalled \/ (\E g \in Games : CreateTemp(g)) \/ WriteTemp \/ SyncTemp \/ SaveFails
           \/ ReadDir \/ (\E u \in Uuids : Load(u)) \/ ListEnds \/ UNCHANGED storeVars
    PROVE  StoreInv' /\ UNCHANGED Map!vars
  <1>1. UNCHANGED <<dir, onDisk>>
    BY DEF SaveCalled, CreateTemp, WriteTemp, SyncTemp, SaveFails, KeepPublished, ReadDir,
           Load, ListEnds, storeVars
  <1>2. FilesComplete /\ TempSynced /\ ListingFinds
    BY DEF StoreInv
  <1>3. FilesComplete'
    BY <1>1, <1>2 DEF FilesComplete
  <1>4. TempSynced'
    <2>1. CASE SaveCalled
      BY <1>2, <2>1 DEF TempSynced, SaveCalled
    <2>2. CASE \E g \in Games : CreateTemp(g)
      BY <2>2 DEF TempSynced, CreateTemp, Temps
    <2>3. CASE WriteTemp
      BY <1>2, <2>3 DEF TempSynced, WriteTemp, Temps
    <2>4. CASE SyncTemp
      BY <1>2, <2>4 DEF TempSynced, SyncTemp, SyncedBytes, Temps
    <2>5. CASE SaveFails
      BY <2>5 DEF TempSynced, SaveFails, RemoveTemp
    <2>6. CASE UNCHANGED <<save, tmp>>
      BY <1>2, <2>6 DEF TempSynced
    <2> QED  BY <2>1, <2>2, <2>3, <2>4, <2>5, <2>6 DEF ReadDir, Load, ListEnds, storeVars
  <1>5. ListingFinds'
    <2>1. CASE ReadDir
      BY <1>1, <2>1 DEF ListingFinds, ReadDir
    <2>2. ASSUME NEW u \in Uuids, Load(u) PROVE ListingFinds'
      <3>1. u \in listing.names /\ dir[u] # None
        BY <1>2, <2>2 DEF ListingFinds, Load
      <3>2. dir[u] \in Games
        BY <1>2, <3>1 DEF FilesComplete
      <3>3. listing' = [listing EXCEPT !.names = @ \ {u}]
        BY <2>2, <3>2 DEF Load
      <3> QED  BY <1>1, <1>2, <3>3 DEF ListingFinds
    <2>3. CASE ListEnds
      BY <2>3 DEF ListingFinds, ListEnds
    <2>4. CASE UNCHANGED listing
      BY <1>1, <1>2, <2>4 DEF ListingFinds
    <2> QED  BY <2>1, <2>2, <2>3, <2>4
             DEF SaveCalled, CreateTemp, WriteTemp, SyncTemp, SaveFails, storeVars
  <1> QED  BY <1>1, <1>3, <1>4, <1>5 DEF StoreInv, Map!vars

LEMMA PublishStep ==
    ASSUME StoreInv, Publish
    PROVE  StoreInv' /\ Map!Next
  <1> DEFINE u == tmp.game.uuid
             g == tmp.game
  <1>1. /\ FilesComplete /\ TempSynced /\ ListingFinds /\ save = "rename"
        /\ tmp' = None /\ save' = "dirsync" /\ listing' = listing
    BY DEF StoreInv, Publish
  <1>2. tmp \in Temps /\ tmp.bytes = "synced"
    BY <1>1 DEF TempSynced
  <1>3. g \in Games /\ u \in Uuids /\ g \in GamesOf[u] /\ g # None
    BY <1>2, GameHasUuid, StoreAssumption DEF Temps
  <1>4. /\ dir' = [dir EXCEPT ![u] = g]
        /\ onDisk' = [onDisk EXCEPT ![u] = @ \cup {g}]
    BY <1>2 DEF Publish, Leavings
  <1> HIDE DEF u, g
  <1>5. FilesComplete'
    BY <1>1, <1>3, <1>4 DEF FilesComplete
  <1>6. TempSynced'
    BY <1>1 DEF TempSynced
  <1>7. ListingFinds'
    BY <1>1, <1>3, <1>4 DEF ListingFinds, FilesComplete
  <1>8. Map!Put(u)
    BY <1>3, <1>4 DEF Map!Put
  <1> QED  BY <1>3, <1>5, <1>6, <1>7, <1>8 DEF StoreInv, Map!Next

LEMMA SyncDirStep ==
    ASSUME StoreInv, SyncDir
    PROVE  StoreInv' /\ [Map!Next]_Map!vars
  <1>1. /\ FilesComplete /\ TempSynced /\ ListingFinds
        /\ save = "dirsync" /\ save' = "idle" /\ UNCHANGED <<dir, tmp, listing>>
        /\ onDisk' \in {onDisk, [u \in Uuids |-> {dir[u]}]}
    BY DEF StoreInv, SyncDir
  <1>2. FilesComplete'
    BY <1>1 DEF FilesComplete
  <1>3. TempSynced' /\ ListingFinds'
    BY <1>1 DEF TempSynced, ListingFinds
  <1>4. [Map!Next]_Map!vars
    BY <1>1 DEF Map!Next, Map!Settle, Map!vars
  <1> QED  BY <1>2, <1>3, <1>4 DEF StoreInv

LEMMA PowerStep ==
    ASSUME StoreInv, PowerFails
    PROVE  StoreInv' /\ Map!Next
  <1>1. /\ FilesComplete
        /\ dir' \in [Uuids -> UNION {onDisk[u] : u \in Uuids}]
        /\ \A u \in Uuids : dir'[u] \in onDisk[u]
        /\ onDisk' = [u \in Uuids |-> {dir'[u]}]
        /\ save' = "idle" /\ tmp' = None /\ listing' = [state |-> "idle", names |-> {}]
    BY DEF StoreInv, PowerFails
  <1>2. \A u \in Uuids : dir'[u] \in Games \cup {None} /\ dir'[u] \in GamesOf[u] \cup {None}
    BY <1>1 DEF FilesComplete
  <1>3. FilesComplete'
    BY <1>1, <1>2 DEF FilesComplete
  <1>4. TempSynced' /\ ListingFinds'
    BY <1>1 DEF TempSynced, ListingFinds
  <1>5. Map!PowerLoss
    BY <1>1 DEF Map!PowerLoss
  <1> QED  BY <1>3, <1>4, <1>5 DEF StoreInv, Map!Next

LEMMA StoreKeeps ==
    ASSUME StoreInv, StoreStep
    PROVE  StoreInv' /\ [Map!Next]_Map!vars
  BY QuietStore, PublishStep, SyncDirStep, PowerStep DEF StoreStep

-----------------------------------------------------------------------------
(***************************************************************************)
(* The run.                                                                *)
(***************************************************************************)
(* What Save does to the store while the run waits for it.                  *)
LEMMA SaveIsStoreStep ==
    ASSUME RunInv, StoreInv, Next
    PROVE  StoreStep
  <1>1. ASSUME phase = "save", CreateTemp(Joined(stored + 1))
        PROVE  StoreStep
    <2>1. stored + 1 \in 1..Len(pending)
      BY <1>1 DEF RunInv, Progressing, Collected
    <2>2. Joined(stored + 1) \in Games
      BY <2>1, JoinedTyped DEF RunInv
    <2> QED  BY <1>1, <2>2 DEF StoreStep
  <1>2. ASSUME JoinNext PROVE StoreStep
    BY <1>2 DEF JoinNext, StoreStep, SaveCalled, RunInv, Progressing, StoreInv, TempSynced
  <1>3. ASSUME SaveStep PROVE StoreStep
    BY <1>1, <1>3 DEF SaveStep, StoreStep
  <1>4. ASSUME SaveReturns \/ SaveError \/ Lister \/ PowerLoss PROVE StoreStep
    BY <1>4 DEF SaveReturns, SaveError, Lister, PowerLoss, StoreStep
  <1>5. ASSUME \/ CaptureEnds \/ ReadFrame \/ CollectFails \/ CollectEnds \/ ReuseLogin
               \/ JoinFails \/ AllStored \/ WriteOutput \/ DecodeAgain
        PROVE  StoreStep
    BY <1>5 DEF CaptureEnds, ReadFrame, CollectFails, CollectEnds, ReuseLogin, JoinFails,
                AllStored, WriteOutput, DecodeAgain, StoreStep
  <1> QED  BY <1>2, <1>3, <1>4, <1>5 DEF Next

LEMMA RunStarts == Init => RunInv
  <1> SUFFICES ASSUME Init PROVE RunInv
    OBVIOUS
  <1>1. << >> \in Seq(1..pos) /\ Len(<< >>) = 0
    OBVIOUS
  <1>2. Len(capture) \in Nat
    BY FramesOfCapture, StoreAssumption DEF Init
  <1>3. before \in [Uuids -> Games \cup {None}]
    BY StoreStarts DEF Init, StoreInv, FilesComplete
  <1>4. Collected
    BY <1>1, <1>2, <1>3, PipelineAssumption DEF Init, Collected
  <1>5. Progressing
    BY <1>1 DEF Init, StoreInit, Progressing
  <1> QED  BY <1>4, <1>5 DEF RunInv

(* A step that collects nothing and stores nothing keeps what was collected.*)
LEMMA SameCollected ==
    ASSUME Collected,
           UNCHANGED <<capture, earlier, pos, pending, reports, before, runs>>,
           loginIDs' \subseteq Accounts, code' \in 0..1,
           phase' \in {"capture", "collect", "login", "join", "save", "output", "exit", "down"}
    PROVE  Collected'
  BY DEF Collected

LEMMA SameJoined ==
    ASSUME UNCHANGED <<capture, pending, reports, loginIDs>>
    PROVE  \A n : Joined(n)' = Joined(n)
  BY DEF Joined, SelfSeat, AtTable

LEMMA FrameRead ==
    ASSUME RunInv, ReadFrame, NEW frame, frame = capture[pos + 1]
    PROVE  /\ Collected /\ Progressing /\ phase = "collect" /\ phase' = phase
           /\ UNCHANGED <<capture, earlier, filter, stored, code, runs, before, save, tmp>>
           /\ pos \in Nat /\ pos' = pos + 1 /\ Len(capture) \in Nat /\ pos + 1 \in 1..Len(capture)
           /\ frame \in Frames
           /\ loginIDs' = IF frame.kind = "login" THEN loginIDs \cup {frame.id} ELSE loginIDs
           /\ reports' = IF frame.kind = "report"
                         THEN [reports EXCEPT ![frame.uuid] = pos + 1] ELSE reports
           /\ pending' = IF frame.kind = "record" /\ Wanted(frame.uuid)
                         THEN Append(pending, pos + 1) ELSE pending
           /\ pending \in Seq(1..pos) /\ Len(pending) \in Nat
           /\ \A n \in 1..Len(pending) : pending[n] \in 1..pos /\ capture[pending[n]].kind = "record"
  <1>1. Collected /\ Progressing
    BY DEF RunInv
  <1>2. pos \in Nat /\ Len(capture) \in Nat /\ pos + 1 \in 1..Len(capture)
    BY <1>1, FramesOfCapture, StoreAssumption DEF Collected, ReadFrame
  <1>3. frame \in Frames
    BY <1>1, <1>2, FramesOfCapture DEF Collected
  <1>4. /\ pending \in Seq(1..pos) /\ Len(pending) \in Nat
        /\ \A n \in 1..Len(pending) : pending[n] \in 1..pos /\ capture[pending[n]].kind = "record"
    BY <1>1 DEF Collected
  <1> QED  BY <1>1, <1>2, <1>3, <1>4 DEF ReadFrame, inputs, storeVars, LatestReport

LEMMA ReadStep ==
    ASSUME RunInv, ReadFrame
    PROVE  RunInv'
  <1> DEFINE frame == capture[pos + 1]
  <1>1. /\ Collected /\ Progressing /\ phase = "collect" /\ phase' = phase /\ pos' = pos + 1
        /\ UNCHANGED <<capture, earlier, stored, code, runs, before, save, tmp>>
        /\ loginIDs' = IF frame.kind = "login" THEN loginIDs \cup {frame.id} ELSE loginIDs
        /\ reports' = IF frame.kind = "report"
                      THEN [reports EXCEPT ![frame.uuid] = pos + 1] ELSE reports
        /\ pending' = IF frame.kind = "record" /\ Wanted(frame.uuid)
                      THEN Append(pending, pos + 1) ELSE pending
    BY FrameRead
  <1>2. pos \in Nat /\ Len(capture) \in Nat /\ pos + 1 \in 1..Len(capture)
    BY FrameRead
  <1>3. frame \in Frames
    BY FrameRead
  <1>4. loginIDs' \subseteq Accounts
    BY <1>1, <1>3 DEF Collected, Frames
  <1>5. reports' \in [Uuids -> 0..pos']
    <2>1. reports \in [Uuids -> 0..pos']
      BY <1>1, <1>2 DEF Collected
    <2>2. pos + 1 \in 0..pos'
      BY <1>1, <1>2
    <2> QED  BY <1>1, <2>1, <2>2
  <1>6. /\ pending \in Seq(1..pos) /\ Len(pending) \in Nat
        /\ \A n \in 1..Len(pending) : pending[n] \in 1..pos /\ capture[pending[n]].kind = "record"
    BY <1>1 DEF Collected
  <1>7. pending \in Seq(1..pos')
    BY <1>1, <1>2, <1>6, SeqDef
  <1>8. /\ pending' \in Seq(1..pos') /\ Len(pending') \in Nat /\ Len(pending') >= Len(pending)
        /\ \A n \in 1..Len(pending') : capture[pending'[n]].kind = "record"
    <2>1. CASE pending' = pending
      BY <1>6, <1>7, <2>1
    <2>2. CASE pending' = Append(pending, pos + 1) /\ frame.kind = "record"
      <3>1. pos + 1 \in 1..pos'
        BY <1>1, <1>2
      <3>2. pending' \in Seq(1..pos') /\ Len(pending') = Len(pending) + 1
        BY <1>7, <2>2, <3>1
      <3>3. ASSUME NEW n \in 1..Len(pending') PROVE capture[pending'[n]].kind = "record"
        <4>1. CASE n = Len(pending) + 1
          BY <1>7, <2>2, <4>1
        <4>2. CASE n \in 1..Len(pending)
          BY <1>6, <1>7, <2>2, <4>2
        <4> QED  BY <1>6, <3>2, <3>3, <4>1, <4>2
      <3> QED  BY <1>6, <3>2, <3>3
    <2> QED  BY <1>1, <2>1, <2>2
  <1>9. Collected'
    <2>1. /\ capture' \in Captures /\ earlier' \in EarlierLogins
          /\ phase' \in {"capture", "collect", "login", "join", "save", "output", "exit", "down"}
          /\ code' \in 0..1 /\ runs' \in 1..MaxRuns
          /\ before' \in [Uuids -> Games \cup {None}]
      BY <1>1 DEF Collected
    <2>2. pos' \in 0..Len(capture)' /\ capture' = capture
      BY <1>1, <1>2
    <2> QED  BY <1>4, <1>5, <1>8, <2>1, <2>2 DEF Collected
  <1>10. Progressing'
    BY <1>1, <1>6, <1>8 DEF Progressing
  <1> QED  BY <1>9, <1>10 DEF RunInv

(* The steps between the collection, the joins and the exit.                *)
LEMMA TurnStep ==
    ASSUME RunInv, StoreInv,
           \/ CaptureEnds \/ CollectFails \/ CollectEnds \/ ReuseLogin
           \/ JoinNext \/ JoinFails \/ AllStored \/ WriteOutput
    PROVE  RunInv'
  <1>1. Collected /\ Progressing
    BY DEF RunInv
  <1>2. stored \in Nat /\ Len(pending) \in Nat
    BY <1>1 DEF Collected, Progressing
  <1>3. UNCHANGED <<capture, earlier, pos, pending, reports, before, runs, stored, tmp>>
    BY DEF CaptureEnds, CollectFails, CollectEnds, ReuseLogin, JoinNext, JoinFails, AllStored,
           WriteOutput, inputs, storeVars
  <1>4. loginIDs' \subseteq Accounts
    BY <1>1, KnownTyped DEF Collected, CaptureEnds, CollectFails, CollectEnds, ReuseLogin,
           JoinNext, JoinFails, AllStored, WriteOutput
  <1>5. /\ code' \in 0..1
        /\ phase' \in {"capture", "collect", "login", "join", "save", "output", "exit", "down"}
    BY <1>1 DEF Collected, CaptureEnds, CollectFails, CollectEnds, ReuseLogin, JoinNext, JoinFails,
           AllStored, WriteOutput, Exit
  <1>6. Collected'
    BY <1>1, <1>3, <1>4, <1>5, SameCollected
  <1>7. Progressing'
    <2>1. CASE JoinNext
      BY <1>1, <1>2, <1>3, <2>1 DEF Progressing, JoinNext
    <2>2. CASE \/ CaptureEnds \/ CollectFails \/ CollectEnds \/ ReuseLogin
               \/ JoinFails \/ AllStored \/ WriteOutput
      <3>1. phase # "save" /\ save = "idle" /\ save' = "idle" /\ phase' # "save"
        BY <1>1, <2>2 DEF Progressing, CaptureEnds, CollectFails, CollectEnds, ReuseLogin, JoinFails,
           AllStored, WriteOutput, Exit, storeVars
      <3>2. phase' \in {"capture", "collect", "login"} => stored = 0
        BY <1>1, <2>2 DEF Progressing, CaptureEnds, CollectFails, CollectEnds, ReuseLogin, JoinFails,
           AllStored, WriteOutput, Exit
      <3> QED  BY <1>1, <1>3, <3>1, <3>2 DEF Progressing
    <2> QED  BY <2>1, <2>2
  <1> QED  BY <1>6, <1>7 DEF RunInv

(* The steps of Save, of a listing, and what ends a run.                    *)
LEMMA SavingStep ==
    ASSUME RunInv, StoreInv,
           \/ SaveStep \/ SaveReturns \/ SaveError \/ Lister \/ PowerLoss \/ UNCHANGED vars
    PROVE  RunInv'
  <1>1. Collected /\ Progressing /\ TempSynced
    BY DEF RunInv, StoreInv
  <1>2. stored \in Nat /\ Len(pending) \in Nat
    BY <1>1 DEF Collected, Progressing
  <1>3. UNCHANGED <<capture, earlier, pos, pending, reports, loginIDs, before, runs>>
    BY DEF SaveStep, SaveReturns, SaveError, Lister, PowerLoss, inputs, vars
  <1>4. /\ loginIDs' \subseteq Accounts /\ code' \in 0..1
        /\ phase' \in {"capture", "collect", "login", "join", "save", "output", "exit", "down"}
    BY <1>1 DEF Collected, SaveStep, SaveReturns, SaveError, GiveUp, Lister, PowerLoss, Exit, vars
  <1>5. Collected'
    BY <1>1, <1>3, <1>4, SameCollected
  <1>6. \A n : Joined(n)' = Joined(n)
    BY <1>3, SameJoined
  <1>7. Progressing'
    <2>1. CASE SaveStep
      <3>1. UNCHANGED <<phase, stored>> /\ phase = "save"
        BY <2>1 DEF SaveStep
      <3>2. CASE CreateTemp(Joined(stored + 1))
        BY <1>1, <1>3, <1>6, <3>1, <3>2 DEF Progressing, CreateTemp
      <3>3. CASE WriteTemp \/ SyncTemp
        <4>1. tmp' = [tmp EXCEPT !.bytes = tmp'.bytes] /\ tmp \in Temps
          BY <1>1, <3>3 DEF TempSynced, WriteTemp, SyncTemp, Temps
        <4>2. tmp'.game = tmp.game /\ save \in {"write", "sync"} /\ save' \in {"sync", "rename"}
          BY <3>3, <4>1 DEF WriteTemp, SyncTemp, Temps
        <4> QED  BY <1>1, <1>3, <1>6, <3>1, <4>2 DEF Progressing
      <3>4. CASE Publish
        BY <1>1, <1>3, <3>1, <3>4 DEF Progressing, Publish
      <3> QED  BY <2>1, <3>2, <3>3, <3>4 DEF SaveStep
    <2>2. CASE SaveReturns
      BY <1>1, <1>2, <1>3, <2>2 DEF Progressing, SaveReturns, SyncDir
    <2>3. CASE SaveError
      BY <1>1, <1>3, <2>3 DEF Progressing, SaveError, SaveFails, GiveUp, Exit
    <2>4. CASE PowerLoss
      BY <1>1, <1>3, <2>4 DEF Progressing, PowerLoss, PowerFails
    <2>5. CASE UNCHANGED <<save, tmp, stored, phase>>
      BY <1>1, <1>3, <1>6, <2>5 DEF Progressing
    <2> QED  BY <2>1, <2>2, <2>3, <2>4, <2>5
             DEF Lister, ReadDir, Load, ListEnds, vars, storeVars
  <1> QED  BY <1>5, <1>7 DEF RunInv

LEMMA AgainStep ==
    ASSUME RunInv, StoreInv, DecodeAgain
    PROVE  RunInv'
  <1>1. /\ Collected /\ Progressing /\ phase \in {"exit", "down"} /\ runs < MaxRuns
        /\ UNCHANGED <<storeVars, inputs>> /\ runs' = runs + 1 /\ Collecting
    BY DEF RunInv, DecodeAgain
  <1>2. << >> \in Seq(1..pos') /\ Len(<< >>) = 0
    OBVIOUS
  <1>3. Len(capture) \in Nat /\ runs' \in 1..MaxRuns
    BY <1>1, FramesOfCapture, StoreAssumption, PipelineAssumption DEF Collected
  <1>4. before' \in [Uuids -> Games \cup {None}]
    BY <1>1 DEF Collecting, StoreInv, FilesComplete
  <1>5. Collected'
    BY <1>1, <1>2, <1>3, <1>4 DEF Collected, Collecting, inputs
  <1>6. Progressing'
    BY <1>1, <1>2 DEF Progressing, Collecting, storeVars
  <1> QED  BY <1>5, <1>6 DEF RunInv

LEMMA PipelineKeeps == PipelineInv /\ [Next]_vars => PipelineInv' /\ [Map!Next]_Map!vars
  <1> SUFFICES ASSUME PipelineInv, [Next]_vars
               PROVE  PipelineInv' /\ [Map!Next]_Map!vars
    OBVIOUS
  <1>1. StoreInv /\ RunInv
    BY DEF PipelineInv
  <1>2. StoreStep
    BY <1>1, SaveIsStoreStep DEF vars, storeVars, StoreStep
  <1>3. RunInv'
    BY <1>1, ReadStep, TurnStep, SavingStep, AgainStep DEF Next
  <1> QED  BY <1>1, <1>2, <1>3, StoreKeeps DEF PipelineInv

THEOREM PipelineInvariant == Spec => []PipelineInv
  <1>1. Init => PipelineInv
    BY StoreStarts, RunStarts DEF Init, PipelineInv
  <1> QED  BY <1>1, PipelineKeeps, PTL DEF Spec

-----------------------------------------------------------------------------
(***************************************************************************)
(* The theorems.                                                           *)
(***************************************************************************)
(* Every reachable state of the store and of decode is well-typed           *)
(* (store.go:39-103, decode.go:130-220).                                    *)
THEOREM PipelineTyped == Spec => []TypeOK
  <1>1. PipelineInv => TypeOK
    <2> SUFFICES ASSUME PipelineInv PROVE TypeOK
      OBVIOUS
    <2>1. FilesComplete /\ TempSynced /\ ListingFinds /\ Collected /\ Progressing
      BY DEF PipelineInv, StoreInv, RunInv
    <2>2. Games \cup {None} \subseteq Contents
      BY DEF Contents
    <2>3. /\ dir \in [Uuids -> Contents] /\ before \in [Uuids -> Contents]
          /\ \A u \in Uuids : dir[u] \in onDisk[u] /\ onDisk[u] \subseteq Contents
      BY <2>1, <2>2 DEF FilesComplete, Collected
    <2>4. /\ tmp \in Temps \cup {None}
          /\ (tmp = None) = (save \in {"idle", "create", "dirsync"})
      BY <2>1, StoreAssumption DEF TempSynced
    <2>5. listing \in [state : {"idle", "loading", "failed"}, names : SUBSET Uuids]
      BY <2>1 DEF ListingFinds
    <2>6. StoreTypeOK
      BY <2>1, <2>3, <2>4, <2>5 DEF StoreTypeOK, TempSynced
    <2> QED  BY <2>1, <2>3, <2>6 DEF TypeOK, Collected, Progressing
  <1> QED  BY <1>1, PipelineInvariant, PTL

(* Save, List and the power losses implement the map of GameMap             *)
(* (store.go:39-41): a save replaces one entry in one step, a failed or     *)
(* interrupted one changes none, and a power loss brings back only an entry *)
(* that was replaced since the directory was last synchronized.             *)
THEOREM StoreRefinesMap == Spec => StoreIsMap
  <1>1. Init => Map!Init
    BY StoreStarts DEF Init
  <1> QED  BY <1>1, PipelineKeeps, PipelineInvariant, PTL DEF Spec, StoreIsMap, Map!Spec

(* A listing beside saves, and after a power loss at any point, finds every *)
(* file it was told of, and complete (store.go:39-41, server.go:83-111).    *)
THEOREM ListSafe == Spec => []ListNeverFails
  <1>1. PipelineInv => ListNeverFails
    BY DEF PipelineInv, StoreInv, ListingFinds, ListNeverFails
  <1> QED  BY <1>1, PipelineInvariant, PTL

-----------------------------------------------------------------------------
(***************************************************************************)
(* What a run has stored.                                                  *)
(***************************************************************************)
(* The saves of game u among the first n records, and what the last of them *)
(* left.                                                                    *)
Saves(n, u) == {k \in 1..n : capture[pending[k]].uuid = u}
Latest(n, u) == IF Saves(n, u) = {} THEN before[u] ELSE Joined(Max(Saves(n, u)))

LEMMA ProgressIsLatest ==
    PartialProgress <=> (phase # "down" => \A u \in Uuids : dir[u] = Latest(SavedSoFar, u))
  BY DEF PartialProgress, Latest, Saves

LEMMA LatestFirst ==
    ASSUME NEW u
    PROVE  Latest(0, u) = before[u]
  BY DEF Latest, Saves

LEMMA LatestNext ==
    ASSUME NEW n \in Nat, NEW u
    PROVE  Latest(n + 1, u) = IF capture[pending[n + 1]].uuid = u THEN Joined(n + 1)
                              ELSE Latest(n, u)
  <1>1. CASE capture[pending[n + 1]].uuid = u
    <2>1. /\ Saves(n + 1, u) \subseteq Nat /\ n + 1 \in Saves(n + 1, u)
          /\ \A k \in Saves(n + 1, u) : k <= n + 1
      BY <1>1 DEF Saves
    <2>2. Max(Saves(n + 1, u)) = n + 1
      BY <2>1, MaxIs
    <2> QED  BY <1>1, <2>1, <2>2 DEF Latest
  <1>2. CASE capture[pending[n + 1]].uuid # u
    <2>1. Saves(n + 1, u) = Saves(n, u)
      BY <1>2 DEF Saves
    <2> QED  BY <1>2, <2>1 DEF Latest
  <1> QED  BY <1>1, <1>2

LEMMA SameLatest ==
    ASSUME UNCHANGED <<capture, pending, reports, loginIDs, before>>
    PROVE  \A n, u : Latest(n, u)' = Latest(n, u)
  <1>1. \A k : Joined(k)' = Joined(k)
    BY SameJoined
  <1>2. \A n, u : Saves(n, u)' = Saves(n, u)
    BY DEF Saves
  <1> QED  BY <1>1, <1>2 DEF Latest

LEMMA LatestIsProgress ==
    ASSUME \A u \in Uuids : dir'[u] = Latest(SavedSoFar, u)'
    PROVE  PartialProgress'
  BY DEF PartialProgress, Latest, Saves

(* Before the first save of a run the store is what the run found.          *)
LEMMA EarlyProgress ==
    ASSUME PipelineInv, PartialProgress,
           \/ CaptureEnds \/ ReadFrame \/ CollectFails \/ CollectEnds \/ ReuseLogin
           \/ DecodeAgain
    PROVE  PartialProgress'
  <1>1. Progressing
    BY DEF PipelineInv, RunInv
  <1>2. stored' = 0 /\ save' = "idle"
    BY <1>1 DEF Progressing, CaptureEnds, ReadFrame, CollectFails, CollectEnds, ReuseLogin,
           DecodeAgain, Collecting, storeVars
  <1>3. \A u \in Uuids : dir'[u] = before'[u]
    <2>1. CASE DecodeAgain
      BY <2>1 DEF DecodeAgain, Collecting, storeVars
    <2>2. CASE CaptureEnds \/ ReadFrame \/ CollectFails \/ CollectEnds \/ ReuseLogin
      <3>1. /\ phase \in {"capture", "collect", "login"} /\ UNCHANGED <<dir, before>>
            /\ stored = 0 /\ save = "idle"
        BY <1>1, <2>2 DEF Progressing, CaptureEnds, ReadFrame, CollectFails, CollectEnds,
               ReuseLogin, storeVars
      <3>2. SavedSoFar = 0
        BY <3>1 DEF SavedSoFar
      <3> QED  BY <3>1, <3>2, ProgressIsLatest, LatestFirst
    <2> QED  BY <2>1, <2>2
  <1>4. SavedSoFar' = 0
    BY <1>2 DEF SavedSoFar
  <1> QED  BY <1>3, <1>4 DEF PartialProgress

(* The rename is the step that stores a game.                               *)
LEMMA PublishProgress ==
    ASSUME PipelineInv, PartialProgress, SaveStep, Publish
    PROVE  PartialProgress'
  <1> DEFINE game == Joined(stored + 1)
             w == capture[pending[stored + 1]].uuid
  <1>1. /\ FilesComplete /\ Collected /\ Progressing
        /\ phase = "save" /\ save = "rename" /\ save' = "dirsync" /\ stored' = stored
        /\ UNCHANGED <<capture, pending, reports, loginIDs, before>>
    BY DEF PipelineInv, StoreInv, RunInv, SaveStep, Publish, inputs
  <1>2. stored \in Nat /\ stored + 1 \in 1..Len(pending)
    BY <1>1 DEF Progressing, Collected
  <1>3. tmp.game = game /\ game.uuid = w /\ w \in Uuids
    BY <1>1, <1>2, JoinedTyped DEF Progressing
  <1>4. dir' = [dir EXCEPT ![w] = game]
    BY <1>3 DEF Publish
  <1>5. SavedSoFar = stored /\ SavedSoFar' = stored + 1
    BY <1>1, <1>2 DEF SavedSoFar
  <1>6. ASSUME NEW u \in Uuids PROVE dir'[u] = Latest(stored + 1, u)
    <2>1. dir[u] = Latest(stored, u)
      BY <1>1, <1>5, ProgressIsLatest
    <2>2. Latest(stored + 1, u) = IF w = u THEN game ELSE Latest(stored, u)
      BY <1>2, LatestNext
    <2>3. dir'[u] = IF w = u THEN game ELSE dir[u]
      BY <1>1, <1>3, <1>4 DEF FilesComplete
    <2> QED  BY <2>1, <2>2, <2>3
  <1>7. \A n, u : Latest(n, u)' = Latest(n, u)
    BY <1>1, SameLatest
  <1>8. \A u \in Uuids : dir'[u] = Latest(SavedSoFar, u)'
    BY <1>5, <1>6, <1>7
  <1> QED  BY <1>8, LatestIsProgress

(* Every other step keeps the entries and how many are saved.               *)
LEMMA SameProgress ==
    ASSUME PipelineInv, PartialProgress, phase # "down",
           UNCHANGED <<capture, pending, reports, loginIDs, before, dir>>,
           SavedSoFar' = SavedSoFar
    PROVE  PartialProgress'
  <1>1. \A n, u : Latest(n, u)' = Latest(n, u)
    BY SameLatest
  <1>2. \A u \in Uuids : dir[u] = Latest(SavedSoFar, u)
    BY ProgressIsLatest
  <1>3. \A u \in Uuids : dir'[u] = Latest(SavedSoFar, u)'
    BY <1>1, <1>2
  <1> QED  BY <1>3, LatestIsProgress

LEMMA LaterProgress ==
    ASSUME PipelineInv, PartialProgress, phase # "down",
           \/ JoinNext \/ JoinFails \/ (SaveStep /\ ~Publish) \/ SaveReturns \/ SaveError
           \/ AllStored \/ WriteOutput \/ Lister \/ UNCHANGED vars
    PROVE  PartialProgress'
  <1>1. Progressing /\ stored \in Nat
    BY DEF PipelineInv, RunInv, Progressing, Collected
  <1>2. UNCHANGED <<capture, pending, reports, loginIDs, before, dir>>
    BY DEF JoinNext, JoinFails, SaveStep, CreateTemp, WriteTemp, SyncTemp, SaveReturns, SyncDir,
           SaveError, SaveFails, KeepPublished, AllStored, WriteOutput,
           Lister, ReadDir, Load, ListEnds, inputs, vars, storeVars
  <1>3. SavedSoFar' = SavedSoFar
    <2>1. CASE SaveReturns
      BY <1>1, <2>1 DEF SaveReturns, SyncDir, SavedSoFar
    <2>2. CASE \/ JoinNext \/ JoinFails \/ (SaveStep /\ ~Publish) \/ SaveError
               \/ AllStored \/ WriteOutput \/ Lister \/ UNCHANGED vars
      <3>1. stored' = stored /\ (save' = "dirsync") = (save = "dirsync")
        BY <1>1, <2>2 DEF Progressing, JoinNext, JoinFails, SaveStep, CreateTemp, WriteTemp,
               SyncTemp, SaveError, SaveFails, GiveUp, Exit, AllStored, WriteOutput,
               Lister, ReadDir, Load, ListEnds, vars, storeVars
      <3> QED  BY <3>1 DEF SavedSoFar
    <2> QED  BY <2>1, <2>2
  <1> QED  BY <1>2, <1>3, SameProgress

(* A run stores its games in capture order and keeps those it stored when a *)
(* later one fails (decode.go:207-210), for any capture, with records and   *)
(* reports of one game repeated, and for any number of runs and power       *)
(* losses.                                                                  *)
THEOREM ProgressSafe == Spec => []PartialProgress
  <1>1. ASSUME Init PROVE PartialProgress
    <2>1. SavedSoFar = 0 /\ dir = before
      BY <1>1 DEF Init, StoreInit, SavedSoFar
    <2> QED  BY <2>1, LatestFirst, ProgressIsLatest
  <1>2. PipelineInv /\ PartialProgress /\ [Next]_vars => PartialProgress'
    <2> SUFFICES ASSUME PipelineInv, PartialProgress, [Next]_vars
                 PROVE  PartialProgress'
      OBVIOUS
    <2>1. CASE phase' = "down"
      BY <2>1 DEF PartialProgress
    <2>2. CASE phase = "down" /\ phase' # "down"
      <3>1. DecodeAgain
        BY <2>2 DEF Next, CaptureEnds, ReadFrame, CollectFails, CollectEnds, ReuseLogin, JoinNext,
               JoinFails, SaveStep, SaveReturns, SaveError, AllStored, WriteOutput, Lister,
               PowerLoss, vars
      <3> QED  BY <3>1, EarlyProgress
    <2>3. CASE phase # "down" /\ phase' # "down"
      <3>1. ~PowerLoss
        BY <2>3 DEF PowerLoss
      <3> QED  BY <2>3, <3>1, EarlyProgress, PublishProgress, LaterProgress DEF Next
    <2> QED  BY <2>1, <2>2, <2>3
  <1> QED  BY <1>1, <1>2, PipelineInvariant, PTL DEF Spec

-----------------------------------------------------------------------------
(***************************************************************************)
(* What a run that ended well has gathered and stored.                     *)
(***************************************************************************)
(* What the collection has gathered: the wanted records in the order of the *)
(* capture, none left out; of each game the last report read; and the       *)
(* accounts that logged in, and after them the reused one.                  *)
RecordsGathered ==
    /\ \A n \in 1..Len(pending) : Wanted(capture[pending[n]].uuid)
    /\ \A m, n \in 1..Len(pending) : m < n => pending[m] < pending[n]
    /\ \A i \in 1..pos : capture[i].kind = "record" /\ Wanted(capture[i].uuid) =>
           \E n \in 1..Len(pending) : pending[n] = i

IsReport(i, u) == capture[i].kind = "report" /\ capture[i].uuid = u
ReportsGathered == \A u \in Uuids :
    /\ reports[u] = 0 \/ IsReport(reports[u], u)
    /\ \A i \in 1..pos : IsReport(i, u) => i <= reports[u]

LoginsRead == {capture[i].id : i \in {j \in 1..pos : capture[j].kind = "login"}}
Succeeded == phase = "exit" /\ code = 0
LoginsGathered ==
    /\ phase \in {"capture", "collect", "login"} => loginIDs = LoginsRead
    /\ phase \in {"join", "save", "output"} \/ Succeeded => loginIDs = Owners

AllDone ==
    /\ phase \in {"login", "join", "save", "output"} \/ Succeeded => pos = Len(capture)
    /\ phase = "output" \/ Succeeded => stored = Len(pending)

Gathered == RecordsGathered /\ ReportsGathered /\ LoginsGathered /\ AllDone

LEMMA NothingGathered ==
    ASSUME pos = 0, pending = << >>, reports = [u \in Uuids |-> 0], loginIDs = {},
           phase \in {"capture", "collect"}
    PROVE  Gathered
  <1>1. RecordsGathered
    BY DEF RecordsGathered
  <1>2. ReportsGathered
    <2>1. \A i \in 1..pos : FALSE
      OBVIOUS
    <2> QED  BY <2>1 DEF ReportsGathered
  <1>3. LoginsGathered
    BY DEF LoginsGathered, LoginsRead, Succeeded
  <1>4. AllDone
    BY DEF AllDone, Succeeded
  <1> QED  BY <1>1, <1>2, <1>3, <1>4 DEF Gathered

(* One frame more of the capture.                                           *)
LEMMA ReadGathers ==
    ASSUME RunInv, Gathered, ReadFrame
    PROVE  Gathered'
  <1> DEFINE frame == capture[pos + 1]
  <1>1. /\ Collected /\ phase = "collect" /\ phase' = phase
        /\ UNCHANGED <<capture, earlier, filter>>
        /\ pos \in Nat /\ pos' = pos + 1 /\ frame \in Frames
        /\ loginIDs' = IF frame.kind = "login" THEN loginIDs \cup {frame.id} ELSE loginIDs
        /\ reports' = IF frame.kind = "report"
                      THEN [reports EXCEPT ![frame.uuid] = pos + 1] ELSE reports
        /\ pending' = IF frame.kind = "record" /\ Wanted(frame.uuid)
                      THEN Append(pending, pos + 1) ELSE pending
        /\ pending \in Seq(1..pos) /\ Len(pending) \in Nat
        /\ \A n \in 1..Len(pending) : pending[n] \in 1..pos
    BY FrameRead
  <1>2. /\ RecordsGathered /\ ReportsGathered
        /\ loginIDs = LoginsRead
    BY <1>1 DEF Gathered, LoginsGathered
  <1>3. \A i \in 1..pos' : i \in 1..pos \/ i = pos + 1
    BY <1>1
  <1>4. RecordsGathered'
    <2>1. CASE frame.kind = "record" /\ Wanted(frame.uuid)
      <3>1. /\ pending' = Append(pending, pos + 1) /\ Len(pending') = Len(pending) + 1
            /\ pending'[Len(pending) + 1] = pos + 1
            /\ \A n \in 1..Len(pending) : pending'[n] = pending[n]
        BY <1>1, <2>1
      <3>2. \A n \in 1..Len(pending') : n \in 1..Len(pending) \/ n = Len(pending) + 1
        BY <1>1, <3>1
      <3>3. \A n \in 1..Len(pending') : Wanted(capture[pending'[n]].uuid)
        BY <1>2, <2>1, <3>1, <3>2 DEF RecordsGathered
      <3>4. \A m, n \in 1..Len(pending') : m < n => pending'[m] < pending'[n]
        <4>1. SUFFICES ASSUME NEW m \in 1..Len(pending'), NEW n \in 1..Len(pending'), m < n
                       PROVE  pending'[m] < pending'[n]
          OBVIOUS
        <4>2. m \in 1..Len(pending)
          BY <1>1, <3>1, <4>1
        <4>3. CASE n \in 1..Len(pending)
          BY <1>2, <3>1, <4>1, <4>2, <4>3 DEF RecordsGathered
        <4>4. CASE n = Len(pending) + 1
          <5>1. pending[m] \in 1..pos
            BY <1>1, <4>2
          <5> QED  BY <1>1, <3>1, <4>2, <4>4, <5>1
        <4> QED  BY <3>2, <4>3, <4>4
      <3>5. ASSUME NEW i \in 1..pos', capture[i].kind = "record", Wanted(capture[i].uuid)
            PROVE  \E n \in 1..Len(pending') : pending'[n] = i
        <4>1. CASE i = pos + 1
          <5>1. Len(pending) + 1 \in 1..Len(pending')
            BY <1>1, <3>1
          <5> QED  BY <3>1, <4>1, <5>1
        <4>2. CASE i \in 1..pos
          <5>1. PICK n \in 1..Len(pending) : pending[n] = i
            BY <1>2, <3>5, <4>2 DEF RecordsGathered
          <5>2. n \in 1..Len(pending')
            BY <1>1, <3>1
          <5> QED  BY <3>1, <5>1, <5>2
        <4> QED  BY <1>3, <4>1, <4>2
      <3> QED  BY <1>1, <3>3, <3>4, <3>5 DEF RecordsGathered, Wanted
    <2>2. CASE ~(frame.kind = "record" /\ Wanted(frame.uuid))
      <3>1. pending' = pending
        BY <1>1, <2>2
      <3>2. ASSUME NEW i \in 1..pos', capture[i].kind = "record", Wanted(capture[i].uuid)
            PROVE  \E n \in 1..Len(pending) : pending[n] = i
        <4>1. i \in 1..pos
          BY <1>3, <2>2, <3>2
        <4> QED  BY <1>2, <3>2, <4>1 DEF RecordsGathered
      <3> QED  BY <1>1, <1>2, <3>1, <3>2 DEF RecordsGathered, Wanted
    <2> QED  BY <2>1, <2>2
  <1>5. ReportsGathered'
    <2>1. SUFFICES ASSUME NEW u \in Uuids
                   PROVE  /\ reports'[u] = 0 \/ IsReport(reports'[u], u)
                          /\ \A i \in 1..pos' : IsReport(i, u) => i <= reports'[u]
      BY <1>1 DEF ReportsGathered, IsReport
    <2>2. /\ reports[u] = 0 \/ IsReport(reports[u], u)
          /\ \A i \in 1..pos : IsReport(i, u) => i <= reports[u]
          /\ reports \in [Uuids -> 0..pos]
      BY <1>1, <1>2 DEF ReportsGathered, Collected
    <2>3. CASE IsReport(pos + 1, u)
      <3>1. reports'[u] = pos + 1
        BY <1>1, <2>2, <2>3 DEF IsReport
      <3>2. \A i \in 1..pos' : i <= pos + 1
        BY <1>1
      <3> QED  BY <2>3, <3>1, <3>2
    <2>4. CASE ~IsReport(pos + 1, u)
      <3>1. reports'[u] = reports[u]
        BY <1>1, <2>2, <2>4 DEF IsReport
      <3> QED  BY <1>3, <2>2, <2>4, <3>1
    <2> QED  BY <2>3, <2>4
  <1>6. LoginsRead' = IF frame.kind = "login" THEN LoginsRead \cup {frame.id} ELSE LoginsRead
    <2>1. {j \in 1..pos' : capture[j].kind = "login"}
            = {j \in 1..pos : capture[j].kind = "login"}
              \cup (IF frame.kind = "login" THEN {pos + 1} ELSE {})
      BY <1>1, <1>3
    <2> QED  BY <1>1, <2>1 DEF LoginsRead
  <1>7. LoginsGathered' /\ AllDone'
    BY <1>1, <1>2, <1>6 DEF LoginsGathered, AllDone, Succeeded
  <1> QED  BY <1>4, <1>5, <1>7 DEF Gathered

(* No other step but a new run changes what was collected.                  *)
LEMMA LaterGathers ==
    ASSUME RunInv, Gathered,
           \/ CaptureEnds \/ CollectFails \/ CollectEnds \/ ReuseLogin \/ JoinNext \/ JoinFails
           \/ SaveStep \/ SaveReturns \/ SaveError \/ AllStored \/ WriteOutput
           \/ Lister \/ PowerLoss \/ UNCHANGED vars
    PROVE  Gathered'
  <1>1. UNCHANGED <<capture, earlier, filter, pos, pending, reports>>
    BY DEF CaptureEnds, CollectFails, CollectEnds, ReuseLogin, JoinNext, JoinFails, SaveStep,
           SaveReturns, SaveError, AllStored, WriteOutput, Lister, PowerLoss, inputs, vars
  <1>2. /\ RecordsGathered /\ ReportsGathered /\ LoginsGathered /\ AllDone
    BY DEF Gathered
  <1>3. RecordsGathered' /\ ReportsGathered'
    BY <1>1, <1>2 DEF RecordsGathered, ReportsGathered, IsReport, Wanted
  <1>4. LoginsRead' = LoginsRead /\ Owners' = Owners
    BY <1>1 DEF LoginsRead, Owners, LoggedIn, ReusedIDs, WithLogin
  <1>5. LoginsGathered' /\ AllDone'
    <2>1. CASE ReuseLogin
      <3>1. pos = Len(capture) /\ loginIDs = LoginsRead /\ loginIDs' = KnownIDs /\ phase' = "join"
        BY <1>2, <2>1 DEF ReuseLogin, LoginsGathered, AllDone
      <3>2. LoginsRead = LoggedIn
        BY <3>1 DEF LoginsRead, LoggedIn
      <3>3. KnownIDs = Owners
        BY <3>1, <3>2 DEF KnownIDs, Owners
      <3> QED  BY <1>1, <1>4, <3>1, <3>3 DEF LoginsGathered, AllDone, Succeeded
    <2>2. CASE \/ CaptureEnds \/ CollectFails \/ CollectEnds \/ JoinNext \/ JoinFails
               \/ SaveStep \/ SaveReturns \/ SaveError \/ AllStored \/ WriteOutput
               \/ Lister \/ PowerLoss \/ UNCHANGED vars
      <3>1. loginIDs' = loginIDs
        BY <2>2 DEF CaptureEnds, CollectFails, CollectEnds, JoinNext, JoinFails, SaveStep,
           SaveReturns, SaveError, AllStored, WriteOutput, Lister, PowerLoss, inputs, vars
      <3>2. LoginsGathered'
        BY <1>2, <1>4, <2>2, <3>1 DEF LoginsGathered, Succeeded, Exit, CaptureEnds, CollectFails,
           CollectEnds, JoinNext, JoinFails, SaveStep, SaveReturns, SaveError, GiveUp, AllStored,
           WriteOutput, Lister, PowerLoss, vars
      <3>3. AllDone'
        BY <1>1, <1>2, <2>2 DEF AllDone, Succeeded, Exit, CaptureEnds, CollectFails,
           CollectEnds, JoinNext, JoinFails, SaveStep, SaveReturns, SaveError, GiveUp, AllStored,
           WriteOutput, Lister, PowerLoss, vars
      <3> QED  BY <3>2, <3>3
    <2> QED  BY <2>1, <2>2
  <1> QED  BY <1>3, <1>5 DEF Gathered

(* The last report read of a game is the last one of the capture.           *)
LEMMA LastReport ==
    ASSUME Collected, ReportsGathered, pos = Len(capture), NEW u \in Uuids
    PROVE  reports[u] = Last(Places("report", u))
  <1>1. Len(capture) \in Nat /\ reports[u] \in 0..Len(capture)
    BY FramesOfCapture, StoreAssumption DEF Collected
  <1>2. /\ Places("report", u) \subseteq Nat
        /\ \A i \in 1..Len(capture) : i \in Places("report", u) <=> IsReport(i, u)
    BY DEF Places, IsReport
  <1>3. \A i \in Places("report", u) : i >= 1 /\ i <= reports[u]
    BY <1>1 DEF Places, IsReport, ReportsGathered
  <1>4. CASE reports[u] = 0
    <2>1. Places("report", u) = {}
      BY <1>2, <1>3, <1>4
    <2> QED  BY <1>4, <2>1 DEF Last
  <1>5. CASE reports[u] # 0
    <2>1. reports[u] \in Places("report", u)
      BY <1>1, <1>2, <1>5 DEF ReportsGathered
    <2>2. Max(Places("report", u)) = reports[u]
      BY <1>2, <1>3, <2>1, MaxIs
    <2> QED  BY <2>1, <2>2 DEF Last
  <1> QED  BY <1>4, <1>5

(* The last saved game of a wanted uuid is the game that is owed.           *)
LEMMA LatestIsOwed ==
    ASSUME Collected, RecordsGathered, ReportsGathered, pos = Len(capture), loginIDs = Owners,
           NEW u \in Uuids
    PROVE  Latest(Len(pending), u)
             = IF Wanted(u) /\ Places("record", u) # {} THEN Owed(u) ELSE before[u]
  <1> DEFINE records == Places("record", u)
             saves == Saves(Len(pending), u)
  <1>1. /\ Len(capture) \in Nat /\ Len(pending) \in Nat
        /\ \A n \in 1..Len(pending) :
               pending[n] \in 1..Len(capture) /\ capture[pending[n]].kind = "record"
    BY FramesOfCapture, StoreAssumption DEF Collected
  <1>2. \A k \in saves : k \in 1..Len(pending) /\ pending[k] \in records /\ Wanted(u)
    BY <1>1 DEF Saves, Places, RecordsGathered
  <1>3. CASE Wanted(u) /\ records # {}
    <2>1. /\ Max(records) \in records
          /\ \A i \in records : i <= Max(records)
      <3>1. records \subseteq 0..Len(capture)
        BY <1>1 DEF Places
      <3> QED  BY <1>1, <1>3, <3>1, MaxOfBounded
    <2>2. PICK n \in 1..Len(pending) : pending[n] = Max(records)
      BY <1>3, <2>1 DEF RecordsGathered, Places
    <2>3. n \in saves /\ capture[pending[n]].uuid = u
      BY <2>1, <2>2 DEF Saves, Places
    <2>4. ASSUME NEW k \in saves PROVE k <= n
      <3>1. k \in 1..Len(pending) /\ pending[k] <= pending[n]
        BY <1>2, <2>1, <2>2
      <3>2. ~(n < k)
        <4>1. pending[k] \in Nat /\ pending[n] \in Nat
          BY <1>1, <3>1
        <4> QED  BY <3>1, <4>1 DEF RecordsGathered
      <3> QED  BY <1>1, <3>1, <3>2
    <2>5. Max(saves) = n
      <3>1. saves \subseteq Nat
        BY DEF Saves
      <3> QED  BY <2>3, <2>4, <3>1, MaxIs
    <2>6. Joined(n) = Owed(u)
      <3>1. reports[u] = Last(Places("report", u))
        BY LastReport
      <3>2. pending[n] = Last(records)
        BY <1>3, <2>2 DEF Last
      <3> QED  BY <2>3, <3>1, <3>2 DEF Joined, Owed
    <2> QED  BY <1>3, <2>3, <2>5, <2>6 DEF Latest
  <1>4. CASE ~(Wanted(u) /\ records # {})
    <2>1. saves = {}
      BY <1>2, <1>4
    <2> QED  BY <1>4, <2>1 DEF Latest
  <1> QED  BY <1>3, <1>4

THEOREM GatheredInvariant == Spec => []Gathered
  <1>1. Init => Gathered
    BY NothingGathered DEF Init
  <1>2. PipelineInv /\ Gathered /\ [Next]_vars => Gathered'
    <2> SUFFICES ASSUME PipelineInv, Gathered, [Next]_vars PROVE Gathered'
      OBVIOUS
    <2>1. CASE DecodeAgain
      <3>1. /\ pos' = 0 /\ pending' = << >> /\ reports' = [u \in Uuids |-> 0]
            /\ loginIDs' = {} /\ phase' = "collect"
        BY <2>1 DEF DecodeAgain, Collecting
      <3>2. RecordsGathered'
        BY <3>1 DEF RecordsGathered
      <3>3. ReportsGathered'
        <4>1. \A i \in 1..pos' : FALSE
          BY <3>1
        <4> QED  BY <3>1, <4>1 DEF ReportsGathered
      <3>4. LoginsGathered' /\ AllDone'
        BY <3>1 DEF LoginsGathered, LoginsRead, AllDone, Succeeded
      <3> QED  BY <3>2, <3>3, <3>4 DEF Gathered
    <2>2. CASE ~DecodeAgain
      BY <2>2, ReadGathers, LaterGathers DEF PipelineInv, Next
    <2> QED  BY <2>1, <2>2
  <1> QED  BY <1>1, <1>2, PipelineInvariant, PTL DEF Spec

(* An exit with 0 leaves in the store, for every wanted game of the         *)
(* capture, its last record with the last report of it, wherever that       *)
(* stands, and the seat of the user, wherever the login stands; and every   *)
(* other entry as the run found it (decode.go:132-136, 175-220).            *)
THEOREM ExitZeroSafe == Spec => []ExitZeroStored
  <1>1. PipelineInv /\ PartialProgress /\ Gathered => ExitZeroStored
    <2> SUFFICES ASSUME PipelineInv, PartialProgress, Gathered, Succeeded, NEW u \in Uuids
                 PROVE  dir[u] = IF Wanted(u) /\ Places("record", u) # {} THEN Owed(u)
                                 ELSE before[u]
      BY DEF ExitZeroStored, Succeeded
    <2>1. /\ Collected /\ Progressing
          /\ RecordsGathered /\ ReportsGathered /\ LoginsGathered /\ AllDone
      BY DEF PipelineInv, RunInv, Gathered
    <2>2. /\ pos = Len(capture) /\ loginIDs = Owners
          /\ stored = Len(pending) /\ phase = "exit" /\ save = "idle"
      BY <2>1 DEF LoginsGathered, AllDone, Succeeded, Progressing
    <2>3. SavedSoFar = Len(pending)
      BY <2>1, <2>2 DEF SavedSoFar, Collected
    <2>4. dir[u] = Latest(Len(pending), u)
      BY <2>2, <2>3, ProgressIsLatest
    <2> QED  BY <2>1, <2>2, <2>4, LatestIsOwed
  <1> QED  BY <1>1, PipelineInvariant, ProgressSafe, GatheredInvariant, PTL

=============================================================================
