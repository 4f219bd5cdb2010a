------------------------------ MODULE GameStore ------------------------------
(***************************************************************************)
(* The store of reconstructed games (internal/store/store.go): Save writes *)
(* a temporary file, synchronizes it, renames it over {uuid}.json and      *)
(* synchronizes the directory, while the MCP server lists the directory.   *)
(* Any step of Save but the last may fail; the machine may lose power      *)
(* between any two.  Bytes that were not synchronized before their rename  *)
(* would be a broken file after a power loss.                              *)
(*                                                                         *)
(* This module has the store's own steps; Pipeline calls Save.             *)
(***************************************************************************)
EXTENDS Naturals

CONSTANTS
    Uuids,
    MaxRecords,     \* bound: frames of a capture
    Seats,
    None            \* no game, no file, no seat

(* A reconstruction is told apart by the record and the MAKA report (0: no  *)
(* report) it was built from, by their place in the capture, and by the     *)
(* self seat; record 0 is a game stored before.                             *)
GamesOf == [u \in Uuids |->
    [uuid : {u}, record : 0..MaxRecords, report : 0..MaxRecords, seat : Seats \cup {None}]]
Games == UNION {GamesOf[u] : u \in Uuids}
Broken == [uuid |-> None]
Contents == Games \cup {None, Broken}
Temps == [game : Games, bytes : {"none", "written", "synced"}]

(* No game and no file is no game and no file.                              *)
ASSUME StoreAssumption == MaxRecords \in Nat /\ None \notin Games \cup Temps

VARIABLES
    dir,            \* what {uuid}.json holds
    onDisk,         \* what it may hold after a power loss
    save,           \* where Save is: "idle", "create", "write", "sync", "rename", "dirsync"
    tmp,            \* the temporary file, or None: its game and how far it got
    listing         \* List of the MCP server: its state and the names still to load

storeVars == <<dir, onDisk, save, tmp, listing>>

StoreTypeOK ==
    /\ dir \in [Uuids -> Contents]
    /\ \A u \in Uuids : dir[u] \in onDisk[u] /\ onDisk[u] \subseteq Contents
    /\ save \in {"idle", "create", "write", "sync", "rename", "dirsync"}
    /\ tmp \in Temps \cup {None}
    /\ (tmp = None) = (save \in {"idle", "create", "dirsync"})
    /\ listing \in [state : {"idle", "loading", "failed"}, names : SUBSET Uuids]

-----------------------------------------------------------------------------
(***************************************************************************)
(* Save, step by step.                                                     *)
(***************************************************************************)
CreateTemp(game) ==
    /\ save = "create"
    /\ tmp' = [game |-> game, bytes |-> "none"]
    /\ save' = "write"
    /\ UNCHANGED <<dir, onDisk, listing>>

WriteTemp ==
    /\ save = "write"
    /\ tmp' = [tmp EXCEPT !.bytes = "written"]
    /\ save' = "sync"
    /\ UNCHANGED <<dir, onDisk, listing>>

\* mutant: the file is renamed without a synchronization of its bytes
LeaveBytes == "written"
SyncedBytes == "synced"

SyncTemp ==
    /\ save = "sync"
    /\ tmp' = [tmp EXCEPT !.bytes = SyncedBytes]
    /\ save' = "rename"
    /\ UNCHANGED <<dir, onDisk, listing>>

(* What a power loss may leave of a file published with these bytes         *)
Leavings(file) == {file.game} \cup (IF file.bytes = "synced" THEN {} ELSE {Broken})

Publish ==
    /\ save = "rename"
    /\ dir' = [dir EXCEPT ![tmp.game.uuid] = tmp.game]
    /\ onDisk' = [onDisk EXCEPT ![tmp.game.uuid] = @ \cup Leavings(tmp)]
    /\ tmp' = None
    /\ save' = "dirsync"
    /\ UNCHANGED listing

(* The directory is synchronized at best: a failure is not an error.        *)
SyncDir ==
    /\ save = "dirsync"
    /\ onDisk' \in {onDisk, [u \in Uuids |-> {dir[u]}]}
    /\ save' = "idle"
    /\ UNCHANGED <<dir, tmp, listing>>

\* mutant: an error after the write removes the published file
RemovePublished == [dir EXCEPT ![tmp.game.uuid] = None]
KeepPublished == dir

\* mutant: the temporary file of a failed save is left behind
LeaveTemp == tmp
RemoveTemp == None

(* The deferred removal of the temporary file                               *)
SaveFails ==
    /\ save \in {"create", "write", "sync", "rename"}
    /\ dir' = IF tmp = None THEN dir ELSE KeepPublished
    /\ tmp' = RemoveTemp
    /\ save' = "idle"
    /\ UNCHANGED <<onDisk, listing>>

-----------------------------------------------------------------------------
(***************************************************************************)
(* List: the names of the directory first, then one file after the other;  *)
(* a file that is gone or does not parse fails the whole list.             *)
(***************************************************************************)
ReadDir ==
    /\ listing.state = "idle"
    /\ listing' = [state |-> "loading", names |-> {u \in Uuids : dir[u] # None}]
    /\ UNCHANGED <<dir, onDisk, save, tmp>>

Load(u) ==
    /\ listing.state = "loading"
    /\ u \in listing.names
    /\ listing' = IF dir[u] \in Games THEN [listing EXCEPT !.names = @ \ {u}]
                  ELSE [listing EXCEPT !.state = "failed"]
    /\ UNCHANGED <<dir, onDisk, save, tmp>>

ListEnds ==
    /\ listing.state = "failed" \/ listing = [state |-> "loading", names |-> {}]
    /\ listing' = [state |-> "idle", names |-> {}]
    /\ UNCHANGED <<dir, onDisk, save, tmp>>

(* Every process dies, and each file is one the disk had.  A temporary file *)
(* stays behind under a name that List passes over.                         *)
PowerFails ==
    /\ dir' \in [Uuids -> UNION {onDisk[u] : u \in Uuids}]
    /\ \A u \in Uuids : dir'[u] \in onDisk[u]
    /\ onDisk' = [u \in Uuids |-> {dir'[u]}]
    /\ save' = "idle"
    /\ tmp' = None
    /\ listing' = [state |-> "idle", names |-> {}]

(* The directory may hold games of earlier captures.                        *)
OldGame(u) == [uuid |-> u, record |-> 0, report |-> 0, seat |-> None]
StoreInit ==
    /\ dir \in {f \in [Uuids -> {OldGame(u) : u \in Uuids} \cup {None}] :
                  \A u \in Uuids : f[u] \in {OldGame(u), None}}
    /\ onDisk = [u \in Uuids |-> {dir[u]}]
    /\ save = "idle"
    /\ tmp = None
    /\ listing = [state |-> "idle", names |-> {}]

-----------------------------------------------------------------------------
(* Listing while games are saved, and after a power loss at any point,      *)
(* never meets a missing or a broken file (store.go:39-41).                 *)
ListNeverFails == listing.state # "failed"

(* The store is a map of complete games: a save replaces one entry in one   *)
(* step and a failed or interrupted one changes none (store.go:39-41).      *)
Map == INSTANCE GameMap WITH games <- dir, survivors <- onDisk, Games <- GamesOf
StoreIsMap == Map!Spec
=============================================================================
