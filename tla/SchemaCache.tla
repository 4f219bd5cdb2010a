----------------------------- MODULE SchemaCache -----------------------------
(***************************************************************************)
(* The schema cache (internal/liqi/resource.go, cache.go, offline.go) and  *)
(* the commands that share it: fetch-proto fills it from the game's static *)
(* origin and falls back on it; ingest and decode read it, once to bind a  *)
(* capture to a schema and once more to decode the capture, while other    *)
(* fetches go on.  Nothing locks the directory.                            *)
(*                                                                         *)
(* A schema is known by its digest, a member of Payloads, and a binding of *)
(* version, resource version and source URL by the version alone.          *)
(***************************************************************************)
EXTENDS Registry

CONSTANTS
    Procs, Versions, ResVersions, Payloads,
    PrefixOf,       \* PrefixOf[v]: the resource version that the manifest of v names
    Torn,           \* the contents of a file that was not written out
    Demands,        \* the choices for --sha256, None when it is not given
    MaxStarts,      \* bound: commands started
    MaxChanges      \* bound: releases and republished schemas

ASSUME CacheAssumption ==
    /\ PrefixOf \in [Versions -> ResVersions]
    /\ None \notin Payloads /\ Torn \notin Payloads /\ None # Torn
    /\ Versions \cap Payloads = {}
    /\ Demands \subseteq Payloads \cup {None}
    /\ MaxStarts \in Nat /\ MaxChanges \in Nat

VARIABLES
    schemas,        \* the document behind each digest
    current,        \* origin: the version that version.json names
    hosted,         \* origin: the schema under each resource version
    served,         \* history: the schemas a resource version has had
    changes,        \* releases and republished schemas so far
    files,          \* the cache: schema files by digest, metadata files by binding
    onDisk,         \* what a power loss may leave of each file
    proc,           \* the commands
    captured,       \* the bindings recorded in the captures
    left            \* commands still to start

origin == <<current, hosted, served, changes>>
cacheVars == <<schemas, origin, files, onDisk, proc, captured, left>>

Names == Payloads \cup Versions
Steps == {"idle", "version", "manifest", "schema", "fallback",
          "save_schema", "sync_schema", "save_meta", "sync_meta", "fetched",
          "open", "load", "bind", "capture", "check", "decoded", "refused"}

(* A command: its step, the version and the schema it works with, the SHA   *)
(* that --sha256 or the metadata demands, the binding its capture recorded, *)
(* and (history) the versions that were current while it ran.               *)
Idle == [step |-> "idle", version |-> None, sha |-> None, expected |-> None,
         bound |-> None, seen |-> {}]

Bindings == Versions \X Payloads

CacheTypeOK ==
    /\ current \in Versions
    /\ hosted \in [ResVersions -> Payloads]
    /\ served \in [ResVersions -> SUBSET Payloads]
    /\ changes \in 0..MaxChanges
    /\ files \in [Names -> Payloads \cup {None, Torn}]
    /\ onDisk \in [Names -> SUBSET (Payloads \cup {None, Torn})]
    /\ proc \in [Procs -> [step : Steps, version : Versions \cup {None}, sha : Payloads \cup {None},
                           expected : Payloads \cup {None},
                           bound : Bindings \cup {None}, seen : SUBSET Versions]]
    /\ captured \subseteq Bindings
    /\ left \in 0..MaxStarts

CacheInit ==
    /\ \A d \in Payloads : Document(schemas[d])
    /\ current \in Versions
    /\ hosted \in [ResVersions -> Payloads]
    /\ changes \in 0..MaxChanges
    /\ left \in 0..MaxStarts
    /\ served = [g \in ResVersions |-> {hosted[g]}]
    /\ files = [n \in Names |-> None]
    /\ onDisk = [n \in Names |-> {None}]
    /\ proc = [p \in Procs |-> Idle]
    /\ captured = {}

-----------------------------------------------------------------------------
(***************************************************************************)
(* The static origin (external).                                           *)
(***************************************************************************)
Release == \E v \in Versions \ {current} :
    /\ changes < MaxChanges
    /\ current' = v
    /\ changes' = changes + 1
    /\ proc' = [p \in Procs |-> IF proc[p] = Idle THEN Idle ELSE [proc[p] EXCEPT !.seen = @ \cup {v}]]
    /\ UNCHANGED <<schemas, hosted, served, files, onDisk, captured, left>>

Republish == \E g \in ResVersions, d \in Payloads :
    /\ changes < MaxChanges
    /\ hosted[g] # d
    /\ hosted' = [hosted EXCEPT ![g] = d]
    /\ served' = [served EXCEPT ![g] = @ \cup {d}]
    /\ changes' = changes + 1
    /\ UNCHANGED <<schemas, current, files, onDisk, proc, captured, left>>

-----------------------------------------------------------------------------
others == <<files, onDisk, left>>
At(p, step) == proc[p].step = step
Become(p, command) == /\ proc' = [proc EXCEPT ![p] = command]
                      /\ UNCHANGED <<schemas, origin, captured>>
Go(p, step) == Become(p, [proc[p] EXCEPT !.step = step])
Exit(p) == Become(p, Idle)

Start(p, command) ==
    /\ proc[p] = Idle
    /\ left > 0
    /\ left' = left - 1
    /\ Become(p, [command EXCEPT !.seen = {current}])
    /\ UNCHANGED <<files, onDisk>>

(***************************************************************************)
(* loadCache: the entry of one binding, its digest checked and its         *)
(* descriptors built.  Reading the metadata and the schema is one step: no *)
(* schema file is ever replaced by another schema.                         *)
(***************************************************************************)
\* mutant: any entry will do
AnyEntry(v, expected) == {files[w] : w \in Versions} \cap Payloads
Entry(v, expected) == {d \in Payloads : files[v] = d /\ expected \in {None, d}}
Loadable(v, expected) == {d \in Entry(v, expected) : files[d] = d /\ Builds(schemas[d])}

(***************************************************************************)
(* fetch-proto: Resolve and Fetch                                          *)
(***************************************************************************)
StartFetch(p) == \E expected \in Demands :
    Start(p, [Idle EXCEPT !.step = "version", !.expected = expected])

GetVersion(p) ==
    /\ At(p, "version")
    /\ Become(p, [proc[p] EXCEPT !.step = "manifest", !.version = current])
    /\ UNCHANGED others

GetManifest(p) ==
    /\ At(p, "manifest")
    /\ Go(p, "schema")
    /\ UNCHANGED others

(* Neither the version nor the manifest has a fallback; nor has a schema    *)
(* that is refused, redirected or too large, or the end of the context; and *)
(* the fallback itself may be unreadable.                                   *)
FetchFails(p) ==
    /\ proc[p].step \in {"version", "manifest", "schema", "fallback"}
    /\ Exit(p)
    /\ UNCHANGED others

GetSchema(p) == LET d == hosted[PrefixOf[proc[p].version]] IN
    /\ At(p, "schema")
    /\ IF proc[p].expected \in {None, d} /\ Builds(schemas[d])
       THEN Become(p, [proc[p] EXCEPT !.step = "save_schema", !.sha = d])
       ELSE Exit(p)
    /\ UNCHANGED others

(* A transport failure, a 5xx or an answer cut short                        *)
GetSchemaTransient(p) ==
    /\ At(p, "schema")
    /\ Go(p, "fallback")
    /\ UNCHANGED others

LoadFallback(p) == LET found == Loadable(proc[p].version, proc[p].expected) IN
    /\ At(p, "fallback")
    /\ IF found = {} THEN Exit(p)
       ELSE \E d \in found :
            Become(p, [proc[p] EXCEPT !.step = "fetched", !.sha = d])
    /\ UNCHANGED others

(***************************************************************************)
(* saveCache: atomicWrite of the schema, then of the metadata.  The        *)
(* temporary file is private until it is renamed, so writing it out and    *)
(* renaming it are one step.  A step that fails ends the command and       *)
(* leaves the files named so far.                                          *)
(***************************************************************************)
\* mutant: the temporary file is not synchronized
Unsynced(d) == {d, Torn}
Written(d) == {d}

NameFile(p, step, next, name) ==
    /\ At(p, step)
    /\ Go(p, next)
    /\ files' = [files EXCEPT ![name] = proc[p].sha]
    /\ onDisk' = [onDisk EXCEPT ![name] = @ \cup Written(proc[p].sha)]
    /\ UNCHANGED left

SyncDir(p, step, next) ==
    /\ At(p, step)
    /\ Go(p, next)
    /\ onDisk' = [n \in Names |-> onDisk[n] \cap Written(files[n])]
    /\ UNCHANGED <<files, left>>

SaveSchema(p) == NameFile(p, "save_schema", "sync_schema", proc[p].sha)
SyncSchema(p) == SyncDir(p, "sync_schema", "save_meta")
SaveMeta(p) == NameFile(p, "save_meta", "sync_meta", proc[p].version)
SyncMeta(p) == SyncDir(p, "sync_meta", "fetched")

SaveFails(p) ==
    /\ proc[p].step \in {"save_schema", "sync_schema", "save_meta", "sync_meta"}
    /\ Exit(p)
    /\ UNCHANGED others

(* The exit code also tells whether the schema has .lq.Wrapper.             *)
FetchExits(p) ==
    /\ At(p, "fetched")
    /\ Exit(p)
    /\ UNCHANGED others

-----------------------------------------------------------------------------
(***************************************************************************)
(* ingest and decode: OpenCachedMetadata and checkCaptureBinding           *)
(***************************************************************************)
(* The metadata file that ingest takes when it is given none                *)
Unique == {v \in Versions : \A w \in Versions : files[w] # None <=> w = v}

StartIngest(p) == \E v \in Versions :
    Start(p, [Idle EXCEPT !.step = "open", !.version = v])

(* Without the flag, and not just one file: exit 2                          *)
StartIngestDefault(p) == IF Unique = {} THEN Start(p, Idle)
    ELSE \E v \in Unique : Start(p, [Idle EXCEPT !.step = "open", !.version = v])

StartDecode(p) == \E v \in Versions, b \in captured :
    Start(p, [Idle EXCEPT !.step = "open", !.version = v, !.bound = b])

(* The metadata is read here for its SHA and again by loadCache.            *)
OpenMetadata(p) == LET d == files[proc[p].version] IN
    /\ At(p, "open")
    /\ IF d \in Payloads THEN Become(p, [proc[p] EXCEPT !.step = "load", !.expected = d]) ELSE Exit(p)
    /\ UNCHANGED others

(* What is bound must have been loaded.                                     *)
\* mutant: the error of the load is passed over
BindUnloaded(p) == Go(p, "bind")
RefuseUnloaded(p) == Exit(p)

LoadOpened(p) == LET found == Loadable(proc[p].version, proc[p].expected) IN
    /\ At(p, "load")
    /\ IF found = {} THEN RefuseUnloaded(p)
       ELSE \E d \in found :
            Become(p, [proc[p] EXCEPT !.sha = d,
                                      !.step = IF proc[p].bound = None THEN "bind" ELSE "check"])
    /\ UNCHANGED others

OpenFails(p) ==
    /\ proc[p].step \in {"open", "load"}
    /\ Exit(p)
    /\ UNCHANGED others

(* capture_context                                                          *)
RecordBinding(p) == LET b == <<proc[p].version, proc[p].sha>> IN
    /\ At(p, "bind")
    /\ proc' = [proc EXCEPT ![p].step = "capture", ![p].bound = b]
    /\ captured' = captured \cup {b}
    /\ UNCHANGED <<schemas, origin, others>>

(* A capture that ended well is decoded, with the metadata file chosen at   *)
(* the start.                                                               *)
CaptureEnds(p) == \E clean \in BOOLEAN :
    /\ At(p, "capture")
    /\ IF clean THEN Go(p, "open") ELSE Exit(p)
    /\ UNCHANGED others

\* mutant: the recorded binding is not looked at
AnyBinding(p) == TRUE
BindingMatches(p) == proc[p].bound = <<proc[p].version, proc[p].sha>>

CheckBinding(p) ==
    /\ At(p, "check")
    /\ Go(p, IF BindingMatches(p) THEN "decoded" ELSE "refused")
    /\ UNCHANGED others

DecodeExits(p) ==
    /\ proc[p].step \in {"decoded", "refused"}
    /\ Exit(p)
    /\ UNCHANGED others

-----------------------------------------------------------------------------
(* Every file is, each by itself, what the disk may hold of it.             *)
CacheLosesPower ==
    /\ files' \in [Names -> UNION {onDisk[n] : n \in Names}]
    /\ \A n \in Names : files'[n] \in onDisk[n]
    /\ onDisk' = [n \in Names |-> {files'[n]}]
    /\ proc' = [p \in Procs |-> Idle]
    /\ UNCHANGED <<schemas, origin, captured, left>>

Step(p) ==
    \/ GetVersion(p) \/ GetManifest(p) \/ FetchFails(p)
    \/ GetSchema(p) \/ GetSchemaTransient(p) \/ LoadFallback(p)
    \/ SaveSchema(p) \/ SyncSchema(p) \/ SaveMeta(p) \/ SyncMeta(p)
    \/ SaveFails(p) \/ FetchExits(p)
    \/ OpenMetadata(p) \/ LoadOpened(p) \/ OpenFails(p)
    \/ RecordBinding(p) \/ CaptureEnds(p) \/ CheckBinding(p) \/ DecodeExits(p)

-----------------------------------------------------------------------------
(***************************************************************************)
(* Safety properties                                                       *)
(***************************************************************************)
(* What fetch-proto reports is a schema that was published under the        *)
(* resource version of a game version that was current while it ran, and    *)
(* the demanded one; the cache answers for no other version                 *)
(* (docs/decisions.md:52-53, resource.go:116).                              *)
FetchedIsNamed == \A p \in Procs : At(p, "fetched") =>
    /\ proc[p].version \in proc[p].seen
    /\ proc[p].sha \in served[PrefixOf[proc[p].version]]
    /\ proc[p].expected \in {None, proc[p].sha}
    /\ Builds(schemas[proc[p].sha])

(* Whatever a power loss leaves, every metadata file names a schema that is *)
(* there, whole, and builds: the cache has no half entries (cache.go:50).   *)
EntriesLoad == \A v \in Versions : \A d \in onDisk[v] \cup {files[v]} : d # None =>
    /\ d \in Payloads
    /\ onDisk[d] = {d} /\ files[d] = d
    /\ Builds(schemas[d])

(* A capture is decoded with the very schema it was bound to, and refused   *)
(* for another schema of its own version only when the game published two   *)
(* schemas under one resource version (capture.go:302, decisions.md:91).    *)
DecodedAsBound == \A p \in Procs :
    /\ At(p, "decoded") => proc[p].bound = <<proc[p].version, proc[p].sha>>
    /\ At(p, "refused") /\ proc[p].bound[1] = proc[p].version =>
        served[PrefixOf[proc[p].version]] # {proc[p].sha}

(* Every schema that got into the cache has descriptors that protobuf       *)
(* accepts and that say what the document says (registry.go:53).            *)
RegistrySound == \A d \in Payloads : files[d] = d =>
    LET built == Descriptors(schemas[d]) IN
    /\ built # None /\ Accepted(schemas[d], built)
    /\ TypesResolved(schemas[d], built)
    /\ OneofsLaidOut(schemas[d], built)
=============================================================================
