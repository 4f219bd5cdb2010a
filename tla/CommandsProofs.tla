--------------------------- MODULE CommandsProofs ----------------------------
(***************************************************************************)
(* Theorems about the schema cache as the commands use it, for any number  *)
(* of processes, versions and schemas, whatever the schemas say, and about *)
(* the server, for any number of clients.                                  *)
(*                                                                         *)
(* What the safety properties say of one step of one command follows from  *)
(* what every command knows at every step: which of its files are named,   *)
(* which are durable, and that every schema on its way into or out of the  *)
(* cache was published for the version it is filed under.                  *)
(***************************************************************************)
EXTENDS Commands, FiniteSetTheorems, WellFoundedInduction, TLAPS

Published(v, d) == d \in served[PrefixOf[v]]

Fetching == {"manifest", "schema", "fallback", "save_schema", "sync_schema",
             "save_meta", "sync_meta", "fetched"}
Saving == {"save_schema", "sync_schema", "save_meta", "sync_meta", "fetched"}
Reading == {"open", "load", "bind", "capture", "check", "decoded", "refused"}
Loaded == {"bind", "check", "decoded", "refused"}

CommandType == [step : Steps, version : Versions \cup {None}, sha : Payloads \cup {None},
                expected : Payloads \cup {None}, bound : Bindings \cup {None}, seen : SUBSET Versions]

Sourced(c) ==
    /\ c.step = "version" => current \in c.seen
    /\ c.step \in Fetching => c.version \in c.seen
    /\ c.step \in Reading => c.version \in Versions
    /\ c.step \in Saving \cup Loaded => c.sha \in Payloads /\ Published(c.version, c.sha)
    /\ c.step \in Saving => c.expected \in {None, c.sha} /\ Builds(schemas[c.sha])
Filed(c) ==
    /\ c.step = "sync_schema" => files[c.sha] = c.sha
    /\ c.step \in {"save_meta", "sync_meta"} => files[c.sha] = c.sha /\ onDisk[c.sha] = {c.sha}
Bound(c) ==
    /\ c.bound # None => Published(c.bound[1], c.bound[2])
    /\ c.step \in {"check", "decoded", "refused"} => c.bound # None
    /\ c.step = "decoded" => c.bound = <<c.version, c.sha>>
    /\ c.step = "refused" => c.bound # <<c.version, c.sha>>
CommandSound(c) == c \in CommandType /\ Sourced(c) /\ Filed(c) /\ Bound(c)

FilesPossible == \A n \in Names : files[n] \in onDisk[n]
SchemasIntact == \A d \in Payloads : onDisk[d] \subseteq {None, d}
EntriesSound == \A v \in Versions : \A d \in onDisk[v] : d # None =>
    /\ d \in Payloads
    /\ onDisk[d] = {d}
    /\ Published(v, d)
    /\ Builds(schemas[d])

HostedServed == \A g \in ResVersions : hosted[g] \in served[g]

CacheInv ==
    /\ CacheTypeOK
    /\ HostedServed
    /\ FilesPossible
    /\ SchemasIntact
    /\ EntriesSound
    /\ \A b \in captured : Published(b[1], b[2])
    /\ \A p \in Procs : CommandSound(proc[p])

-----------------------------------------------------------------------------
LEMMA IdleSound == CommandSound(Idle)
  BY DEF CommandSound, CommandType, Sourced, Filed, Bound, Idle, Steps,
         Fetching, Saving, Reading, Loaded

LEMMA CacheInvInit == CacheInit => CacheInv
  <1> SUFFICES ASSUME CacheInit PROVE CacheInv
    OBVIOUS
  <1>1. CacheTypeOK
    <2>1. Idle \in CommandType
      BY IdleSound DEF CommandSound
    <2> QED  BY <2>1, CacheAssumption DEF CacheInit, CacheTypeOK, CommandType, Names
  <1>2. FilesPossible /\ SchemasIntact /\ EntriesSound
    BY DEF CacheInit, FilesPossible, SchemasIntact, EntriesSound, Names
  <1>3. \A p \in Procs : CommandSound(proc[p])
    BY IdleSound DEF CacheInit
  <1> QED  BY <1>1, <1>2, <1>3 DEF CacheInit, CacheInv, HostedServed

(* A command that changes only itself.                                      *)
LEMMA BecomeKeeps ==
    ASSUME CacheInv, NEW p \in Procs, NEW c, CommandSound(c), Become(p, c),
           UNCHANGED <<files, onDisk>>, left' \in 0..MaxStarts
    PROVE  CacheInv'
  <1>1. proc' \in [Procs -> CommandType]
    BY DEF CacheInv, CacheTypeOK, CommandType, Become, CommandSound
  <1>2. CacheTypeOK'
    BY <1>1 DEF CacheInv, CacheTypeOK, Become, CommandType, origin
  <1>3. ASSUME NEW q \in Procs PROVE CommandSound(proc[q])'
    <2>1. proc'[q] = IF q = p THEN c ELSE proc[q]
      BY DEF Become, CacheInv, CacheTypeOK
    <2>2. CommandSound(proc'[q])
      BY <2>1 DEF CacheInv
    <2> QED  BY <2>2 DEF CommandSound, Sourced, Filed, Bound, Published, Become, origin
  <1>4. (FilesPossible /\ SchemasIntact /\ EntriesSound)'
    BY DEF CacheInv, FilesPossible, SchemasIntact, EntriesSound, Published, Become, origin
  <1> QED  BY <1>2, <1>3, <1>4 DEF CacheInv, HostedServed, Become, origin, Published

(* The type of a command is all its step needs to be read.                  *)
LEMMA Typed == ASSUME CacheInv, NEW p \in Procs
               PROVE  /\ proc[p] \in CommandType
                      /\ Sourced(proc[p]) /\ Filed(proc[p]) /\ Bound(proc[p])
                      /\ left \in 0..MaxStarts
  BY DEF CacheInv, CacheTypeOK, CommandSound

(***************************************************************************)
(* fetch-proto                                                             *)
(***************************************************************************)
LEMMA ExitKeeps ==
    ASSUME CacheInv, NEW p \in Procs, Exit(p), UNCHANGED others
    PROVE  CacheInv'
  BY IdleSound, BecomeKeeps, Typed DEF Exit, others

LEMMA StartKeeps ==
    ASSUME CacheInv, NEW p \in Procs, NEW c \in CommandType, Start(p, c),
           c.step \in {"idle", "version", "open"},
           c.step = "open" => c.version \in Versions,
           c.bound # None => Published(c.bound[1], c.bound[2])
    PROVE  CacheInv'
  <1> DEFINE d == [c EXCEPT !.seen = {current}]
  <1>1. d \in CommandType
    BY DEF CommandType, CacheInv, CacheTypeOK
  <1>2. d.step = c.step /\ d.version = c.version /\ d.bound = c.bound
    BY DEF CommandType
  <1>3. CommandSound(d)
    BY <1>1, <1>2 DEF CommandSound, Sourced, Filed, Bound, Fetching, Saving, Reading, Loaded
  <1>4. left' \in 0..MaxStarts
    BY CacheAssumption, Typed DEF Start
  <1> QED  BY <1>3, <1>4, BecomeKeeps DEF Start

LEMMA RunKeeps == ASSUME CacheInv, NEW p \in Procs, Run(p) PROVE CacheInv'
  <1>1. Idle \in CommandType /\ Idle.step = "idle" /\ Idle.bound = None
    BY IdleSound DEF CommandSound, Idle
  <1>2. CASE StartFetch(p)
    <2>1. PICK e \in Demands : Start(p, [Idle EXCEPT !.step = "version", !.expected = e])
      BY <1>2 DEF StartFetch
    <2> DEFINE c == [Idle EXCEPT !.step = "version", !.expected = e]
    <2>2. c \in CommandType /\ c.step = "version" /\ c.bound = None
      BY <1>1, CacheAssumption DEF CommandType, Steps
    <2> QED  BY <2>1, <2>2, StartKeeps
  <1>3. ASSUME NEW v \in Versions, Start(p, [Idle EXCEPT !.step = "open", !.version = v])
        PROVE CacheInv'
    <2> DEFINE c == [Idle EXCEPT !.step = "open", !.version = v]
    <2>1. c \in CommandType /\ c.step = "open" /\ c.version = v /\ c.bound = None
      BY <1>1 DEF CommandType, Steps
    <2> QED  BY <1>3, <2>1, StartKeeps
  <1>4. CASE StartIngest(p)
    BY <1>3, <1>4 DEF StartIngest
  <1>5. CASE StartIngestDefault(p)
    BY <1>1, <1>3, <1>5, StartKeeps DEF StartIngestDefault, Unique
  <1>6. CASE StartDecode(p)
    <2>1. PICK v \in Versions, b \in captured :
            Start(p, [Idle EXCEPT !.step = "open", !.version = v, !.bound = b])
      BY <1>6 DEF StartDecode
    <2> DEFINE c == [Idle EXCEPT !.step = "open", !.version = v, !.bound = b]
    <2>2. b \in Bindings /\ Published(b[1], b[2])
      BY DEF CacheInv, CacheTypeOK
    <2>3. c \in CommandType /\ c.step = "open" /\ c.version = v /\ c.bound = b
      BY <1>1, <2>2 DEF CommandType, Steps
    <2> QED  BY <2>1, <2>2, <2>3, StartKeeps
  <1> QED  BY <1>2, <1>4, <1>5, <1>6 DEF Run

(* What loadCache returns was published for the version it is filed under.  *)
LEMMA LoadableSound ==
    ASSUME CacheInv, NEW v \in Versions, NEW e \in Payloads \cup {None}, NEW d \in Loadable(v, e)
    PROVE  d \in Payloads /\ Published(v, d) /\ e \in {None, d} /\ Builds(schemas[d])
  <1>1. d \in Payloads /\ files[v] = d /\ e \in {None, d}
    BY DEF Loadable, Entry
  <1>2. d \in onDisk[v]
    BY <1>1 DEF CacheInv, FilesPossible, Names
  <1> QED  BY <1>1, <1>2, CacheAssumption DEF CacheInv, EntriesSound

LEMMA GetKeeps ==
    ASSUME CacheInv, NEW p \in Procs,
           GetVersion(p) \/ GetManifest(p) \/ FetchFails(p) \/ GetSchema(p)
           \/ GetSchemaTransient(p) \/ LoadFallback(p)
    PROVE  CacheInv'
  <1> USE Typed DEF CommandSound, Sourced, Filed, Bound, CommandType,
                    Fetching, Saving, Reading, Loaded, Steps
  <1>0. UNCHANGED others => UNCHANGED <<files, onDisk>> /\ left' \in 0..MaxStarts
    BY DEF others
  <1>1. CASE GetVersion(p)
    <2> DEFINE c == [proc[p] EXCEPT !.step = "manifest", !.version = current]
    <2>1. current \in Versions
      BY DEF CacheInv, CacheTypeOK
    <2>2. CommandSound(c)
      BY <1>1, <2>1 DEF GetVersion, At
    <2> QED  BY <1>0, <1>1, <2>2, BecomeKeeps DEF GetVersion
  <1>2. CASE GetManifest(p)
    <2>1. CommandSound([proc[p] EXCEPT !.step = "schema"])
      BY <1>2 DEF GetManifest, At
    <2> QED  BY <1>0, <1>2, <2>1, BecomeKeeps DEF GetManifest, Go
  <1>3. CASE FetchFails(p)
    BY <1>3, ExitKeeps DEF FetchFails
  <1>4. CASE GetSchema(p)
    <2> DEFINE d == hosted[PrefixOf[proc[p].version]]
               c == [proc[p] EXCEPT !.step = "save_schema", !.sha = d]
    <2>1. CASE proc[p].expected \in {None, d} /\ Builds(schemas[d])
      <3>1. proc[p].version \in Versions
        BY <1>4 DEF GetSchema, At
      <3>2. d \in Payloads /\ Published(proc[p].version, d)
        BY <3>1, CacheAssumption DEF CacheInv, CacheTypeOK, HostedServed, Published
      <3>3. CommandSound(c)
        BY <1>4, <2>1, <3>1, <3>2 DEF GetSchema, At
      <3> QED  BY <1>0, <1>4, <2>1, <3>3, BecomeKeeps DEF GetSchema
    <2>2. CASE ~(proc[p].expected \in {None, d} /\ Builds(schemas[d]))
      BY <1>4, <2>2, ExitKeeps DEF GetSchema
    <2> QED  BY <2>1, <2>2
  <1>5. CASE GetSchemaTransient(p)
    <2>1. CommandSound([proc[p] EXCEPT !.step = "fallback"])
      BY <1>5 DEF GetSchemaTransient, At
    <2> QED  BY <1>0, <1>5, <2>1, BecomeKeeps DEF GetSchemaTransient, Go
  <1>6. CASE LoadFallback(p)
    <2> DEFINE found == Loadable(proc[p].version, proc[p].expected)
    <2>1. ASSUME NEW d \in found PROVE CommandSound([proc[p] EXCEPT !.step = "fetched", !.sha = d])
      <3>1. proc[p].version \in Versions
        BY <1>6 DEF LoadFallback, At
      <3>2. d \in Payloads /\ Published(proc[p].version, d) /\ proc[p].expected \in {None, d}
            /\ Builds(schemas[d])
        BY <3>1, LoadableSound
      <3> QED  BY <1>6, <3>1, <3>2 DEF LoadFallback, At
    <2>2. CASE found = {}
      BY <1>6, <2>2, ExitKeeps DEF LoadFallback
    <2>3. CASE found # {}
      BY <1>0, <1>6, <2>1, <2>3, BecomeKeeps DEF LoadFallback
    <2> QED  BY <2>2, <2>3
  <1> QED  BY <1>1, <1>2, <1>3, <1>4, <1>5, <1>6

(* A schema file gets the schema of its name, so that no other command      *)
(* loses what it counts on; a metadata file gets a schema that is durable   *)
(* already.                                                                 *)
LEMMA NameKeeps ==
    ASSUME CacheInv, NEW p \in Procs, SaveSchema(p) \/ SaveMeta(p)
    PROVE  CacheInv'
  <1> DEFINE d == proc[p].sha
             name == IF At(p, "save_schema") THEN d ELSE proc[p].version
             next == IF At(p, "save_schema") THEN "sync_schema" ELSE "sync_meta"
  <1>1. /\ At(p, "save_schema") \/ At(p, "save_meta")
        /\ Go(p, next)
        /\ files' = [files EXCEPT ![name] = d]
        /\ onDisk' = [onDisk EXCEPT ![name] = @ \cup {d}]
        /\ UNCHANGED left
    BY DEF SaveSchema, SaveMeta, NameFile, At, Written
  <1>2. /\ proc[p] \in CommandType /\ Sourced(proc[p]) /\ Filed(proc[p]) /\ Bound(proc[p])
        /\ d \in Payloads /\ Published(proc[p].version, d) /\ Builds(schemas[d])
        /\ proc[p].version \in Versions
    BY <1>1, Typed DEF Sourced, At, Saving, Fetching, CommandType
  <1>3. name \in Names /\ d \in Names
    BY <1>2 DEF Names
  <1>4. /\ UNCHANGED <<schemas, origin, captured>>
        /\ proc' = [proc EXCEPT ![p] = [proc[p] EXCEPT !.step = next]]
    BY <1>1 DEF Go, Become
  <1>5. /\ files \in [Names -> Payloads \cup {None, Torn}]
        /\ onDisk \in [Names -> SUBSET (Payloads \cup {None, Torn})]
        /\ proc \in [Procs -> CommandType]
    BY DEF CacheInv, CacheTypeOK, CommandType
  <1>6. [proc[p] EXCEPT !.step = next] \in CommandType
    BY <1>2 DEF CommandType, Steps
  <1>7. CacheTypeOK'
    <2>1. proc' \in [Procs -> CommandType]
      BY <1>4, <1>5, <1>6
    <2>2. files' \in [Names -> Payloads \cup {None, Torn}]
      BY <1>1, <1>2, <1>3, <1>5
    <2>3. onDisk' \in [Names -> SUBSET (Payloads \cup {None, Torn})]
      BY <1>1, <1>2, <1>3, <1>5
    <2> QED  BY <1>1, <1>4, <2>1, <2>2, <2>3 DEF CacheInv, CacheTypeOK, CommandType, origin
  <1>8. (FilesPossible /\ SchemasIntact)'
    <2>1. name \in Payloads => name = d
      BY <1>1, <1>2, CacheAssumption DEF At
    <2>2. FilesPossible'
      BY <1>1, <1>3, <1>5 DEF CacheInv, FilesPossible
    <2>3. SchemasIntact'
      BY <1>1, <1>2, <1>3, <1>5, <2>1 DEF CacheInv, SchemasIntact, Names
    <2> QED  BY <2>2, <2>3
  <1>9. \A e \in Payloads :
        /\ onDisk[e] = {e} => onDisk'[e] = {e}
        /\ files[e] = e => files'[e] = e
    BY <1>1, <1>2, <1>3, <1>5, CacheAssumption DEF At, Names
  <1>10. EntriesSound'
    <2> SUFFICES ASSUME NEW v \in Versions, NEW e \in onDisk'[v], e # None
                 PROVE  e \in Payloads /\ onDisk'[e] = {e} /\ Published(v, e) /\ Builds(schemas[e])
      BY <1>4 DEF EntriesSound, Published, origin
    <2>1. CASE e \in onDisk[v]
      <3>1. e \in Payloads /\ onDisk[e] = {e} /\ Published(v, e) /\ Builds(schemas[e])
        BY <2>1 DEF CacheInv, EntriesSound
      <3>2. onDisk'[e] = {e}
        BY <1>9, <3>1
      <3> QED  BY <3>1, <3>2
    <2>2. CASE e \notin onDisk[v]
      <3>1. e = d /\ v = name
        BY <1>1, <1>3, <1>5, <2>2 DEF Names
      <3>2. At(p, "save_meta") /\ v = proc[p].version
        BY <1>1, <1>2, <3>1, CacheAssumption DEF At
      <3>3. onDisk'[e] = {e}
        BY <1>2, <1>9, <3>1, <3>2 DEF Filed, At
      <3> QED  BY <1>2, <3>1, <3>2, <3>3
    <2> QED  BY <2>1, <2>2
  <1>11. ASSUME NEW q \in Procs PROVE CommandSound(proc[q])'
    <2>1. CASE q # p
      <3>1. proc'[q] = proc[q] /\ CommandSound(proc[q])
        BY <1>4, <1>5, <2>1 DEF CacheInv
      <3>2. proc[q].step \in {"sync_schema", "save_meta", "sync_meta"} => proc[q].sha \in Payloads
        BY <3>1 DEF CommandSound, Sourced, Saving
      <3>3. Filed(proc[q])'
        BY <1>9, <3>1, <3>2 DEF CommandSound, Filed
      <3>4. (proc[q] \in CommandType /\ Sourced(proc[q]) /\ Bound(proc[q]))'
        BY <1>4, <3>1 DEF CommandSound, CommandType, Sourced, Bound, Published, origin
      <3> QED  BY <3>3, <3>4 DEF CommandSound
    <2>2. CASE q = p
      <3> DEFINE c == [proc[p] EXCEPT !.step = next]
      <3>1. proc'[q] = c /\ c.step = next /\ c.sha = d /\ c.version = proc[p].version
            /\ c.expected = proc[p].expected /\ c.bound = proc[p].bound /\ c.seen = proc[p].seen
        BY <1>2, <1>4, <1>5, <2>2 DEF CommandType
      <3>2. Sourced(c)
        BY <1>1, <1>2, <3>1 DEF Sourced, At, Saving, Fetching, Reading, Loaded
      <3>3. /\ c.step = "sync_schema" => files'[d] = d
            /\ c.step = "sync_meta" => files'[d] = d /\ onDisk'[d] = {d}
        BY <1>1, <1>2, <1>3, <1>5, <1>9, <3>1 DEF Filed, At
      <3>4. Bound(c)
        BY <1>2, <3>1 DEF Bound
      <3>5. Filed(proc[q])'
        BY <1>1, <3>1, <3>3 DEF Filed
      <3>6. (proc[q] \in CommandType /\ Sourced(proc[q]) /\ Bound(proc[q]))'
        BY <1>4, <1>6, <3>1, <3>2, <3>4 DEF CommandType, Sourced, Bound, Published, origin
      <3> QED  BY <3>5, <3>6 DEF CommandSound
    <2> QED  BY <2>1, <2>2
  <1> QED  BY <1>1, <1>4, <1>7, <1>8, <1>10, <1>11 DEF CacheInv, HostedServed, Published, origin

(* A synchronized directory holds what it shows.                            *)
LEMMA SyncKeeps ==
    ASSUME CacheInv, NEW p \in Procs, SyncSchema(p) \/ SyncMeta(p)
    PROVE  CacheInv'
  <1> DEFINE d == proc[p].sha
             next == IF At(p, "sync_schema") THEN "save_meta" ELSE "fetched"
  <1>1. /\ At(p, "sync_schema") \/ At(p, "sync_meta")
        /\ Go(p, next)
        /\ onDisk' = [n \in Names |-> onDisk[n] \cap {files[n]}]
        /\ UNCHANGED <<files, left>>
    BY DEF SyncSchema, SyncMeta, SyncDir, At, Written
  <1>2. /\ proc[p] \in CommandType /\ Sourced(proc[p]) /\ Filed(proc[p]) /\ Bound(proc[p])
        /\ d \in Payloads
    BY <1>1, Typed DEF Sourced, At, Saving, CommandType
  <1>3. /\ UNCHANGED <<schemas, origin, captured>>
        /\ proc' = [proc EXCEPT ![p] = [proc[p] EXCEPT !.step = next]]
    BY <1>1 DEF Go, Become
  <1>4. /\ files \in [Names -> Payloads \cup {None, Torn}]
        /\ onDisk \in [Names -> SUBSET (Payloads \cup {None, Torn})]
        /\ proc \in [Procs -> CommandType]
    BY DEF CacheInv, CacheTypeOK, CommandType
  <1>5. \A n \in Names : onDisk'[n] = {files[n]} /\ onDisk'[n] \subseteq onDisk[n]
    BY <1>1, <1>4 DEF CacheInv, FilesPossible
  <1>6. CacheTypeOK'
    <2>1. proc' \in [Procs -> CommandType]
      BY <1>2, <1>3, <1>4 DEF CommandType, Steps
    <2>2. onDisk' \in [Names -> SUBSET (Payloads \cup {None, Torn})]
      BY <1>1, <1>4
    <2> QED  BY <1>1, <1>3, <2>1, <2>2 DEF CacheInv, CacheTypeOK, CommandType, origin
  <1>7. (FilesPossible /\ SchemasIntact)'
    BY <1>1, <1>5 DEF CacheInv, FilesPossible, SchemasIntact, Names
  <1>8. \A e \in Payloads : files[e] = e => onDisk'[e] = {e}
    BY <1>5 DEF Names
  <1>9. EntriesSound'
    <2> SUFFICES ASSUME NEW v \in Versions, NEW e \in onDisk'[v], e # None
                 PROVE  e \in Payloads /\ onDisk'[e] = {e} /\ Published(v, e) /\ Builds(schemas[e])
      BY <1>3 DEF EntriesSound, Published, origin
    <2>1. e \in onDisk[v]
      BY <1>5 DEF Names
    <2>2. e \in Payloads /\ onDisk[e] = {e} /\ Published(v, e) /\ Builds(schemas[e])
      BY <2>1 DEF CacheInv, EntriesSound
    <2>3. files[e] = e
      BY <2>2 DEF CacheInv, FilesPossible, Names
    <2> QED  BY <1>8, <2>2, <2>3
  <1>10. ASSUME NEW q \in Procs PROVE CommandSound(proc[q])'
    <2> DEFINE c == proc'[q]
    <2>1. CommandSound(proc[q])
      BY DEF CacheInv
    <2>2. CASE q # p
      <3>1. proc'[q] = proc[q]
        BY <1>3, <1>4, <2>2
      <3>2. Filed(proc[q])'
        <4>1. proc[q].step \in {"save_meta", "sync_meta"} => proc[q].sha \in Payloads
          BY <2>1 DEF CommandSound, Sourced, Saving
        <4> QED  BY <1>1, <1>8, <2>1, <3>1, <4>1 DEF CommandSound, Filed
      <3>3. (proc[q] \in CommandType /\ Sourced(proc[q]) /\ Bound(proc[q]))'
        BY <1>3, <2>1, <3>1 DEF CommandSound, CommandType, Sourced, Bound, Published, origin
      <3> QED  BY <3>2, <3>3 DEF CommandSound
    <2>3. CASE q = p
      <3>1. c = [proc[p] EXCEPT !.step = next] /\ c \in CommandType /\ c.step = next
            /\ next \in {"save_meta", "fetched"} /\ c.sha = d /\ c.version = proc[p].version
            /\ c.expected = proc[p].expected /\ c.bound = proc[p].bound /\ c.seen = proc[p].seen
        BY <1>2, <1>3, <1>4, <2>3 DEF CommandType, Steps
      <3>2. Sourced(proc[q])'
        BY <1>1, <1>2, <1>3, <3>1
           DEF Sourced, At, Saving, Fetching, Reading, Loaded, Published, origin
      <3>3. Filed(proc[q])'
        BY <1>1, <1>2, <1>8, <3>1 DEF Filed, At
      <3>4. Bound(proc[q])'
        BY <1>2, <1>3, <3>1 DEF Bound, Published, origin
      <3>5. (proc[q] \in CommandType)'
        BY <3>1 DEF CommandType
      <3> QED  BY <3>2, <3>3, <3>4, <3>5 DEF CommandSound
    <2> QED  BY <2>2, <2>3
  <1> QED  BY <1>1, <1>3, <1>6, <1>7, <1>9, <1>10 DEF CacheInv, HostedServed, Published, origin

(***************************************************************************)
(* ingest and decode                                                       *)
(***************************************************************************)
LEMMA ReadKeeps ==
    ASSUME CacheInv, NEW p \in Procs,
           OpenMetadata(p) \/ LoadOpened(p) \/ OpenFails(p) \/ CaptureEnds(p)
           \/ CheckBinding(p) \/ DecodeExits(p)
    PROVE  CacheInv'
  <1> USE Typed DEF CommandSound, Sourced, Filed, Bound, CommandType,
                    Fetching, Saving, Reading, Loaded, Steps
  <1>0. UNCHANGED others => UNCHANGED <<files, onDisk>> /\ left' \in 0..MaxStarts
    BY DEF others
  <1>1. CASE OpenMetadata(p)
    <2> DEFINE d == files[proc[p].version]
    <2>1. CASE d \in Payloads
      <3>1. CommandSound([proc[p] EXCEPT !.step = "load", !.expected = d])
        BY <1>1, <2>1 DEF OpenMetadata, At
      <3> QED  BY <1>0, <1>1, <2>1, <3>1, BecomeKeeps DEF OpenMetadata
    <2>2. CASE d \notin Payloads
      BY <1>1, <2>2, ExitKeeps DEF OpenMetadata
    <2> QED  BY <2>1, <2>2
  <1>2. CASE LoadOpened(p)
    <2> DEFINE found == Loadable(proc[p].version, proc[p].expected)
    <2>1. ASSUME NEW d \in found
          PROVE CommandSound([proc[p] EXCEPT !.sha = d,
                                !.step = IF proc[p].bound = None THEN "bind" ELSE "check"])
      <3>1. proc[p].version \in Versions
        BY <1>2 DEF LoadOpened, At
      <3>2. d \in Payloads /\ Published(proc[p].version, d)
        BY <3>1, LoadableSound
      <3> QED  BY ZenonT(30), <1>2, <3>1, <3>2 DEF LoadOpened, At
    <2>2. CASE found = {}
      BY <1>2, <2>2, ExitKeeps DEF LoadOpened, RefuseUnloaded
    <2>3. CASE found # {}
      <3>1. PICK d \in found :
              Become(p, [proc[p] EXCEPT !.sha = d,
                           !.step = IF proc[p].bound = None THEN "bind" ELSE "check"])
        BY <1>2, <2>3 DEF LoadOpened
      <3> DEFINE c == [proc[p] EXCEPT !.sha = d,
                         !.step = IF proc[p].bound = None THEN "bind" ELSE "check"]
      <3>2. CommandSound(c)
        BY <2>1
      <3>3. UNCHANGED <<files, onDisk>> /\ left' \in 0..MaxStarts
        BY <1>0, <1>2 DEF LoadOpened
      <3>4. Become(p, c)
        BY <3>1
      <3> HIDE DEF c
      <3> QED  BY <3>2, <3>3, <3>4, BecomeKeeps
    <2> QED  BY <2>2, <2>3
  <1>3. CASE OpenFails(p) \/ DecodeExits(p)
    BY <1>3, ExitKeeps DEF OpenFails, DecodeExits
  <1>4. CASE CaptureEnds(p)
    <2>1. CommandSound([proc[p] EXCEPT !.step = "open"])
      BY <1>4 DEF CaptureEnds, At
    <2> QED  BY <1>0, <1>4, <2>1, BecomeKeeps, ExitKeeps DEF CaptureEnds, Go
  <1>5. CASE CheckBinding(p)
    <2>1. CommandSound([proc[p] EXCEPT !.step = IF BindingMatches(p) THEN "decoded" ELSE "refused"])
      BY <1>5 DEF CheckBinding, At, BindingMatches
    <2> QED  BY <1>0, <1>5, <2>1, BecomeKeeps DEF CheckBinding, Go
  <1> QED  BY <1>1, <1>2, <1>3, <1>4, <1>5

LEMMA RecordKeeps ==
    ASSUME CacheInv, NEW p \in Procs, RecordBinding(p)
    PROVE  CacheInv'
  <1> DEFINE b == <<proc[p].version, proc[p].sha>>
             c == [proc[p] EXCEPT !.step = "capture", !.bound = b]
  <1>1. proc[p] \in CommandType /\ Sourced(proc[p]) /\ At(p, "bind")
    BY Typed DEF RecordBinding
  <1>2. proc[p].version \in Versions /\ proc[p].sha \in Payloads /\ Published(proc[p].version, proc[p].sha)
    BY <1>1 DEF Sourced, At, Reading, Loaded
  <1>3. b \in Bindings /\ Published(b[1], b[2])
    BY <1>2 DEF Bindings
  <1>4. proc \in [Procs -> CommandType]
    BY DEF CacheInv, CacheTypeOK, CommandType
  <1>5. /\ proc' = [proc EXCEPT ![p] = c]
        /\ captured' = captured \cup {b}
        /\ UNCHANGED <<schemas, current, hosted, served, changes, files, onDisk, left>>
    BY <1>1, <1>4 DEF RecordBinding, CommandType, origin, others
  <1>6. c \in CommandType /\ c.step = "capture" /\ c.bound = b /\ c.version = proc[p].version
    BY <1>1, <1>3 DEF CommandType, Steps
  <1>7. CommandSound(c)
    BY <1>2, <1>3, <1>6
       DEF CommandSound, Sourced, Filed, Bound, Fetching, Saving, Reading, Loaded
  <1>8. CacheTypeOK'
    <2>1. proc' \in [Procs -> CommandType]
      BY <1>4, <1>5, <1>6
    <2> QED  BY <1>3, <1>5, <2>1 DEF CacheInv, CacheTypeOK, CommandType
  <1>9. ASSUME NEW q \in Procs PROVE CommandSound(proc[q])'
    <2>1. CommandSound(proc'[q])
      BY <1>4, <1>5, <1>7 DEF CacheInv
    <2> QED  BY <1>5, <2>1 DEF CommandSound, Sourced, Filed, Bound, Published
  <1> QED  BY <1>3, <1>5, <1>8, <1>9
           DEF CacheInv, HostedServed, FilesPossible, SchemasIntact, EntriesSound, Published

LEMMA StepKeeps == ASSUME CacheInv, NEW p \in Procs, Step(p) PROVE CacheInv'
  <1>1. CASE SaveFails(p) \/ FetchExits(p)
    BY <1>1, ExitKeeps DEF SaveFails, FetchExits
  <1> QED  BY <1>1, GetKeeps, NameKeeps, SyncKeeps, ReadKeeps, RecordKeeps DEF Step

-----------------------------------------------------------------------------
(***************************************************************************)
(* The origin and the power.                                               *)
(***************************************************************************)
(* Every running command sees a release.                                    *)
LEMMA ReleaseKeeps == ASSUME CacheInv, Release PROVE CacheInv'
  <1>1. PICK v \in Versions : current' = v
            /\ proc' = [p \in Procs |-> IF proc[p] = Idle THEN Idle
                                       ELSE [proc[p] EXCEPT !.seen = @ \cup {v}]]
    BY DEF Release
  <1>2. changes' \in 0..MaxChanges
    BY CacheAssumption DEF Release, CacheInv, CacheTypeOK
  <1>3. UNCHANGED <<schemas, hosted, served, files, onDisk, captured, left>>
    BY DEF Release
  <1>4. ASSUME NEW q \in Procs
        PROVE  proc'[q] \in CommandType /\ CommandSound(proc[q])'
    <2>1. CommandSound(proc[q])
      BY DEF CacheInv
    <2>2. CASE proc[q] = Idle
      <3>1. proc'[q] = Idle
        BY <1>1, <2>2
      <3>2. CommandSound(Idle)
        BY IdleSound
      <3> QED  BY <3>1, <3>2 DEF CommandSound, CommandType, Sourced, Filed, Bound, Idle,
                                 Fetching, Saving, Reading, Loaded
    <2>3. CASE proc[q] # Idle
      <3> DEFINE c == proc'[q]
      <3>1. c \in CommandType /\ c.step = proc[q].step /\ c.version = proc[q].version
            /\ c.sha = proc[q].sha /\ c.expected = proc[q].expected /\ c.bound = proc[q].bound
            /\ current' \in c.seen /\ proc[q].seen \subseteq c.seen
        BY <1>1, <2>1, <2>3 DEF CommandSound, CommandType
      <3>2. Sourced(proc[q])'
        BY <1>3, <2>1, <3>1 DEF CommandSound, Sourced, Published
      <3>3. Filed(proc[q])'
        BY <1>3, <2>1, <3>1 DEF CommandSound, Filed
      <3>4. Bound(proc[q])'
        BY <1>3, <2>1, <3>1 DEF CommandSound, Bound, Published
      <3> QED  BY <3>1, <3>2, <3>3, <3>4 DEF CommandSound, CommandType
    <2> QED  BY <2>2, <2>3
  <1>5. proc' \in [Procs -> CommandType]
    BY <1>1, <1>4
  <1>6. CacheTypeOK'
    BY <1>1, <1>2, <1>3, <1>5 DEF CacheInv, CacheTypeOK, CommandType
  <1> QED  BY <1>3, <1>4, <1>6
           DEF CacheInv, HostedServed, FilesPossible, SchemasIntact, EntriesSound, Published

(* What was published stays published.                                      *)
LEMMA RepublishKeeps == ASSUME CacheInv, Republish PROVE CacheInv'
  <1>1. PICK g \in ResVersions, d \in Payloads :
            /\ hosted' = [hosted EXCEPT ![g] = d]
            /\ served' = [served EXCEPT ![g] = @ \cup {d}]
            /\ changes' = changes + 1 /\ changes < MaxChanges
    BY DEF Republish
  <1>2. UNCHANGED <<schemas, current, files, onDisk, proc, captured, left>>
    BY DEF Republish
  <1>3. /\ hosted \in [ResVersions -> Payloads] /\ served \in [ResVersions -> SUBSET Payloads]
        /\ changes \in 0..MaxChanges
    BY DEF CacheInv, CacheTypeOK
  <1>4. \A r \in ResVersions : served[r] \subseteq served'[r] /\ hosted'[r] \in served'[r]
    BY <1>1, <1>3 DEF CacheInv, HostedServed
  <1>5. \A v \in Versions : \A e : Published(v, e) => Published(v, e)'
    BY <1>4, CacheAssumption DEF Published
  <1>6. CacheTypeOK'
    BY <1>1, <1>2, <1>3, CacheAssumption DEF CacheInv, CacheTypeOK
  <1>7. ASSUME NEW q \in Procs PROVE CommandSound(proc[q])'
    <2>1. CommandSound(proc[q])
      BY DEF CacheInv
    <2>2. Sourced(proc[q])'
      <3>1. proc[q].step \in Saving \cup Loaded => proc[q].version \in Versions
        BY <2>1 DEF CommandSound, Sourced, CommandType, Saving, Loaded, Fetching, Reading
      <3> QED  BY <1>2, <1>5, <2>1, <3>1 DEF CommandSound, Sourced
    <2>3. Bound(proc[q])'
      <3>1. proc[q].bound # None => proc[q].bound[1] \in Versions
        BY <2>1 DEF CommandSound, CommandType, Bindings
      <3> QED  BY <1>2, <1>5, <2>1, <3>1 DEF CommandSound, Bound
    <2> QED  BY <1>2, <2>1, <2>2, <2>3 DEF CommandSound, CommandType, Filed
  <1>8. \A b \in captured : b[1] \in Versions
    BY DEF CacheInv, CacheTypeOK, Bindings
  <1> QED  BY <1>2, <1>4, <1>5, <1>6, <1>7, <1>8
           DEF CacheInv, HostedServed, FilesPossible, SchemasIntact, EntriesSound

(* A power loss leaves of each file something the disk may hold, and an     *)
(* entry names a schema of which the disk holds nothing else.               *)
LEMMA PowerLossKeeps == ASSUME CacheInv, CacheLosesPower PROVE CacheInv'
  <1>1. /\ \A n \in Names : files'[n] \in onDisk[n] /\ onDisk'[n] = {files'[n]}
        /\ proc' = [p \in Procs |-> Idle]
        /\ UNCHANGED <<schemas, current, hosted, served, changes, captured, left>>
    BY DEF CacheLosesPower, origin
  <1>2. onDisk \in [Names -> SUBSET (Payloads \cup {None, Torn})]
    BY DEF CacheInv, CacheTypeOK
  <1>3. files' \in [Names -> Payloads \cup {None, Torn}]
    <2>1. files' \in [Names -> UNION {onDisk[n] : n \in Names}]
      BY DEF CacheLosesPower
    <2>2. UNION {onDisk[n] : n \in Names} \subseteq Payloads \cup {None, Torn}
      BY <1>2
    <2> QED  BY <2>1, <2>2
  <1>4. onDisk' \in [Names -> SUBSET (Payloads \cup {None, Torn})]
    BY <1>3 DEF CacheLosesPower
  <1>5. CacheTypeOK'
    <2>1. Idle \in CommandType
      BY IdleSound DEF CommandSound
    <2>2. proc' \in [Procs -> CommandType]
      BY <1>1, <2>1
    <2> QED  BY <1>1, <1>3, <1>4, <2>2 DEF CacheInv, CacheTypeOK, CommandType
  <1>6. \A n \in Names : onDisk'[n] \subseteq onDisk[n] /\ onDisk'[n] = {files'[n]}
    BY <1>1
  <1>7. (FilesPossible /\ SchemasIntact)'
    BY <1>6 DEF CacheInv, FilesPossible, SchemasIntact, Names
  <1>8. EntriesSound'
    <2> SUFFICES ASSUME NEW v \in Versions, NEW e \in onDisk'[v], e # None
                 PROVE  e \in Payloads /\ onDisk'[e] = {e} /\ Published(v, e) /\ Builds(schemas[e])
      BY <1>1 DEF EntriesSound, Published
    <2>1. e \in onDisk[v]
      BY <1>6 DEF Names
    <2>2. e \in Payloads /\ onDisk[e] = {e} /\ Published(v, e) /\ Builds(schemas[e])
      BY <2>1 DEF CacheInv, EntriesSound
    <2>3. onDisk'[e] = {e}
      BY <1>6, <2>2 DEF Names
    <2> QED  BY <2>2, <2>3
  <1>9. ASSUME NEW q \in Procs PROVE CommandSound(proc[q])'
    <2>1. proc'[q] = Idle
      BY <1>1
    <2> QED  BY <2>1, IdleSound
             DEF CommandSound, CommandType, Sourced, Filed, Bound, Idle,
                 Fetching, Saving, Reading, Loaded
  <1> QED  BY <1>1, <1>5, <1>7, <1>8, <1>9 DEF CacheInv, HostedServed, Published

LEMMA CacheNextKeeps == ASSUME CacheInv, [Next]_vars PROVE CacheInv'
  <1>1. CASE CacheNext
    BY <1>1, RunKeeps, StepKeeps, ReleaseKeeps, RepublishKeeps DEF CacheNext
  <1>2. CASE RunServer \/ Serves(ServerStep) \/ UNCHANGED vars
    <2>1. UNCHANGED <<schemas, current, hosted, served, changes, files, onDisk, proc, captured>>
          /\ left' \in 0..MaxStarts
      BY <1>2, CacheAssumption
         DEF RunServer, Serves, vars, cacheVars, origin, CacheInv, CacheTypeOK
    <2> QED  BY <2>1
             DEF CacheInv, CacheTypeOK, HostedServed, FilesPossible, SchemasIntact, EntriesSound,
                 Published, CommandSound, CommandType, Sourced, Filed, Bound
  <1>3. CASE PowerLoss
    BY <1>3, PowerLossKeeps DEF PowerLoss
  <1> QED  BY <1>1, <1>2, <1>3 DEF Next

LEMMA CacheSafe == Spec => []CacheInv
  <1>1. Init => CacheInv
    BY CacheInvInit DEF Init
  <1>2. CacheInv /\ [Next]_vars => CacheInv'
    BY CacheNextKeeps
  <1> QED  BY <1>1, <1>2, PTL DEF Spec

-----------------------------------------------------------------------------
(* However many fetches, ingests and power losses run into each other, what *)
(* fetch-proto reports was published for a version that was current while it*)
(* ran (docs/decisions.md:52-53, resource.go:116).                          *)
THEOREM FetchedSafe == Spec => []FetchedIsNamed
  <1>1. CacheInv => FetchedIsNamed
    BY DEF CacheInv, CommandSound, FetchedIsNamed, Sourced, Fetching, Saving, At, Published
  <1> QED  BY <1>1, CacheSafe, PTL

(* No metadata file, on the disk or as a power loss may leave it, names a   *)
(* schema that is missing, torn or cannot be built (cache.go:50).           *)
THEOREM EntriesSafe == Spec => []EntriesLoad
  <1>1. CacheInv => EntriesLoad
    <2> SUFFICES ASSUME CacheInv, NEW v \in Versions, NEW d \in onDisk[v] \cup {files[v]}, d # None
                 PROVE  d \in Payloads /\ onDisk[d] = {d} /\ files[d] = d /\ Builds(schemas[d])
      BY DEF EntriesLoad
    <2>1. d \in onDisk[v]
      BY DEF CacheInv, FilesPossible, Names
    <2>2. d \in Payloads /\ onDisk[d] = {d} /\ Builds(schemas[d])
      BY <2>1 DEF CacheInv, EntriesSound
    <2>3. files[d] = d
      BY <2>2 DEF CacheInv, FilesPossible, Names
    <2> QED  BY <2>2, <2>3
  <1> QED  BY <1>1, CacheSafe, PTL

(* A capture is decoded with the schema it was bound to, and refused for    *)
(* its own version only when two schemas were published for it              *)
(* (capture.go:302, docs/decisions.md:91).                                  *)
THEOREM DecodedSafe == Spec => []DecodedAsBound
  <1>1. CacheInv => DecodedAsBound
    <2> SUFFICES ASSUME CacheInv, NEW p \in Procs
                 PROVE  /\ At(p, "decoded") => proc[p].bound = <<proc[p].version, proc[p].sha>>
                        /\ At(p, "refused") /\ proc[p].bound[1] = proc[p].version =>
                                served[PrefixOf[proc[p].version]] # {proc[p].sha}
      BY DEF DecodedAsBound
    <2>1. CommandSound(proc[p])
      BY DEF CacheInv
    <2>2. At(p, "decoded") => proc[p].bound = <<proc[p].version, proc[p].sha>>
      BY <2>1 DEF CommandSound, Bound, At
    <2>3. ASSUME At(p, "refused"), proc[p].bound[1] = proc[p].version
          PROVE  served[PrefixOf[proc[p].version]] # {proc[p].sha}
      <3>1. proc[p].bound \in Bindings /\ proc[p].bound # <<proc[p].version, proc[p].sha>>
            /\ Published(proc[p].bound[1], proc[p].bound[2])
        BY <2>1, <2>3 DEF CommandSound, CommandType, Bound, At
      <3>2. proc[p].bound[2] # proc[p].sha
        BY <2>3, <3>1 DEF Bindings
      <3>3. proc[p].bound[2] \in served[PrefixOf[proc[p].version]]
        BY <2>3, <3>1 DEF Published
      <3> QED  BY <3>2, <3>3
    <2> QED  BY <2>2, <2>3
  <1> QED  BY <1>1, CacheSafe, PTL

-----------------------------------------------------------------------------
(***************************************************************************)
(* The registry.  What Build makes of a document says what the document    *)
(* says, however many names, scopes, fields and oneofs it has.  Inductions *)
(* are by the least counterexample (LeastOfNaturals), and an order is read *)
(* off the number of elements below each.                                  *)
(***************************************************************************)
(* A set of numbers has a least one, and a bounded one a greatest one.      *)
LEMMA LeastOfNaturals ==
    ASSUME NEW S, S \subseteq Nat, S # {}
    PROVE  \E x \in S : \A y \in S : x <= y
  <1> DEFINE Less == {p \in Nat \X Nat : p[1] < p[2]}
  <1>1. IsWellFoundedOn(Less, Nat)
    BY NatLessThanWellFounded DEF OpToRel
  <1>2. \A x, y \in Nat : <<y, x>> \in Less <=> y < x
    OBVIOUS
  <1> HIDE DEF Less
  <1>3. PICK x \in S : \A y \in S : ~ (<<y, x>> \in Less)
    BY <1>1, WFMin
  <1>4. ASSUME NEW y \in S PROVE x <= y
    <2>1. x \in Nat /\ y \in Nat
      OBVIOUS
    <2>2. ~ (y < x)
      BY <1>2, <1>3, <2>1
    <2> QED  BY <2>1, <2>2
  <1> QED  BY <1>4

LEMMA GreatestOfNaturals ==
    ASSUME NEW S, S \subseteq Nat, S # {}, NEW n \in Nat, \A x \in S : x <= n
    PROVE  \E x \in S : \A y \in S : y <= x
  <1> DEFINE T == {m \in Nat : \A x \in S : x <= m}
  <1>1. PICK m \in T : \A k \in T : m <= k
    <2>1. T \subseteq Nat /\ n \in T
      OBVIOUS
    <2> HIDE DEF T
    <2> QED  BY <2>1, LeastOfNaturals
  <1>2. m \in Nat /\ \A x \in S : x <= m
    OBVIOUS
  <1>3. CASE m \in S
    BY <1>2, <1>3
  <1>4. CASE m \notin S
    <2>1. \A x \in S : x <= m - 1
      BY <1>2, <1>4
    <2>2. PICK x \in S : TRUE
      OBVIOUS
    <2>3. m - 1 \in Nat
      BY <1>2, <2>1, <2>2
    <2>4. m - 1 \in T
      BY <2>1, <2>3
    <2> QED  BY <1>1, <1>2, <2>4
  <1> QED  BY <1>3, <1>4

(***************************************************************************)
(* Order                                                                   *)
(***************************************************************************)
StrictOrder(S, order) ==
    /\ \A x \in S : <<x, x>> \notin order
    /\ \A x, y, z \in S : <<x, y>> \in order /\ <<y, z>> \in order => <<x, z>> \in order
    /\ \A x, y \in S : x = y \/ <<x, y>> \in order \/ <<y, x>> \in order

(* Listed(S, order, s): s has every element of S once, in order.            *)
Listed(S, order, s) ==
    /\ s \in Seq(S) /\ Len(s) = Cardinality(S)
    /\ \A i, j \in DOMAIN s : i < j => <<s[i], s[j]>> \in order /\ s[i] # s[j]
    /\ \A x \in S : \E i \in DOMAIN s : s[i] = x

LEMMA InOrderLists ==
    ASSUME NEW S, IsFiniteSet(S), NEW order, StrictOrder(S, order)
    PROVE  Listed(S, order, InOrder(S, order))
  <1> DEFINE n == Cardinality(S)
             Rank(x) == Cardinality(Below(S, order, x))
             rank == [x \in S |-> Rank(x)]
             s == InOrder(S, order)
  <1>1. n \in Nat
    BY FS_CardinalityType
  <1>2. ASSUME NEW x \in S
        PROVE  IsFiniteSet(Below(S, order, x)) /\ Rank(x) \in 0..(n - 1)
    <2>1. Below(S, order, x) \in SUBSET S /\ Below(S, order, x) # S
      BY DEF Below, StrictOrder
    <2>2. IsFiniteSet(Below(S, order, x)) /\ Rank(x) <= n /\ Rank(x) # n
      BY <2>1, FS_Subset
    <2>3. Rank(x) \in Nat
      BY <2>2, FS_CardinalityType
    <2> QED  BY <1>1, <2>2, <2>3
  <1>3. ASSUME NEW x \in S, NEW y \in S, <<x, y>> \in order PROVE Rank(x) < Rank(y)
    <2>1. Below(S, order, x) \cup {x} \in SUBSET Below(S, order, y)
      BY <1>3 DEF Below, StrictOrder
    <2>2. x \notin Below(S, order, x)
      BY DEF Below, StrictOrder
    <2>3. Cardinality(Below(S, order, x) \cup {x}) = Rank(x) + 1
      BY <1>2, <2>2, FS_AddElement
    <2>4. Rank(x) + 1 <= Rank(y)
      BY <1>2, <2>1, <2>3, FS_Subset
    <2>5. Rank(x) \in Nat /\ Rank(y) \in Nat
      BY <1>1, <1>2
    <2> HIDE DEF Rank
    <2> QED  BY <2>4, <2>5
  <1> HIDE DEF Rank
  <1>4. \A x, y \in S : Rank(x) = Rank(y) => x = y
    <2> SUFFICES ASSUME NEW x \in S, NEW y \in S, Rank(x) = Rank(y), x # y PROVE FALSE
      OBVIOUS
    <2>1. Rank(x) \in Int /\ Rank(y) \in Int
      BY <1>1, <1>2
    <2>2. Rank(x) < Rank(y) \/ Rank(y) < Rank(x)
      BY <1>3 DEF StrictOrder
    <2> QED  BY <2>1, <2>2
  <1>5. rank \in Surjection(S, 0..(n - 1))
    <2>1. rank \in Injection(S, 0..(n - 1))
      BY <1>2, <1>4 DEF Injection, IsInjective
    <2>2. IsFiniteSet(0..(n - 1)) /\ Cardinality(0..(n - 1)) = n
      <3>1. 0 \in Int /\ n - 1 \in Int
        BY <1>1
      <3>2. CASE n = 0
        BY <3>1, <3>2, FS_Interval
      <3>3. CASE n # 0
        BY <1>1, <3>1, <3>3, FS_Interval
      <3> QED  BY <3>2, <3>3
    <2> HIDE DEF rank
    <2> QED  BY <2>1, <2>2, FS_Injection
  <1>6. \A i \in 1..n : s[i] \in S /\ Rank(s[i]) = i - 1
    <2> SUFFICES ASSUME NEW i \in 1..n PROVE s[i] \in S /\ Rank(s[i]) = i - 1
      OBVIOUS
    <2>1. i - 1 \in 0..(n - 1)
      BY <1>1
    <2>2. \E x \in S : Rank(x) = i - 1
      BY <1>5, <2>1 DEF Surjection
    <2>3. s[i] = CHOOSE x \in S : Rank(x) = i - 1
      BY DEF InOrder, Rank
    <2> QED  BY <2>2, <2>3
  <1>7. s \in [1..n -> S]
    <2>1. s = [i \in 1..n |-> s[i]]
      BY DEF InOrder
    <2> HIDE DEF s
    <2> QED  BY <1>6, <2>1
  <1>8. DOMAIN s = 1..n
    BY <1>7
  <1> HIDE DEF s, n
  <1>9. s \in Seq(S) /\ Len(s) = n
    <2>1. \E m \in Nat : s \in [1..m -> S]
      BY <1>1, <1>7
    <2>2. s \in Seq(S)
      BY <2>1
    <2>3. DOMAIN s = 1..Len(s) /\ Len(s) \in Nat
      BY <2>2
    <2> QED  BY <1>1, <1>8, <2>2, <2>3
  <1>10. ASSUME NEW i \in 1..n, NEW j \in 1..n, i < j
         PROVE  <<s[i], s[j]>> \in order /\ s[i] # s[j]
    <2>1. s[i] \in S /\ s[j] \in S /\ Rank(s[i]) = i - 1 /\ Rank(s[j]) = j - 1
      BY <1>6
    <2>2. s[i] # s[j]
      BY <1>1, <1>10, <2>1
    <2>3. <<s[j], s[i]>> \notin order
      <3> SUFFICES ASSUME <<s[j], s[i]>> \in order PROVE FALSE
        OBVIOUS
      <3>1. Rank(s[j]) < Rank(s[i])
        BY <1>3, <2>1
      <3> QED  BY <1>1, <1>10, <2>1, <3>1
    <2> QED  BY <2>1, <2>2, <2>3 DEF StrictOrder
  <1>11. ASSUME NEW x \in S PROVE \E i \in 1..n : s[i] = x
    <2>1. Rank(x) \in 0..(n - 1)
      BY <1>2 DEF n
    <2>2. Rank(x) + 1 \in 1..n /\ (Rank(x) + 1) - 1 = Rank(x)
      BY <1>1, <2>1
    <2>3. s[Rank(x) + 1] \in S /\ Rank(s[Rank(x) + 1]) = Rank(x)
      BY <1>6, <2>2
    <2> QED  BY <1>4, <2>2, <2>3
  <1> QED  BY <1>8, <1>9, <1>10, <1>11 DEF Listed, s, n

(* Before is a strict order of the names: entries first, then by the number *)
(* of underscores, then by the word.                                        *)
Class(n) == IF n.entry THEN 0 ELSE 1

LEMMA NameParts ==
    /\ \A n \in NameType : n.word \in Nat /\ n.bars \in Nat /\ n.entry \in BOOLEAN /\ Class(n) \in {0, 1}
    /\ \A x, y \in NameType : x.word = y.word /\ x.bars = y.bars /\ Class(x) = Class(y) => x = y
    /\ \A n \in NameType : \A b \in Nat : LET m == [n EXCEPT !.bars = b] IN m \in NameType /\ m.bars = b
  <1>1. ASSUME NEW n \in NameType
        PROVE  /\ n.word \in Nat /\ n.bars \in Nat /\ n.entry \in BOOLEAN
               /\ n = [word |-> n.word, bars |-> n.bars, entry |-> n.entry]
    BY DEF NameType
  <1>2. \A n \in NameType : Class(n) \in {0, 1}
    BY DEF Class
  <1>3. ASSUME NEW n \in NameType, NEW b \in Nat
        PROVE  [n EXCEPT !.bars = b] \in NameType /\ [n EXCEPT !.bars = b].bars = b
    BY DEF NameType
  <1>4. ASSUME NEW x \in NameType, NEW y \in NameType,
               x.word = y.word, x.bars = y.bars, Class(x) = Class(y)
        PROVE  x = y
    <2>1. x.entry = y.entry
      <3>1. x.entry \in BOOLEAN /\ y.entry \in BOOLEAN
        BY <1>1
      <3>2. CASE x.entry
        <4>1. Class(y) = 0
          BY <1>4, <3>2 DEF Class
        <4>2. y.entry
          BY <4>1 DEF Class
        <4> QED  BY <3>1, <3>2, <4>2, Zenon
      <3>3. CASE ~x.entry
        <4>1. Class(y) = 1
          BY <1>4, <3>3 DEF Class
        <4>2. ~y.entry
          BY <4>1 DEF Class
        <4> QED  BY <3>1, <3>3, <4>2, Zenon
      <3> QED  BY <3>2, <3>3
    <2>2. /\ x = [word |-> x.word, bars |-> x.bars, entry |-> x.entry]
          /\ y = [word |-> y.word, bars |-> y.bars, entry |-> y.entry]
      BY <1>1
    <2> QED  BY <1>4, <2>1, <2>2
  <1> QED  BY <1>1, <1>2, <1>3, <1>4

LEMMA BeforeNames ==
    ASSUME NEW x \in NameType, NEW y \in NameType
    PROVE  Before(x, y) <=>
             \/ Class(x) < Class(y)
             \/ Class(x) = Class(y) /\ Class(x) = 0 /\ x.bars < y.bars
             \/ Class(x) = Class(y) /\ Class(x) = 1 /\ x.bars > y.bars
             \/ Class(x) = Class(y) /\ x.bars = y.bars /\ x.word < y.word
  <1>1. x.entry \in BOOLEAN /\ y.entry \in BOOLEAN
    BY NameParts
  <1>2. CASE x.entry /\ y.entry
    <2>1. Before(x, y) <=> (x.bars < y.bars \/ (x.bars = y.bars /\ x.word < y.word))
      <3>1. x.entry = y.entry
        BY <1>1, <1>2, Zenon
      <3> QED  BY <1>2, <3>1, Zenon DEF Before
    <2>2. Class(x) = 0 /\ Class(y) = 0
      BY <1>2 DEF Class
    <2> QED  BY <2>1, <2>2
  <1>3. CASE x.entry /\ ~y.entry
    <2>1. Before(x, y)
      BY <1>3, Zenon DEF Before
    <2>2. Class(x) = 0 /\ Class(y) = 1
      BY <1>3 DEF Class
    <2> QED  BY <2>1, <2>2
  <1>4. CASE ~x.entry /\ y.entry
    <2>1. ~Before(x, y)
      <3>1. x.entry # y.entry
        BY <1>1, <1>4, Zenon
      <3> QED  BY <1>4, <3>1, Zenon DEF Before
    <2>2. Class(x) = 1 /\ Class(y) = 0
      BY <1>4 DEF Class
    <2> QED  BY <2>1, <2>2
  <1>5. CASE ~x.entry /\ ~y.entry
    <2>1. Before(x, y) <=> (x.bars > y.bars \/ (x.bars = y.bars /\ x.word < y.word))
      <3>1. x.entry = y.entry
        BY <1>1, <1>5, Zenon
      <3> QED  BY <1>5, <3>1, Zenon DEF Before
    <2>2. Class(x) = 1 /\ Class(y) = 1
      BY <1>5 DEF Class
    <2> QED  BY <2>1, <2>2
  <1> QED  BY <1>2, <1>3, <1>4, <1>5, Zenon

LEMMA BeforeOrders ==
    /\ \A x \in NameType : ~Before(x, x)
    /\ \A x, y, z \in NameType : Before(x, y) /\ Before(y, z) => Before(x, z)
    /\ \A x, y \in NameType : x = y \/ Before(x, y) \/ Before(y, x)
  <1>1. \A x \in NameType : x.word \in Nat /\ x.bars \in Nat /\ Class(x) \in {0, 1}
    BY NameParts
  <1>2. ASSUME NEW x \in NameType PROVE ~Before(x, x)
    BY <1>1, BeforeNames
  <1>3. ASSUME NEW x \in NameType, NEW y \in NameType, NEW z \in NameType,
               Before(x, y), Before(y, z)
        PROVE  Before(x, z)
    BY <1>1, <1>3, BeforeNames
  <1>4. ASSUME NEW x \in NameType, NEW y \in NameType
        PROVE  x = y \/ Before(x, y) \/ Before(y, x)
    <2>1. x.word = y.word /\ x.bars = y.bars /\ Class(x) = Class(y) => x = y
      BY NameParts
    <2> QED  BY <1>1, <2>1, BeforeNames
  <1> QED  BY <1>2, <1>3, <1>4

LEMMA SortedLists ==
    ASSUME NEW S, IsFiniteSet(S), S \subseteq NameType
    PROVE  /\ Sorted(S) \in Seq(S) /\ Len(Sorted(S)) = Cardinality(S)
           /\ \A i, j \in DOMAIN Sorted(S) : Sorted(S)[i] = Sorted(S)[j] => i = j
           /\ \A x \in S : \E i \in DOMAIN Sorted(S) : Sorted(S)[i] = x
  <1> DEFINE order == {pair \in S \X S : Before(pair[1], pair[2])}
  <1>1. \A x, y \in S : <<x, y>> \in order <=> Before(x, y)
    OBVIOUS
  <1>2. StrictOrder(S, order)
    <2> HIDE DEF order
    <2> QED  BY <1>1, BeforeOrders DEF StrictOrder
  <1>3. Sorted(S) = InOrder(S, order)
    BY DEF Sorted
  <1> HIDE DEF order
  <1>4. Listed(S, order, Sorted(S))
    BY <1>2, <1>3, InOrderLists
  <1> DEFINE s == Sorted(S)
  <1>5. DOMAIN s = 1..Len(s) /\ Len(s) \in Nat
    BY <1>4 DEF Listed
  <1> HIDE DEF s
  <1>6. \A i, j \in 1..Len(s) : i < j => s[i] # s[j]
    BY <1>4, <1>5 DEF Listed, s
  <1>7. \A i, j \in 1..Len(s) : s[i] = s[j] => i = j
    BY <1>5, <1>6
  <1> QED  BY <1>4, <1>5, <1>7 DEF Listed, s

(***************************************************************************)
(* Names                                                                   *)
(***************************************************************************)
(* Among more candidates than names in use one is free, and the first free  *)
(* one is found.                                                            *)
LEMMA FreeNameFree ==
    ASSUME NEW f \in NameType, NEW used, IsFiniteSet(used)
    PROVE  FreeName(f, used) \in NameType /\ FreeName(f, used) \notin used /\ FreeName(f, used).bars # 0
  <1> DEFINE c == Cardinality(used)
             Barred(b) == [f EXCEPT !.bars = f.bars + b]
             free == {b \in 1..(c + 1) : Barred(b) \notin used}
             Candidates == {Barred(b) : b \in 1..(c + 1)}
             Good(n) == /\ n \notin used
                        /\ \A b \in (f.bars + 1)..(n.bars - 1) : [f EXCEPT !.bars = b] \in used
  <1>1. c \in Nat
    BY FS_CardinalityType
  <1>3. f.bars \in Nat
    BY NameParts
  <1>2. ASSUME NEW b \in Nat PROVE Barred(b) \in NameType /\ Barred(b).bars = f.bars + b
    <2>1. f.bars + b \in Nat
      BY <1>3
    <2> QED  BY <2>1, NameParts
  <1> HIDE DEF c
  <1>4. free # {}
    <2> SUFFICES ASSUME free = {} PROVE FALSE
      OBVIOUS
    <2> DEFINE g == [b \in 1..(c + 1) |-> Barred(b)]
    <2>1. g \in [1..(c + 1) -> used]
      OBVIOUS
    <2>2. \A a, b \in 1..(c + 1) : g[a] = g[b] => a = b
      <3> SUFFICES ASSUME NEW a \in 1..(c + 1), NEW b \in 1..(c + 1), Barred(a) = Barred(b) PROVE a = b
        OBVIOUS
      <3>1. f.bars + a = f.bars + b
        <4>1. a \in Nat /\ b \in Nat
          BY <1>1
        <4>2. Barred(a).bars = f.bars + a /\ Barred(b).bars = f.bars + b
          BY <1>2, <4>1
        <4> QED  BY <4>2
      <3> QED  BY <1>1, <1>3, <3>1
    <2> HIDE DEF g
    <2>3. g \in Injection(1..(c + 1), used)
      BY <2>1, <2>2 DEF Injection, IsInjective
    <2>4. Cardinality(1..(c + 1)) <= c
      BY <2>3, FS_Injection DEF c
    <2>5. Cardinality(1..(c + 1)) = c + 1
      <3>1. 1 \in Int /\ c + 1 \in Int /\ ~(1 > c + 1) /\ (c + 1) - 1 + 1 = c + 1
        BY <1>1
      <3> QED  BY <3>1, FS_Interval
    <2> QED  BY <1>1, <2>4, <2>5
  <1>5. PICK b \in free : \A a \in free : b <= a
    <2>1. free \subseteq Nat
      BY <1>1
    <2> QED  BY <1>4, <2>1, LeastOfNaturals
  <1>6. b \in 1..(c + 1) /\ b \in Nat
    BY <1>1
  <1>7. Good(Barred(b))
    <2>1. Barred(b) \notin used /\ Barred(b).bars = f.bars + b
      BY <1>2, <1>6
    <2>2. ASSUME NEW a \in (f.bars + 1)..(f.bars + b - 1) PROVE [f EXCEPT !.bars = a] \in used
      <3>1. a - f.bars \in 1..(c + 1) /\ a - f.bars < b /\ f.bars + (a - f.bars) = a
        BY <1>1, <1>3, <1>6
      <3>2. a - f.bars \notin free
        BY <1>5, <1>6, <3>1
      <3>3. Barred(a - f.bars) \in used
        BY <3>1, <3>2
      <3> QED  BY <3>1, <3>3
    <2>3. \A a \in (f.bars + 1)..(Barred(b).bars - 1) : [f EXCEPT !.bars = a] \in used
      <3> SUFFICES ASSUME NEW a \in (f.bars + 1)..(Barred(b).bars - 1)
                   PROVE  [f EXCEPT !.bars = a] \in used
        OBVIOUS
      <3>1. a \in (f.bars + 1)..(f.bars + b - 1)
        <4> HIDE DEF Barred
        <4> QED  BY <1>3, <1>6, <2>1
      <3> QED  BY <2>2, <3>1, Zenon
    <2> QED  BY <2>1, <2>3
  <1>8. Barred(b) \in Candidates
    BY <1>6
  <1>9. FreeName(f, used) = CHOOSE n \in Candidates : Good(n)
    BY DEF FreeName, c
  <1> HIDE DEF Good
  <1>10. FreeName(f, used) \in Candidates /\ Good(FreeName(f, used))
    BY <1>7, <1>8, <1>9
  <1>11. \A n \in Candidates : n \in NameType /\ n.bars # 0
    <2> SUFFICES ASSUME NEW a \in 1..(c + 1) PROVE Barred(a) \in NameType /\ Barred(a).bars # 0
      OBVIOUS
    <2>1. a \in Nat /\ a # 0
      BY <1>1
    <2>2. Barred(a) \in NameType /\ Barred(a).bars = f.bars + a
      BY <1>2, <2>1
    <2> HIDE DEF Barred
    <2> QED  BY <1>3, <2>1, <2>2
  <1> QED  BY <1>10, <1>11 DEF Good

(* The recursion by which generated names avoid each other is well defined, *)
(* by induction on the number of names.                                     *)
Chosen(order, used, n, s) ==
    s = [i \in 1..n |-> FreeName(order[i], used \cup {s[j] : j \in 1..(i - 1)})]

LEMMA ChosenExists ==
    ASSUME NEW order, NEW used, NEW n \in Nat
    PROVE  \E s : Chosen(order, used, n, s)
  <1> DEFINE bad == {m \in Nat : ~ \E s : Chosen(order, used, m, s)}
  <1> SUFFICES ASSUME bad # {} PROVE FALSE
    OBVIOUS
  <1>1. PICK m \in bad : \A k \in bad : m <= k
    BY LeastOfNaturals
  <1>2. m \in Nat
    OBVIOUS
  <1>3. CASE m = 0
    <2> DEFINE e == [i \in 1..0 |-> 0]
    <2>1. 1..0 = {}
      OBVIOUS
    <2>2. e = [i \in 1..0 |-> FreeName(order[i], used \cup {e[j] : j \in 1..(i - 1)})]
      BY <2>1
    <2>3. Chosen(order, used, 0, e)
      BY <2>2 DEF Chosen
    <2> QED  BY <1>3, <2>3
  <1>4. CASE m # 0
    <2> DEFINE k == m - 1
    <2>1. k \in Nat /\ k < m /\ m = k + 1
      BY <1>2, <1>4
    <2> HIDE DEF k
    <2>2. PICK s : Chosen(order, used, k, s)
      BY <1>1, <1>2, <2>1
    <2> DEFINE New == FreeName(order[m], used \cup {s[j] : j \in 1..k})
               t == [i \in 1..m |-> IF i = m THEN New ELSE s[i]]
               r == [i \in 1..m |-> FreeName(order[i], used \cup {t[j] : j \in 1..(i - 1)})]
    <2>3. ASSUME NEW i \in 1..m PROVE t[i] = r[i]
      <3>1. \A j \in 1..(i - 1) : t[j] = s[j]
        BY <1>2
      <3> DEFINE before == {t[j] : j \in 1..(i - 1)}
      <3>2. before = {s[j] : j \in 1..(i - 1)}
        BY <3>1
      <3>3. r[i] = FreeName(order[i], used \cup {s[j] : j \in 1..(i - 1)})
        BY <3>2
      <3>4. CASE i = m
        <4>1. i - 1 = k
          BY <2>1, <3>4
        <4> QED  BY <3>3, <3>4, <4>1
      <3>5. CASE i # m
        <4>1. i \in 1..k
          BY <2>1, <3>5
        <4>2. s[i] = FreeName(order[i], used \cup {s[j] : j \in 1..(i - 1)})
          BY <2>2, <4>1 DEF Chosen
        <4> QED  BY <3>3, <3>5, <4>2
      <3> QED  BY <3>4, <3>5
    <2>4. t = r
      BY <2>3
    <2>5. Chosen(order, used, m, t)
      BY <2>4 DEF Chosen
    <2> QED  BY <2>5
  <1> QED  BY <1>3, <1>4

(* The generated names are free and differ from each other.                 *)
LEMMA ChosenFree ==
    ASSUME NEW n \in Nat, NEW order \in [1..n -> NameType],
           NEW used, IsFiniteSet(used), NEW s, Chosen(order, used, n, s)
    PROVE  /\ s \in [1..n -> NameType]
           /\ \A i \in 1..n : s[i] \notin used /\ s[i].bars # 0
           /\ \A i, j \in 1..n : s[i] = s[j] => i = j
  <1> DEFINE Taken(i) == used \cup {s[j] : j \in 1..(i - 1)}
  <1>1. s = [i \in 1..n |-> s[i]] /\ \A i \in 1..n : s[i] = FreeName(order[i], Taken(i))
    <2>1. DOMAIN s = 1..n /\ s = [i \in 1..n |-> FreeName(order[i], Taken(i))]
      BY DEF Chosen
    <2> HIDE DEF Taken
    <2>2. \A i \in 1..n : s[i] = FreeName(order[i], Taken(i))
      BY <2>1
    <2> QED  BY <2>1, <2>2
  <1>2. ASSUME NEW i \in 1..n PROVE IsFiniteSet(Taken(i))
    <2> DEFINE I == 1..(i - 1)
               T == {s[j] : j \in I}
               h == [j \in I |-> s[j]]
    <2>1. IsFiniteSet(I)
      BY FS_Interval
    <2>2. h \in Surjection(I, T)
      BY DEF Surjection
    <2>3. IsFiniteSet(T)
      <3> HIDE DEF h, T, I
      <3> QED  BY <2>1, <2>2, FS_Surjection
    <2> QED  BY <2>3, FS_Union
  <1>3. \A i \in 1..n : s[i] \in NameType /\ s[i] \notin Taken(i) /\ s[i].bars # 0
    <2> SUFFICES ASSUME NEW i \in 1..n
                 PROVE  s[i] \in NameType /\ s[i] \notin Taken(i) /\ s[i].bars # 0
      OBVIOUS
    <2>1. IsFiniteSet(Taken(i)) /\ s[i] = FreeName(order[i], Taken(i)) /\ order[i] \in NameType
      BY <1>1, <1>2
    <2> HIDE DEF Taken
    <2> QED  BY <2>1, FreeNameFree
  <1>4. \A i, j \in 1..n : i < j => s[i] # s[j]
    <2> SUFFICES ASSUME NEW i \in 1..n, NEW j \in 1..n, i < j PROVE s[i] # s[j]
      OBVIOUS
    <2>1. i \in 1..(j - 1)
      OBVIOUS
    <2>2. s[i] \in Taken(j)
      BY <2>1
    <2>3. s[j] \notin Taken(j)
      BY <1>3
    <2> HIDE DEF Taken
    <2> QED  BY <2>2, <2>3
  <1>5. \A i, j \in 1..n : s[i] = s[j] => i = j
    BY <1>4
  <1>6. \A i \in 1..n : s[i] \notin used /\ s[i].bars # 0
    BY <1>3
  <1> HIDE DEF Taken
  <1> QED  BY <1>1, <1>3, <1>5, <1>6

(***************************************************************************)
(* A message that Build takes: its names are finite, its oneofs disjoint.   *)
(***************************************************************************)
ValidMessage(schema, path) ==
    /\ Document(schema) /\ path \in Paths(schema, {"message"})
    /\ OneofsValid(schema, path) /\ FieldsValid(schema, path) /\ EntriesValid(schema, path)

LEMMA MessageParts ==
    ASSUME NEW schema, NEW path, ValidMessage(schema, path)
    PROVE  LET def == schema[path] IN
           /\ IsFiniteSet(DOMAIN def.fields) /\ DOMAIN def.fields \subseteq NameType
           /\ IsFiniteSet(DOMAIN def.oneofs) /\ DOMAIN def.oneofs \subseteq NameType
           /\ \A f \in DOMAIN def.fields : def.fields[f] \in FieldType
           /\ \A key \in DOMAIN def.oneofs : def.oneofs[key] \subseteq DOMAIN def.fields /\ def.oneofs[key] # {}
           /\ \A j, k \in DOMAIN def.oneofs : \A f : f \in def.oneofs[j] /\ f \in def.oneofs[k] => j = k
           /\ \A key \in DOMAIN def.oneofs : Synthetic(def, key) => Cardinality(def.oneofs[key]) = 1
           /\ \A key \in DOMAIN def.oneofs : key \notin Used(schema, path)
  <1> DEFINE def == schema[path]
             names == DOMAIN def.fields \cup DOMAIN def.oneofs
  <1>1. path \in DOMAIN schema /\ def.kind = "message"
    BY DEF ValidMessage, Paths
  <1>2. /\ IsFiniteSet(names) /\ names \subseteq NameType
        /\ def.fields \in [DOMAIN def.fields -> FieldType]
    BY <1>1 DEF ValidMessage, Document
  <1>3. IsFiniteSet(DOMAIN def.fields) /\ IsFiniteSet(DOMAIN def.oneofs)
    BY <1>2, FS_Subset
  <1>4. \A f \in DOMAIN def.fields : def.fields[f] \in FieldType
    BY <1>2
  <1>5. OneofsValid(schema, path)
    BY DEF ValidMessage
  <1>6. \A key \in DOMAIN def.oneofs : def.oneofs[key] \subseteq DOMAIN def.fields /\ def.oneofs[key] # {}
    BY <1>5 DEF OneofsValid
  <1>7. \A j, k \in DOMAIN def.oneofs : \A f : f \in def.oneofs[j] /\ f \in def.oneofs[k] => j = k
    BY <1>5 DEF OneofsValid
  <1>8. \A key \in DOMAIN def.oneofs : /\ Synthetic(def, key) => Cardinality(def.oneofs[key]) = 1
                                       /\ key \notin Used(schema, path)
    BY <1>5 DEF OneofsValid
  <1> QED  BY <1>2, <1>3, <1>4, <1>6, <1>7, <1>8

LEMMA UsedFinite ==
    ASSUME NEW schema, NEW path, ValidMessage(schema, path)
    PROVE  IsFiniteSet(Used(schema, path))
  <1> DEFINE inner == {q \in DOMAIN schema : Front(q) = path}
             last == [q \in inner |-> Last(q)]
  <1>1. IsFiniteSet(inner)
    <2>1. IsFiniteSet(DOMAIN schema)
      BY DEF ValidMessage, Document
    <2> QED  BY <2>1, FS_Subset
  <1>2. last \in Surjection(inner, Nested(schema, path))
    BY DEF Surjection, Nested
  <1>3. IsFiniteSet(Nested(schema, path))
    <2> HIDE DEF inner, last
    <2> QED  BY <1>1, <1>2, FS_Surjection
  <1>4. IsFiniteSet(DOMAIN schema[path].fields)
    BY MessageParts
  <1> QED  BY <1>3, <1>4, FS_Union DEF Used

(* The declared oneofs are listed once each, the synthetic ones last.       *)
LEMMA RealFirstLists ==
    ASSUME NEW def, IsFiniteSet(DOMAIN def.oneofs), DOMAIN def.oneofs \subseteq NameType
    PROVE  LET R == RealFirst(def) IN
           /\ R \in Seq(DOMAIN def.oneofs)
           /\ \A i, j \in 1..Len(R) : R[i] = R[j] => i = j
           /\ \A key \in DOMAIN def.oneofs : \E i \in 1..Len(R) : R[i] = key
           /\ \A i, j \in 1..Len(R) : i <= j /\ Synthetic(def, R[i]) => Synthetic(def, R[j])
  <1> DEFINE X == {k \in DOMAIN def.oneofs : ~Synthetic(def, k)}
             Y == {k \in DOMAIN def.oneofs : Synthetic(def, k)}
             A == Sorted(X)
             B == Sorted(Y)
             R == RealFirst(def)
  <1>1. /\ A \in Seq(X)
        /\ \A i, j \in DOMAIN A : A[i] = A[j] => i = j
        /\ \A x \in X : \E i \in DOMAIN A : A[i] = x
    <2>1. X \in SUBSET DOMAIN def.oneofs
      OBVIOUS
    <2>2. IsFiniteSet(X) /\ X \subseteq NameType
      BY <2>1, FS_Subset
    <2> HIDE DEF X
    <2> QED  BY <2>2, SortedLists
  <1>2. /\ B \in Seq(Y)
        /\ \A i, j \in DOMAIN B : B[i] = B[j] => i = j
        /\ \A x \in Y : \E i \in DOMAIN B : B[i] = x
    <2>1. Y \in SUBSET DOMAIN def.oneofs
      OBVIOUS
    <2>2. IsFiniteSet(Y) /\ Y \subseteq NameType
      BY <2>1, FS_Subset
    <2> HIDE DEF Y
    <2> QED  BY <2>2, SortedLists
  <1>3. R = A \o B
    BY DEF RealFirst
  <1>4. /\ \A k \in X : k \in DOMAIN def.oneofs /\ ~Synthetic(def, k)
        /\ \A k \in Y : k \in DOMAIN def.oneofs /\ Synthetic(def, k)
        /\ \A k \in DOMAIN def.oneofs : k \in X \/ k \in Y
    OBVIOUS
  <1> HIDE DEF X, Y, A, B, R
  <1>5. A \in Seq(DOMAIN def.oneofs) /\ B \in Seq(DOMAIN def.oneofs)
    <2>1. X \subseteq DOMAIN def.oneofs /\ Y \subseteq DOMAIN def.oneofs
      BY <1>4
    <2> QED  BY <1>1, <1>2, <2>1
  <1>6. R \in Seq(DOMAIN def.oneofs) /\ Len(R) = Len(A) + Len(B)
    BY <1>3, <1>5
  <1>7. Len(A) \in Nat /\ Len(B) \in Nat /\ DOMAIN A = 1..Len(A) /\ DOMAIN B = 1..Len(B)
    BY <1>5
  <1>8. /\ \A i \in 1..Len(A) : R[i] = A[i] /\ A[i] \in X
        /\ \A i \in (Len(A) + 1)..Len(R) :
              i - Len(A) \in 1..Len(B) /\ R[i] = B[i - Len(A)] /\ B[i - Len(A)] \in Y
    <2>1. \A i \in 1..Len(A) : R[i] = A[i] /\ A[i] \in X
      BY <1>1, <1>3, <1>5, <1>7
    <2>2. ASSUME NEW i \in (Len(A) + 1)..Len(R)
          PROVE  i - Len(A) \in 1..Len(B) /\ R[i] = B[i - Len(A)] /\ B[i - Len(A)] \in Y
      <3>1. i - Len(A) \in 1..Len(B) /\ i \in Nat /\ i > Len(A) /\ i <= Len(A) + Len(B)
        BY <1>6, <1>7
      <3>2. R[i] = B[i - Len(A)]
        BY <1>3, <1>5, <1>7, <3>1
      <3> QED  BY <1>2, <1>7, <3>1, <3>2
    <2> QED  BY <2>1, <2>2
  <1>9. \A i \in 1..Len(R) : i \in 1..Len(A) \/ i \in (Len(A) + 1)..Len(R)
    BY <1>6, <1>7
  <1>10. \A i \in 1..Len(R) : Synthetic(def, R[i]) <=> i \in (Len(A) + 1)..Len(R)
    BY <1>4, <1>8, <1>9, <1>6, <1>7
  <1>11. ASSUME NEW i \in 1..Len(R), NEW j \in 1..Len(R), R[i] = R[j] PROVE i = j
    <2>1. CASE i \in 1..Len(A)
      <3>1. j \in 1..Len(A)
        BY <1>4, <1>8, <1>9, <1>11, <2>1
      <3> QED  BY <1>1, <1>7, <1>8, <1>11, <2>1, <3>1
    <2>2. CASE i \in (Len(A) + 1)..Len(R)
      <3>1. j \in (Len(A) + 1)..Len(R)
        BY <1>4, <1>8, <1>9, <1>11, <2>2
      <3>2. i - Len(A) = j - Len(A)
        <4> DEFINE a == i - Len(A)
                   b == j - Len(A)
        <4>1. a \in DOMAIN B /\ b \in DOMAIN B /\ B[a] = B[b]
          BY <1>7, <1>8, <1>11, <2>2, <3>1
        <4> HIDE DEF a, b
        <4>2. a = b
          BY <1>2, <4>1
        <4> QED  BY <4>2 DEF a, b
      <3> QED  BY <1>6, <1>7, <2>2, <3>1, <3>2
    <2> QED  BY <1>9, <2>1, <2>2
  <1>12. ASSUME NEW key \in DOMAIN def.oneofs PROVE \E i \in 1..Len(R) : R[i] = key
    <2>1. CASE key \in X
      <3>1. PICK i \in 1..Len(A) : A[i] = key
        BY <1>1, <1>7, <2>1
      <3>2. i \in 1..Len(R)
        BY <1>6, <1>7
      <3> QED  BY <1>8, <3>1, <3>2
    <2>2. CASE key \in Y
      <3>1. PICK i \in 1..Len(B) : B[i] = key
        BY <1>2, <1>7, <2>2
      <3>2. Len(A) + i \in (Len(A) + 1)..Len(R) /\ (Len(A) + i) - Len(A) = i /\ Len(A) + i \in 1..Len(R)
        BY <1>6, <1>7
      <3>3. R[Len(A) + i] = B[i]
        BY <1>8, <3>2
      <3> QED  BY <3>1, <3>2, <3>3
    <2> QED  BY <1>4, <2>1, <2>2
  <1>13. \A i, j \in 1..Len(R) : i <= j /\ Synthetic(def, R[i]) => Synthetic(def, R[j])
    <2> SUFFICES ASSUME NEW i \in 1..Len(R), NEW j \in 1..Len(R), i <= j, Synthetic(def, R[i])
                 PROVE  Synthetic(def, R[j])
      OBVIOUS
    <2>1. i \in (Len(A) + 1)..Len(R)
      BY <1>10
    <2>2. j \in (Len(A) + 1)..Len(R)
      BY <1>6, <1>7, <2>1
    <2> QED  BY <1>10, <2>2
  <1> QED  BY <1>6, <1>11, <1>12, <1>13 DEF R

(* Every implicit field has a generated oneof, with a name of its own.      *)
LEMMA ImplicitLists ==
    ASSUME NEW schema, NEW path, ValidMessage(schema, path)
    PROVE  LET def == schema[path]
               I == Sorted(ImplicitFields(def))
               M == ImplicitOneofs(schema, path)
           IN /\ I \in Seq(ImplicitFields(def)) /\ M \in Seq(NameType) /\ Len(M) = Len(I)
              /\ \A i, j \in 1..Len(I) : I[i] = I[j] => i = j
              /\ \A f \in ImplicitFields(def) : \E i \in 1..Len(I) : I[i] = f
              /\ \A i \in 1..Len(I) : M[i] \notin Used(schema, path) \cup DOMAIN def.oneofs /\ M[i].bars # 0
              /\ \A i, j \in 1..Len(I) : M[i] = M[j] => i = j
  <1> DEFINE def == schema[path]
             F == ImplicitFields(def)
             n == Cardinality(F)
             I == Sorted(F)
             M == ImplicitOneofs(schema, path)
             used == Used(schema, path) \cup DOMAIN def.oneofs
  <1>1. IsFiniteSet(F) /\ F \subseteq NameType
    <2>1. F \in SUBSET DOMAIN def.fields
      BY DEF ImplicitFields
    <2>2. IsFiniteSet(DOMAIN def.fields) /\ DOMAIN def.fields \subseteq NameType
      BY MessageParts
    <2> QED  BY <2>1, <2>2, FS_Subset
  <1>2. n \in Nat
    BY <1>1, FS_CardinalityType
  <1>3. IsFiniteSet(used)
    BY MessageParts, UsedFinite, FS_Union
  <1>4. M = CHOOSE s : Chosen(I, used, n, s)
    BY DEF ImplicitOneofs, Chosen
  <1> HIDE DEF F, n, I, M, used
  <1>5. /\ I \in Seq(F) /\ Len(I) = n
        /\ \A i, j \in DOMAIN I : I[i] = I[j] => i = j
        /\ \A x \in F : \E i \in DOMAIN I : I[i] = x
    BY <1>1, SortedLists DEF I, n
  <1>6. DOMAIN I = 1..n /\ I \in [1..n -> NameType]
    BY <1>1, <1>5
  <1>7. Chosen(I, used, n, M)
    BY <1>2, <1>4, ChosenExists
  <1>8. /\ M \in [1..n -> NameType]
        /\ \A i \in 1..n : M[i] \notin used /\ M[i].bars # 0
        /\ \A i, j \in 1..n : M[i] = M[j] => i = j
    BY <1>2, <1>3, <1>6, <1>7, ChosenFree
  <1>9. M \in Seq(NameType) /\ Len(M) = n
    <2>1. \E m \in Nat : M \in [1..m -> NameType]
      BY <1>2, <1>8
    <2>2. M \in Seq(NameType)
      BY <2>1
    <2>3. DOMAIN M = 1..Len(M) /\ Len(M) \in Nat /\ DOMAIN M = 1..n
      BY <1>8, <2>2
    <2>4. Len(M) = n
      <3> DEFINE l == Len(M)
      <3>1. 1..l = 1..n /\ l \in Nat
        BY <2>3
      <3> HIDE DEF l
      <3>2. l = n
        BY <1>2, <3>1
      <3> QED  BY <3>2 DEF l
    <2> QED  BY <2>2, <2>4
  <1> QED  BY <1>5, <1>6, <1>8, <1>9 DEF F, I, M, used

(* A field has the place of the oneof it is in, or of the one made for it.  *)
LEMMA OneofIndexPlace ==
    ASSUME NEW schema, NEW path, ValidMessage(schema, path),
           NEW f \in DOMAIN schema[path].fields
    PROVE  LET def == schema[path]
               R == RealFirst(def)
               I == Sorted(ImplicitFields(def))
               x == OneofIndex(def, f)
           IN /\ x \in 0..(Len(R) + Len(I))
              /\ \A k \in 1..Len(R) : x = k <=> f \in def.oneofs[R[k]]
              /\ \A k \in 1..Len(I) : x = Len(R) + k <=> f = I[k]
              /\ def.fields[f].optional => x # 0
  <1> DEFINE def == schema[path]
             R == RealFirst(def)
             F == ImplicitFields(def)
             I == Sorted(F)
             x == OneofIndex(def, f)
             Place == CHOOSE i \in DOMAIN R : f \in def.oneofs[R[i]]
             Own == CHOOSE i \in DOMAIN I : I[i] = f
  <1>1. /\ R \in Seq(DOMAIN def.oneofs)
        /\ \A i, j \in 1..Len(R) : R[i] = R[j] => i = j
        /\ \A key \in DOMAIN def.oneofs : \E i \in 1..Len(R) : R[i] = key
    BY MessageParts, RealFirstLists
  <1>2. /\ I \in Seq(F)
        /\ \A i, j \in 1..Len(I) : I[i] = I[j] => i = j
        /\ \A g \in F : \E i \in 1..Len(I) : I[i] = g
    BY ImplicitLists
  <1>3. \A j, k \in DOMAIN def.oneofs : \A g : g \in def.oneofs[j] /\ g \in def.oneofs[k] => j = k
    BY MessageParts
  <1>4. f \in F <=> def.fields[f].optional /\ ~InOneof(def, f)
    BY DEF ImplicitFields
  <1>5. x = IF InOneof(def, f) THEN Place
            ELSE IF f \in F THEN Len(R) + Own ELSE 0
    BY DEF OneofIndex
  <1>6. InOneof(def, f) <=> \E key \in DOMAIN def.oneofs : f \in def.oneofs[key]
    BY DEF InOneof
  <1> HIDE DEF def, R, F, I, x
  <1>7. DOMAIN R = 1..Len(R) /\ Len(R) \in Nat /\ DOMAIN I = 1..Len(I) /\ Len(I) \in Nat
    BY <1>1, <1>2
  <1>8. \A k \in 1..Len(R) : R[k] \in DOMAIN def.oneofs
    BY <1>1, <1>7
  <1>9. \A k \in 1..Len(I) : I[k] \in F
    BY <1>2, <1>7
  <1>10. CASE InOneof(def, f)
    <2>1. x = Place
      BY <1>5, <1>10
    <2>2. PICK key \in DOMAIN def.oneofs : f \in def.oneofs[key]
      BY <1>6, <1>10
    <2>3. PICK i \in 1..Len(R) : R[i] = key
      BY <1>1
    <2>4. x \in 1..Len(R) /\ f \in def.oneofs[R[x]]
      BY <1>7, <2>1, <2>2, <2>3
    <2>5. \A k \in 1..Len(R) : f \in def.oneofs[R[k]] => k = x
      BY <1>1, <1>3, <1>8, <2>4
    <2>6. \A k \in 1..Len(I) : f # I[k]
      BY <1>4, <1>9, <1>10
    <2>7. \A k \in 1..Len(I) : x # Len(R) + k
      BY <1>7, <2>4
    <2> QED  BY <1>7, <2>4, <2>5, <2>6, <2>7 DEF def, R, F, I, x
  <1>11. CASE ~InOneof(def, f) /\ f \in F
    <2>1. x = Len(R) + Own
      BY <1>5, <1>11
    <2>2. Own \in 1..Len(I) /\ I[Own] = f
      BY <1>2, <1>7, <1>11
    <2> HIDE DEF Own
    <2>3. \A k \in 1..Len(I) : f = I[k] => k = Own
      BY <1>2, <2>2
    <2>4. \A k \in 1..Len(I) : x = Len(R) + k <=> k = Own
      BY <1>7, <2>1, <2>2
    <2>5. \A k \in 1..Len(R) : x # k /\ f \notin def.oneofs[R[k]]
      BY <1>6, <1>7, <1>8, <1>11, <2>1, <2>2
    <2>6. x \in 0..(Len(R) + Len(I)) /\ x # 0
      BY <1>7, <2>1, <2>2
    <2> QED  BY <2>2, <2>3, <2>4, <2>5, <2>6 DEF def, R, F, I, x
  <1>12. CASE ~InOneof(def, f) /\ f \notin F
    <2>1. x = 0
      BY <1>5, <1>12
    <2>2. \A k \in 1..Len(I) : x # Len(R) + k /\ f # I[k]
      BY <1>7, <1>9, <1>12, <2>1
    <2>3. \A k \in 1..Len(R) : x # k /\ f \notin def.oneofs[R[k]]
      BY <1>6, <1>7, <1>8, <1>12, <2>1
    <2>4. ~def.fields[f].optional
      BY <1>4, <1>12
    <2> QED  BY <1>7, <2>1, <2>2, <2>3, <2>4 DEF def, R, F, I, x
  <1> QED  BY <1>10, <1>11, <1>12

(* The fields are listed once each, those of one oneof after those of the   *)
(* oneofs before it.                                                        *)
LEMMA FieldOrderLists ==
    ASSUME NEW schema, NEW path, ValidMessage(schema, path)
    PROVE  LET def == schema[path]
               G == FieldOrder(def)
           IN /\ G \in Seq(DOMAIN def.fields)
              /\ \A i, j \in 1..Len(G) : G[i] = G[j] => i = j
              /\ \A f \in DOMAIN def.fields : \E i \in 1..Len(G) : G[i] = f
              /\ \A i, j \in 1..Len(G) : i <= j => OneofIndex(def, G[i]) <= OneofIndex(def, G[j])
  <1> DEFINE def == schema[path]
             N == DOMAIN def.fields
             G == FieldOrder(def)
             x(f) == OneofIndex(def, f)
             order == {pair \in N \X N : Earlier(def, pair[1], pair[2])}
  <1>1. IsFiniteSet(N) /\ N \subseteq NameType
    BY MessageParts
  <1>2. \A f \in N : x(f) \in Nat
    <2> SUFFICES ASSUME NEW f \in N PROVE x(f) \in Nat
      OBVIOUS
    <2> DEFINE most == Len(RealFirst(def)) + Len(Sorted(ImplicitFields(def)))
    <2>1. x(f) \in 0..most
      BY OneofIndexPlace
    <2> QED  BY <2>1
  <1>3. \A f, g \in N : <<f, g>> \in order <=> Earlier(def, f, g)
    OBVIOUS
  <1>4. G = InOrder(N, order)
    BY DEF FieldOrder
  <1>5. \A f, g \in N : Earlier(def, f, g) <=> (x(f) < x(g) \/ (x(f) = x(g) /\ Before(f, g)))
    BY DEF Earlier
  <1> HIDE DEF def, G, x, order, N
  <1>7. \A f \in N : ~Before(f, f)
    BY <1>1, BeforeOrders
  <1>8. \A f, g, h \in N : Before(f, g) /\ Before(g, h) => Before(f, h)
    BY <1>1, BeforeOrders
  <1>9. \A f, g \in N : f = g \/ Before(f, g) \/ Before(g, f)
    BY <1>1, BeforeOrders
  <1>10. StrictOrder(N, order)
    <2>1. \A f \in N : <<f, f>> \notin order
      BY <1>2, <1>3, <1>5, <1>7
    <2>2. ASSUME NEW f \in N, NEW g \in N, NEW h \in N, Earlier(def, f, g), Earlier(def, g, h)
          PROVE  Earlier(def, f, h)
      <3>1. x(f) \in Nat /\ x(g) \in Nat /\ x(h) \in Nat
        BY <1>2
      <3> QED  BY <1>5, <1>8, <2>2, <3>1
    <2>3. ASSUME NEW f \in N, NEW g \in N PROVE f = g \/ Earlier(def, f, g) \/ Earlier(def, g, f)
      <3>1. x(f) \in Nat /\ x(g) \in Nat
        BY <1>2
      <3>2. x(f) < x(g) \/ x(f) = x(g) \/ x(g) < x(f)
        BY <3>1
      <3> QED  BY <1>5, <1>9, <3>2
    <2> QED  BY <1>3, <2>1, <2>2, <2>3 DEF StrictOrder
  <1>11. Listed(N, order, G)
    BY <1>1, <1>4, <1>10, InOrderLists
  <1>12. G \in Seq(N) /\ DOMAIN G = 1..Len(G) /\ Len(G) \in Nat
    BY <1>11 DEF Listed
  <1>13. /\ \A i, j \in 1..Len(G) : i < j => <<G[i], G[j]>> \in order /\ G[i] # G[j]
         /\ \A f \in N : \E i \in 1..Len(G) : G[i] = f
    BY <1>11, <1>12 DEF Listed
  <1>14. \A i, j \in 1..Len(G) : G[i] = G[j] => i = j
    <2>1. \A i, j \in 1..Len(G) : i < j => G[i] # G[j]
      BY <1>13
    <2> QED  BY <1>12, <2>1
  <1>15. \A i \in 1..Len(G) : G[i] \in N
    BY <1>12
  <1>16. ASSUME NEW i \in 1..Len(G), NEW j \in 1..Len(G), i <= j PROVE x(G[i]) <= x(G[j])
    <2>1. x(G[i]) \in Nat /\ x(G[j]) \in Nat
      BY <1>2, <1>15
    <2>2. CASE i = j
      BY <2>1, <2>2
    <2>3. CASE i < j
      <3>1. Earlier(def, G[i], G[j])
        BY <1>3, <1>13, <1>15, <2>3
      <3> QED  BY <1>5, <1>15, <2>1, <3>1
    <2> QED  BY <1>12, <1>16, <2>2, <2>3
  <1> QED  BY <1>12, <1>13, <1>14, <1>16 DEF G, N, def, x

(* Equal entries of a sequence that never falls stand next to each other.   *)
LEMMA EqualsAdjacent ==
    ASSUME NEW n \in Nat, NEW x \in [1..n -> Nat], NEW k, NEW M,
           \A i, j \in 1..n : i <= j => x[i] <= x[j],
           \A i : i \in M <=> i \in 1..n /\ x[i] = k, M # {}
    PROVE  M = Min(M)..Max(M)
  <1>1. M \subseteq Nat /\ \A i \in M : i <= n
    OBVIOUS
  <1>2. PICK a \in M : \A i \in M : a <= i
    BY <1>1, LeastOfNaturals
  <1>3. PICK b \in M : \A i \in M : i <= b
    BY <1>1, GreatestOfNaturals
  <1>4. Min(M) \in M /\ \A i \in M : Min(M) <= i
    BY <1>2 DEF Min
  <1>5. Max(M) \in M /\ \A i \in M : i <= Max(M)
    <2>1. \A i \in M : b >= i
      BY <1>1, <1>3
    <2>2. Max(M) \in M /\ \A i \in M : Max(M) >= i
      BY <2>1 DEF Max
    <2> QED  BY <1>1, <2>2
  <1> DEFINE c == Min(M)
             d == Max(M)
  <1>6. c \in 1..n /\ d \in 1..n /\ x[c] = k /\ x[d] = k
    BY <1>4, <1>5
  <1>7. \A i \in M : i \in c..d
    BY <1>1, <1>4, <1>5
  <1> HIDE DEF c, d
  <1>8. ASSUME NEW i \in c..d PROVE i \in M
    <2>1. i \in 1..n /\ c <= i /\ i <= d
      BY <1>6
    <2>2. x[c] <= x[i] /\ x[i] <= x[d] /\ x[i] \in Nat /\ x[c] \in Nat
      BY <1>6, <2>1
    <2>3. x[i] = k
      BY <1>6, <2>2
    <2> QED  BY <2>1, <2>3
  <1> QED  BY <1>7, <1>8 DEF c, d

(* Oneofs, map entries, fields and nested types have different names.       *)
LEMMA NamesApart ==
    ASSUME NEW schema, NEW path, ValidMessage(schema, path)
    PROVE  LET msg == Descriptor(schema, path) IN
           Cardinality(ToSet(msg.oneofs) \cup msg.entries \cup Used(schema, path))
             = Len(msg.oneofs) + Cardinality(msg.entries) + Cardinality(Used(schema, path))
  <1> DEFINE def == schema[path]
             R == RealFirst(def)
             M == ImplicitOneofs(schema, path)
             O == R \o M
             S == ToSet(O)
             E == {EntryName(f) : f \in Maps(def)}
             U == Used(schema, path)
  <1>1. Descriptor(schema, path).oneofs = O /\ Descriptor(schema, path).entries = E
    BY DEF Descriptor
  <1>2. /\ R \in Seq(DOMAIN def.oneofs) /\ M \in Seq(NameType)
        /\ \A i, j \in 1..Len(R) : R[i] = R[j] => i = j
        /\ \A i, j \in 1..Len(M) : M[i] = M[j] => i = j
        /\ \A i \in 1..Len(M) : M[i] \notin U /\ M[i] \notin DOMAIN def.oneofs /\ M[i].bars # 0
        /\ DOMAIN def.oneofs \subseteq NameType
        /\ \A key \in DOMAIN def.oneofs : key \notin U
    <2>1. R \in Seq(DOMAIN def.oneofs) /\ \A i, j \in 1..Len(R) : R[i] = R[j] => i = j
      BY MessageParts, RealFirstLists
    <2>2. /\ M \in Seq(NameType)
          /\ \A i, j \in 1..Len(M) : M[i] = M[j] => i = j
          /\ \A i \in 1..Len(M) : M[i] \notin U /\ M[i] \notin DOMAIN def.oneofs /\ M[i].bars # 0
      BY ImplicitLists
    <2> QED  BY <2>1, <2>2, MessageParts
  <1>3. /\ IsFiniteSet(E)
        /\ \A name \in E : name \notin U /\ name \notin DOMAIN def.oneofs /\ name.bars = 0
    <2>1. IsFiniteSet(Maps(def))
      <3>1. Maps(def) \in SUBSET DOMAIN def.fields
        BY DEF Maps
      <3> QED  BY <3>1, MessageParts, FS_Subset
    <2> DEFINE e == [f \in Maps(def) |-> EntryName(f)]
    <2>2. e \in Surjection(Maps(def), E)
      BY DEF Surjection
    <2>3. \A f \in Maps(def) : EntryName(f) \notin U /\ EntryName(f) \notin DOMAIN def.oneofs
      BY DEF ValidMessage, EntriesValid
    <2>4. \A f : EntryName(f).bars = 0
      BY DEF EntryName
    <2>5. IsFiniteSet(E)
      <3> HIDE DEF e, E
      <3> QED  BY <2>1, <2>2, FS_Surjection
    <2> QED  BY <2>3, <2>4, <2>5
  <1>4. IsFiniteSet(U)
    BY UsedFinite
  <1> HIDE DEF def, R, M, E, U
  <1>5. Len(R) \in Nat /\ Len(M) \in Nat /\ DOMAIN R = 1..Len(R) /\ DOMAIN M = 1..Len(M)
    BY <1>2
  <1>6. O \in Seq(NameType) /\ Len(O) = Len(R) + Len(M)
    <2>1. R \in Seq(NameType)
      BY <1>2
    <2> QED  BY <1>2, <2>1
  <1>7. /\ \A i \in 1..Len(R) : O[i] = R[i] /\ R[i] \in DOMAIN def.oneofs
        /\ \A i \in (Len(R) + 1)..Len(O) : i - Len(R) \in 1..Len(M) /\ O[i] = M[i - Len(R)]
    <2>1. ASSUME NEW i \in 1..Len(R) PROVE O[i] = R[i] /\ R[i] \in DOMAIN def.oneofs
      BY <1>2, <1>5
    <2>2. ASSUME NEW i \in (Len(R) + 1)..Len(O) PROVE i - Len(R) \in 1..Len(M) /\ O[i] = M[i - Len(R)]
      <3>1. i - Len(R) \in 1..Len(M) /\ i > Len(R) /\ i \in 1..(Len(R) + Len(M))
        BY <1>5, <1>6
      <3> QED  BY <1>2, <1>5, <3>1
    <2> QED  BY <2>1, <2>2
  <1>8. DOMAIN O = 1..Len(O) /\ Len(O) \in Nat
    BY <1>6
  <1>9. \A i \in 1..Len(O) : i \in 1..Len(R) \/ i \in (Len(R) + 1)..Len(O)
    BY <1>5, <1>6
  <1> HIDE DEF O
  <1>10. \A i \in 1..Len(O) : (O[i] \in DOMAIN def.oneofs \/ O[i].bars # 0) /\ O[i] \notin U
    <2> SUFFICES ASSUME NEW i \in 1..Len(O)
                 PROVE  (O[i] \in DOMAIN def.oneofs \/ O[i].bars # 0) /\ O[i] \notin U
      OBVIOUS
    <2>1. CASE i \in 1..Len(R)
      BY <1>2, <1>7, <2>1
    <2>2. CASE i \in (Len(R) + 1)..Len(O)
      <3>1. i - Len(R) \in 1..Len(M) /\ O[i] = M[i - Len(R)]
        BY <1>7, <2>2
      <3> DEFINE k == i - Len(R)
      <3>2. k \in 1..Len(M) /\ O[i] = M[k]
        BY <3>1
      <3> HIDE DEF k
      <3> QED  BY <1>2, <3>2
    <2> QED  BY <1>9, <2>1, <2>2
  <1>11. ASSUME NEW i \in 1..Len(O), NEW j \in 1..Len(O), O[i] = O[j] PROVE i = j
    <2>1. CASE i \in 1..Len(R)
      <3>1. j \in 1..Len(R)
        BY <1>2, <1>7, <1>9, <1>11, <2>1
      <3> QED  BY <1>2, <1>7, <1>11, <2>1, <3>1
    <2>2. CASE i \in (Len(R) + 1)..Len(O)
      <3>1. j \in (Len(R) + 1)..Len(O)
        BY <1>2, <1>7, <1>9, <1>11, <2>2
      <3>2. i - Len(R) = j - Len(R)
        BY <1>2, <1>7, <1>11, <2>2, <3>1
      <3> QED  BY <1>5, <1>6, <2>2, <3>1, <3>2
    <2> QED  BY <1>9, <2>1, <2>2
  <1>12. IsFiniteSet(S) /\ Cardinality(S) = Len(O)
    <2> DEFINE D == 1..Len(O)
    <2>1. IsFiniteSet(D) /\ Cardinality(D) = Len(O)
      <3>1. CASE Len(O) = 0
        BY <3>1, FS_Interval, FS_EmptySet
      <3>2. CASE Len(O) > 0
        <4> DEFINE l == Len(O)
        <4>1. 1 \in Int /\ l \in Int /\ ~(1 > l) /\ l - 1 + 1 = l
          BY <1>8, <3>2
        <4> HIDE DEF l
        <4>2. IsFiniteSet(1..l) /\ Cardinality(1..l) = l
          BY <4>1, FS_Interval
        <4> QED  BY <4>2 DEF l
      <3> QED  BY <1>8, <3>1, <3>2
    <2>2. O \in [D -> S]
      BY <1>6, <1>8 DEF ToSet
    <2>3. O \in Surjection(D, S)
      BY <1>8, <2>2 DEF Surjection, ToSet
    <2>4. O \in Injection(D, S)
      BY <1>11, <2>2 DEF Injection, IsInjective
    <2> HIDE DEF D, S
    <2> QED  BY <2>1, <2>3, <2>4, FS_Surjection
  <1>13. \A name \in S : (name \in DOMAIN def.oneofs \/ name.bars # 0) /\ name \notin U
    BY <1>8, <1>10 DEF ToSet
  <1> HIDE DEF S
  <1>14. S \cap E = {} /\ (S \cup E) \cap U = {}
    BY <1>3, <1>13
  <1>15. IsFiniteSet(S \cup E) /\ Cardinality(S \cup E) = Cardinality(S) + Cardinality(E)
    <2>1. Cardinality(S \cap E) = 0
      BY <1>14, FS_EmptySet
    <2>2. Cardinality(S) \in Nat /\ Cardinality(E) \in Nat
      BY <1>3, <1>12, FS_CardinalityType
    <2>3. IsFiniteSet(S \cup E) /\ Cardinality(S \cup E) = Cardinality(S) + Cardinality(E) - Cardinality(S \cap E)
      BY <1>3, <1>12, FS_Union
    <2> QED  BY <2>1, <2>2, <2>3
  <1>16. Cardinality((S \cup E) \cup U) = Cardinality(S \cup E) + Cardinality(U)
    <2>1. Cardinality((S \cup E) \cap U) = 0
      BY <1>14, FS_EmptySet
    <2>2. Cardinality(S \cup E) \in Nat /\ Cardinality(U) \in Nat
      BY <1>4, <1>15, FS_CardinalityType
    <2>3. Cardinality((S \cup E) \cup U) = Cardinality(S \cup E) + Cardinality(U) - Cardinality((S \cup E) \cap U)
      BY <1>4, <1>15, FS_Union
    <2> QED  BY <2>1, <2>2, <2>3
  <1>17. Cardinality(S \cup E \cup U) = Len(O) + Cardinality(E) + Cardinality(U)
    BY <1>12, <1>15, <1>16
  <1> QED  BY <1>1, <1>17 DEF S, O, E, U

(* A message is laid out as the descriptor format wants it.                 *)
LEMMA MessageLaidOut ==
    ASSUME NEW schema, NEW path, ValidMessage(schema, path)
    PROVE  LaidOut(schema, path, Descriptor(schema, path))
  <1> DEFINE def == schema[path]
             N == DOMAIN def.fields
             R == RealFirst(def)
             I == Sorted(ImplicitFields(def))
             M == ImplicitOneofs(schema, path)
             G == FieldOrder(def)
             x(f) == OneofIndex(def, f)
             opt(f) == def.fields[f].optional
             msg == Descriptor(schema, path)
             Members(k) == {i \in DOMAIN msg.fields : msg.fields[i].oneof = k}
             Optional(k) == \E i \in Members(k) : msg.fields[i].optional
             In(k) == {f \in N : x(f) = k}
  <1>1. /\ R \in Seq(DOMAIN def.oneofs)
        /\ \A i, j \in 1..Len(R) : i <= j /\ Synthetic(def, R[i]) => Synthetic(def, R[j])
    BY MessageParts, RealFirstLists
  <1>2. /\ \A key \in DOMAIN def.oneofs : def.oneofs[key] \subseteq N /\ def.oneofs[key] # {}
        /\ \A key \in DOMAIN def.oneofs : Synthetic(def, key) => Cardinality(def.oneofs[key]) = 1
        /\ IsFiniteSet(N) /\ DOMAIN def.oneofs \subseteq NameType
    BY MessageParts
  <1>3. /\ I \in Seq(ImplicitFields(def)) /\ M \in Seq(NameType) /\ Len(M) = Len(I)
    BY ImplicitLists
  <1>4. /\ G \in Seq(N)
        /\ \A i, j \in 1..Len(G) : G[i] = G[j] => i = j
        /\ \A f \in N : \E i \in 1..Len(G) : G[i] = f
        /\ \A i, j \in 1..Len(G) : i <= j => x(G[i]) <= x(G[j])
    BY FieldOrderLists
  <1>5. ASSUME NEW f \in N
        PROVE  /\ x(f) \in 0..(Len(R) + Len(I))
               /\ \A k \in 1..Len(R) : x(f) = k <=> f \in def.oneofs[R[k]]
               /\ \A k \in 1..Len(I) : x(f) = Len(R) + k <=> f = I[k]
               /\ opt(f) => x(f) # 0
    BY OneofIndexPlace
  <1>6. \A key \in DOMAIN def.oneofs : Synthetic(def, key) <=> \E f \in def.oneofs[key] \cap N : opt(f)
    BY DEF Synthetic
  <1>7. \A f \in ImplicitFields(def) : f \in N /\ opt(f)
    BY DEF ImplicitFields
  <1>8. /\ msg.oneofs = R \o M
        /\ DOMAIN msg.fields = DOMAIN G
        /\ \A i \in DOMAIN G : msg.fields[i].oneof = x(G[i]) /\ msg.fields[i].optional = opt(G[i])
    BY DEF Descriptor
  <1> HIDE DEF R, I, M, G, x, opt, msg, N
  <1>9. /\ Len(R) \in Nat /\ Len(I) \in Nat /\ Len(G) \in Nat
        /\ DOMAIN R = 1..Len(R) /\ DOMAIN I = 1..Len(I) /\ DOMAIN G = 1..Len(G)
    BY <1>1, <1>3, <1>4
  <1>10. DOMAIN msg.oneofs = 1..(Len(R) + Len(I)) /\ Len(msg.oneofs) = Len(R) + Len(I)
    <2>1. R \in Seq(NameType)
      BY <1>1, <1>2
    <2>2. R \o M \in Seq(NameType) /\ Len(R \o M) = Len(R) + Len(M)
      BY <1>3, <2>1
    <2>3. DOMAIN (R \o M) = 1..Len(R \o M)
      BY <2>2
    <2> QED  BY <1>3, <1>8, <2>2, <2>3
  <1>11. \A k : Members(k) = {i \in 1..Len(G) : x(G[i]) = k}
    BY <1>8, <1>9
  <1>12. \A i \in 1..Len(G) : G[i] \in N
    BY <1>4, <1>9
  <1>13. \A k : Optional(k) <=> \E f \in In(k) : opt(f)
    <2> SUFFICES ASSUME NEW k PROVE Optional(k) <=> \E f \in In(k) : opt(f)
      OBVIOUS
    <2>1. ASSUME Optional(k) PROVE \E f \in In(k) : opt(f)
      <3>1. PICK i \in 1..Len(G) : x(G[i]) = k /\ msg.fields[i].optional
        BY <1>11, <2>1
      <3>2. opt(G[i])
        BY <1>8, <1>9, <3>1
      <3> QED  BY <1>12, <3>1, <3>2
    <2>2. ASSUME NEW f \in In(k), opt(f) PROVE Optional(k)
      <3>1. PICK i \in 1..Len(G) : G[i] = f
        BY <1>4
      <3>2. i \in Members(k)
        BY <1>11, <3>1
      <3>3. msg.fields[i].optional
        BY <1>8, <1>9, <2>2, <3>1
      <3> QED  BY <3>2, <3>3
    <2> QED  BY <2>1, <2>2
  <1>14. ASSUME NEW k PROVE In(k) # {} => Members(k) # {}
    <2> SUFFICES ASSUME NEW f \in In(k) PROVE Members(k) # {}
      OBVIOUS
    <2>1. PICK i \in 1..Len(G) : G[i] = f
      BY <1>4
    <2> QED  BY <1>11, <2>1
  <1>15. ASSUME NEW k, IsFiniteSet(In(k)), Cardinality(In(k)) = 1 PROVE Cardinality(Members(k)) = 1
    <2>0. \A g : g \in In(k) <=> g \in N /\ x(g) = k
      OBVIOUS
    <2> HIDE DEF In
    <2>1. PICK f : In(k) = {f}
      BY <1>15, FS_Singleton
    <2>2. PICK i \in 1..Len(G) : G[i] = f
      BY <1>4, <2>0, <2>1
    <2>3. ASSUME NEW j \in Members(k) PROVE j = i
      <3>1. j \in 1..Len(G) /\ x(G[j]) = k
        BY <1>11
      <3>2. G[j] = G[i]
        BY <1>12, <2>0, <2>1, <2>2, <3>1
      <3> QED  BY <1>4, <3>1, <3>2
    <2>4. i \in Members(k)
      BY <1>11, <2>0, <2>1, <2>2
    <2>5. Members(k) = {i}
      BY <2>3, <2>4
    <2> QED  BY <2>5, FS_Singleton
  <1>16. ASSUME NEW k \in 1..Len(R)
         PROVE  /\ R[k] \in DOMAIN def.oneofs /\ In(k) = def.oneofs[R[k]]
                /\ Optional(k) <=> Synthetic(def, R[k])
    <2>1. R[k] \in DOMAIN def.oneofs
      BY <1>1, <1>9
    <2>2. In(k) = def.oneofs[R[k]]
      BY <1>2, <1>5, <2>1
    <2> QED  BY <1>6, <1>13, <2>1, <2>2
  <1>17. ASSUME NEW k \in 1..Len(I)
         PROVE  In(Len(R) + k) = {I[k]} /\ Optional(Len(R) + k)
    <2>1. I[k] \in N /\ opt(I[k])
      BY <1>3, <1>7, <1>9
    <2>2. In(Len(R) + k) = {I[k]}
      BY <1>5, <2>1
    <2> QED  BY <1>13, <2>1, <2>2
  <1>18. \A k \in 1..(Len(R) + Len(I)) :
            k \in 1..Len(R) \/ (k - Len(R) \in 1..Len(I) /\ k = Len(R) + (k - Len(R)))
    BY <1>9
  <1> HIDE DEF Optional, Members
  <1>19. ASSUME NEW k \in 1..(Len(R) + Len(I))
         PROVE  In(k) # {} /\ IsFiniteSet(In(k)) /\ (Optional(k) => Cardinality(In(k)) = 1)
    <2>1. IsFiniteSet(In(k))
      BY <1>2, FS_Subset
    <2>2. CASE k \in 1..Len(R)
      BY <1>2, <1>16, <2>1, <2>2
    <2>3. CASE k - Len(R) \in 1..Len(I) /\ k = Len(R) + (k - Len(R))
      <3>1. In(k) = {I[k - Len(R)]}
        BY <1>17, <2>3
      <3> HIDE DEF In
      <3> QED  BY <2>1, <3>1, FS_Singleton
    <2> QED  BY <1>18, <2>2, <2>3
  <1>20. ASSUME NEW k \in 1..(Len(R) + Len(I)), Optional(k), NEW j \in k..(Len(R) + Len(I))
         PROVE  Optional(j)
    <2>1. j \in 1..(Len(R) + Len(I)) /\ k <= j /\ k \in Nat /\ j \in Nat
      BY <1>9
    <2>2. CASE j \in 1..Len(R)
      <3>1. k \in 1..Len(R)
        BY <1>9, <2>1, <2>2
      <3> QED  BY <1>1, <1>16, <1>20, <2>1, <2>2, <3>1
    <2>3. CASE j - Len(R) \in 1..Len(I) /\ j = Len(R) + (j - Len(R))
      BY <1>17, <2>3
    <2> QED  BY <1>18, <2>1, <2>2, <2>3
  <1>21. ASSUME NEW k \in 1..(Len(R) + Len(I)) PROVE Members(k) = Min(Members(k))..Max(Members(k))
    <2> DEFINE y == [i \in 1..Len(G) |-> x(G[i])]
    <2>1. y \in [1..Len(G) -> Nat]
      <3>1. \A f \in N : x(f) \in Nat
        BY <1>5, <1>9
      <3> QED  BY <1>12, <3>1
    <2>2. \A i, j \in 1..Len(G) : i <= j => y[i] <= y[j]
      BY <1>4
    <2>3. Members(k) = {i \in 1..Len(G) : y[i] = k}
      BY <1>11
    <2>4. Members(k) # {}
      BY <1>14, <1>19
    <2> DEFINE n == Len(G)
               S == Members(k)
    <2>5. n \in Nat /\ y \in [1..n -> Nat] /\ \A i, j \in 1..n : i <= j => y[i] <= y[j]
      BY <1>9, <2>1, <2>2
    <2>6. (\A i : i \in S <=> i \in 1..n /\ y[i] = k) /\ S # {}
      BY <2>3, <2>4
    <2> HIDE DEF y, n, S
    <2>7. S = Min(S)..Max(S)
      BY <2>5, <2>6, EqualsAdjacent
    <2> QED  BY <2>7 DEF S
  <1>22. \A i \in DOMAIN msg.fields : msg.fields[i].optional => msg.fields[i].oneof # 0
    BY <1>5, <1>8, <1>9, <1>12
  <1>23. \A k \in DOMAIN msg.oneofs :
            /\ Members(k) # {} /\ Members(k) = Min(Members(k))..Max(Members(k))
            /\ Optional(k) => Cardinality(Members(k)) = 1 /\ \A j \in k..Len(msg.oneofs) : Optional(j)
    BY <1>10, <1>14, <1>15, <1>19, <1>20, <1>21
  <1>24. Cardinality(ToSet(msg.oneofs) \cup msg.entries \cup Used(schema, path))
           = Len(msg.oneofs) + Cardinality(msg.entries) + Cardinality(Used(schema, path))
    BY NamesApart, Zenon DEF msg
  <1>25. LaidOut(schema, path, msg)
    BY <1>22, <1>23, <1>24, Zenon DEF LaidOut, Members, Optional
  <1> QED  BY <1>25 DEF msg

(***************************************************************************)
(* Types                                                                   *)
(***************************************************************************)
(* What a reference resolves to is what the innermost scope gives it.       *)
LEMMA ResolveVisible ==
    ASSUME NEW schema, NEW scope \in Seq(NameType), NEW ref \in RefType, ref.path # << >>,
           Resolve(schema, ref, scope) # None
    PROVE  LET type == Resolve(schema, ref, scope) IN
           type \in Symbols(schema) /\ Visible(schema, ref, scope, type)
  <1> DEFINE found == Tried(ref, scope) \cap Symbols(schema)
             type == Resolve(schema, ref, scope)
             Named(n) == Prefix(scope, n) \o ref.path
             known == {n \in 0..Len(scope) : Named(n) \in Symbols(schema)}
  <1>1. found # {} /\ type = InnermostFirst(found)
    BY DEF Resolve
  <1>2. ref.path \in Seq(NameType) /\ Len(scope) \in Nat
    BY DEF RefType
  <1>3. CASE ref.root
    <2>1. Tried(ref, scope) = {ref.path}
      BY <1>3 DEF Tried
    <2>2. found = {ref.path}
      BY <1>1, <2>1
    <2>3. Len(ref.path) \in Nat
      BY <1>2
    <2>4. type = ref.path
      BY <1>1, <2>2, <2>3 DEF InnermostFirst
    <2>5. type \in Symbols(schema)
      BY <2>2, <2>4
    <2> QED  BY <1>3, <2>4, <2>5 DEF Visible
  <1>4. CASE ~ref.root
    <2>1. Tried(ref, scope) = {Named(n) : n \in 0..Len(scope)}
      BY <1>4 DEF Tried
    <2>2. \A n \in 0..Len(scope) : Len(Named(n)) = n + Len(ref.path)
      <3> SUFFICES ASSUME NEW n \in 0..Len(scope) PROVE Len(Named(n)) = n + Len(ref.path)
        OBVIOUS
      <3>1. Prefix(scope, n) \in Seq(NameType) /\ Len(Prefix(scope, n)) = n
        BY <1>2 DEF Prefix
      <3> DEFINE a == Prefix(scope, n)
                 b == ref.path
      <3>2. a \in Seq(NameType) /\ b \in Seq(NameType) /\ Len(a) = n
        BY <1>2, <3>1
      <3> HIDE DEF a, b
      <3>3. Len(a \o b) = n + Len(b)
        BY <3>2
      <3> QED  BY <3>3 DEF a, b
    <2> HIDE DEF Named
    <2>3. known # {} /\ known \subseteq Nat /\ \A n \in known : n <= Len(scope)
      BY <1>1, <1>2, <2>1
    <2>4. PICK m \in known : \A n \in known : n <= m
      <3> HIDE DEF known
      <3> QED  BY <1>2, <2>3, GreatestOfNaturals
    <2>5. \A q \in found : Len(Named(m)) >= Len(q)
      <3> SUFFICES ASSUME NEW q \in found PROVE Len(Named(m)) >= Len(q)
        OBVIOUS
      <3>1. PICK n \in known : q = Named(n)
        BY <2>1
      <3>2. Len(ref.path) \in Nat
        BY <1>2
      <3> QED  BY <1>2, <2>2, <2>4, <3>1, <3>2
    <2>6. Named(m) \in found
      BY <2>1
    <2>7. type \in found /\ \A q \in found : Len(type) >= Len(q)
      <3> HIDE DEF found, type
      <3> QED  BY <1>1, <2>5, <2>6 DEF InnermostFirst
    <2>8. PICK n \in known : type = Named(n)
      BY <2>1, <2>7
    <2>9. ASSUME NEW inner \in (n + 1)..Len(scope) PROVE Named(inner) \notin Symbols(schema)
      <3> SUFFICES ASSUME Named(inner) \in Symbols(schema) PROVE FALSE
        OBVIOUS
      <3>1. inner \in 0..Len(scope) /\ inner > n /\ n \in 0..Len(scope)
        BY <1>2
      <3>2. Len(Named(inner)) = inner + Len(ref.path) /\ Len(Named(n)) = n + Len(ref.path)
        BY <2>2, <3>1
      <3>3. Named(inner) \in found
        BY <2>1, <3>1
      <3>4. Len(Named(n)) >= Len(Named(inner))
        BY <2>7, <2>8, <3>3
      <3>5. Len(ref.path) \in Nat
        BY <1>2
      <3> HIDE DEF Named
      <3> QED  BY <1>2, <3>1, <3>2, <3>4, <3>5
    <2>10. type \in Symbols(schema) /\ n \in 0..Len(scope)
      BY <2>7
    <2> HIDE DEF type
    <2>11. Visible(schema, ref, scope, type)
      BY <1>4, <2>8, <2>9, <2>10, Zenon DEF Visible, Named
    <2> QED  BY <2>10, <2>11 DEF type
  <1> QED  BY <1>3, <1>4

LEMMA RefsOf ==
    ASSUME NEW def
    PROVE  /\ def.kind = "message" => Refs(def) = {def.fields[f].ref : f \in DOMAIN def.fields}
           /\ def.kind = "service" =>
                Refs(def) = UNION {{def.methods[m].in, def.methods[m].out} : m \in DOMAIN def.methods}
  BY DEF Refs

(* What a document must be for descriptors to be made of it.                *)
Described(schema) ==
    /\ \A p \in Paths(schema, {"message"}) :
         OneofsValid(schema, p) /\ FieldsValid(schema, p) /\ EntriesValid(schema, p)
    /\ \A p \in Paths(schema, {"service"}) : ServiceValid(schema, p)
    /\ Descriptors(schema) = [messages |-> [p \in Paths(schema, {"message"}) |-> Descriptor(schema, p)],
                              imports |-> [g \in Packages(schema) |-> Imports(schema, g)]]

LEMMA DescribedIfBuilt ==
    ASSUME NEW schema, Descriptors(schema) # None
    PROVE  Described(schema)
  BY DEF Descriptors, Described

LEMMA TypesHold ==
    ASSUME NEW schema, Document(schema), Descriptors(schema) # None
    PROVE  TypesResolved(schema, Descriptors(schema))
  <1> DEFINE built == Descriptors(schema)
  <1>1. Described(schema)
    BY DescribedIfBuilt
  <1> SUFFICES ASSUME NEW p \in Paths(schema, {"message", "service"}),
                      NEW ref \in Refs(schema[p]), ref.path # << >>
               PROVE  \E type \in Symbols(schema) :
                        /\ Visible(schema, ref, p, type)
                        /\ Package(schema, type) \in {Package(schema, p)} \cup built.imports[Package(schema, p)]
                        /\ p \in DOMAIN built.messages =>
                            \E i \in DOMAIN built.messages[p].fields :
                                LET field == built.messages[p].fields[i] IN
                                schema[p].fields[field.name].ref = ref /\ field.type = type
    BY DEF TypesResolved
  <1> DEFINE def == schema[p]
             type == Resolve(schema, ref, p)
             package == Package(schema, p)
  <1>2. p \in DOMAIN schema /\ p \in Seq(NameType) /\ def.kind \in {"message", "service"}
    BY DEF Paths, Document
  <1>3. p \in Paths(schema, {"message"}) <=> def.kind = "message"
    BY <1>2 DEF Paths
  <1>4. DOMAIN built.messages = Paths(schema, {"message"})
    BY <1>1 DEF Described
  <1>5. ref \in RefType /\ type # None
    <2>1. CASE def.kind = "message"
      <3>1. PICK f \in DOMAIN def.fields : ref = def.fields[f].ref
        BY <2>1, RefsOf
      <3>2. FieldsValid(schema, p) /\ ValidMessage(schema, p)
        BY <1>1, <1>3, <2>1 DEF Described, ValidMessage
      <3>3. def.fields[f] \in FieldType
        BY <3>2, MessageParts
      <3>4. Resolve(schema, def.fields[f].ref, p) # None
        BY <3>2 DEF FieldsValid
      <3> QED  BY <3>1, <3>3, <3>4 DEF FieldType
    <2>2. CASE def.kind = "service"
      <3>1. PICK m \in DOMAIN def.methods : ref \in {def.methods[m].in, def.methods[m].out}
        BY <2>2, RefsOf
      <3>2. ServiceValid(schema, p)
        BY <1>1, <1>2, <2>2 DEF Described, Paths
      <3>3. type # None
        BY <3>2 DEF ServiceValid
      <3>4. def.methods \in [DOMAIN def.methods -> [in : RefType, out : RefType]]
        BY <1>2, <2>2 DEF Document
      <3> QED  BY <3>1, <3>3, <3>4
    <2> QED  BY <1>2, <2>1, <2>2
  <1>6. type \in Symbols(schema) /\ Visible(schema, ref, p, type)
    BY <1>2, <1>5, ResolveVisible
  <1>7. type # << >>
    BY <1>6 DEF Symbols, Paths, Document
  <1>8. built.imports[package] = Imports(schema, package)
    <2>1. package \in Packages(schema)
      BY <1>2 DEF Packages, Paths
    <2> QED  BY <1>1, <2>1 DEF Described
  <1>9. Package(schema, type) \in {package} \cup Imports(schema, package)
    <2> DEFINE users == {q \in Paths(schema, {"message", "service"}) : Package(schema, q) = package}
               Sources(q) == {Resolve(schema, r, q) : r \in Refs(schema[q])} \ {<< >>}
               types == UNION {Sources(q) : q \in users}
    <2>1. type \in Sources(p)
      BY <1>7
    <2>2. p \in users
      OBVIOUS
    <2> HIDE DEF users, Sources
    <2>3. type \in types
      BY <2>1, <2>2
    <2>4. Imports(schema, package) = {Package(schema, t) : t \in types} \ {package}
      BY DEF Imports, users, Sources
    <2> HIDE DEF types, type, package
    <2> QED  BY <2>3, <2>4
  <1>10. ASSUME p \in DOMAIN built.messages
         PROVE  \E i \in DOMAIN built.messages[p].fields :
                    LET field == built.messages[p].fields[i] IN
                    def.fields[field.name].ref = ref /\ field.type = type
    <2>1. def.kind = "message" /\ ValidMessage(schema, p)
      BY <1>1, <1>3, <1>4, <1>10 DEF Described, ValidMessage
    <2>2. PICK f \in DOMAIN def.fields : ref = def.fields[f].ref
      BY <2>1, RefsOf
    <2> DEFINE G == FieldOrder(def)
    <2>3. G \in Seq(DOMAIN def.fields) /\ \E i \in 1..Len(G) : G[i] = f
      BY <2>1, FieldOrderLists
    <2>4. PICK i \in DOMAIN G : G[i] = f
      <3> HIDE DEF G
      <3> QED  BY <2>3
    <2>5. built.messages[p] = Descriptor(schema, p)
      BY <1>1, <1>4, <1>10 DEF Described
    <2>6. /\ i \in DOMAIN Descriptor(schema, p).fields
          /\ Descriptor(schema, p).fields[i].name = f
          /\ Descriptor(schema, p).fields[i].type = Resolve(schema, def.fields[f].ref, p)
      BY <2>4 DEF Descriptor
    <2> HIDE DEF built, def
    <2> QED  BY <2>2, <2>5, <2>6
  <1> HIDE DEF type, built
  <1> QED  BY <1>6, <1>8, <1>9, <1>10

(* Whatever document Build takes, the descriptors say what it says.         *)
LEMMA BuildsSound ==
    ASSUME NEW schema, Document(schema), Builds(schema)
    PROVE  LET built == Descriptors(schema) IN
           /\ built # None /\ Accepted(schema, built)
           /\ TypesResolved(schema, built)
           /\ OneofsLaidOut(schema, built)
  <1> DEFINE built == Descriptors(schema)
  <1>1. built # None /\ Accepted(schema, built)
    BY DEF Builds
  <1>2. TypesResolved(schema, built)
    BY <1>1, TypesHold
  <1>3. Described(schema)
    BY <1>1, DescribedIfBuilt
  <1>4. DOMAIN built.messages = Paths(schema, {"message"})
    BY <1>3 DEF Described
  <1>5. \A p \in Paths(schema, {"message"}) : ValidMessage(schema, p) /\ built.messages[p] = Descriptor(schema, p)
    BY <1>3 DEF Described, ValidMessage
  <1> HIDE DEF built
  <1>6. OneofsLaidOut(schema, built)
    BY <1>4, <1>5, MessageLaidOut, Zenon DEF OneofsLaidOut
  <1> QED  BY <1>1, <1>2, <1>6 DEF built

(***************************************************************************)
(* Whatever names a schema file, before or after a power loss, checked that *)
(* the schema builds; no step changes what stands behind a digest.         *)
(***************************************************************************)
StoredInv ==
    /\ \A d \in Payloads : Document(schemas[d])
    /\ \A d \in Payloads : d \in onDisk[d] => Builds(schemas[d])

LEMMA StoredKeeps == ASSUME CacheInv, StoredInv, [Next]_vars PROVE StoredInv'
  <1>1. UNCHANGED schemas
    <2>1. \A p \in Procs : Run(p) => UNCHANGED schemas
      BY DEF Run, StartFetch, StartIngest, StartIngestDefault, StartDecode, Start, Become
    <2>2. \A p \in Procs : Step(p) => UNCHANGED schemas
      BY DEF Step, GetVersion, GetManifest, FetchFails, GetSchema, GetSchemaTransient, LoadFallback,
             SaveSchema, SyncSchema, SaveMeta, SyncMeta, SaveFails, FetchExits, OpenMetadata, LoadOpened,
             OpenFails, RecordBinding, CaptureEnds, CheckBinding, DecodeExits, RefuseUnloaded,
             NameFile, SyncDir, Go, Exit, Become
    <2> QED  BY <2>1, <2>2 DEF Next, CacheNext, Release, Republish, RunServer, Serves, PowerLoss,
                               CacheLosesPower, vars, cacheVars
  <1>2. ASSUME NEW d \in Payloads, d \in onDisk'[d], d \notin onDisk[d] PROVE Builds(schemas[d])
    <2>1. onDisk \in [Names -> SUBSET (Payloads \cup {None, Torn})] /\ d \in Names
      BY DEF CacheInv, CacheTypeOK, Names
    <2>2. onDisk' # onDisk
      BY <1>2
    <2>3. ~PowerLoss
      BY <1>2, <2>1 DEF PowerLoss, CacheLosesPower
    <2>4. PICK p \in Procs : Step(p) \/ Run(p)
      BY <2>2, <2>3 DEF Next, CacheNext, Release, Republish, RunServer, Serves, vars, cacheVars
    <2>5. ~Run(p)
      BY <2>2 DEF Run, StartFetch, StartIngest, StartIngestDefault, StartDecode, Start
    <2>6. ~(SyncSchema(p) \/ SyncMeta(p))
      BY <1>2, <2>1 DEF SyncSchema, SyncMeta, SyncDir
    <2>7. SaveSchema(p) \/ SaveMeta(p)
      BY <2>2, <2>4, <2>5, <2>6
         DEF Step, GetVersion, GetManifest, FetchFails, GetSchema, GetSchemaTransient, LoadFallback,
             SaveFails, FetchExits, OpenMetadata, LoadOpened,
             OpenFails, RecordBinding, CaptureEnds, CheckBinding, DecodeExits, others
    <2>8. PICK name : onDisk' = [onDisk EXCEPT ![name] = @ \cup {proc[p].sha}]
      BY <2>7 DEF SaveSchema, SaveMeta, NameFile, Written
    <2>9. d = proc[p].sha
      BY <1>2, <2>1, <2>8
    <2>10. Builds(schemas[proc[p].sha])
      BY <2>7, Typed DEF SaveSchema, SaveMeta, NameFile, At, Sourced, Saving
    <2> QED  BY <2>9, <2>10
  <1> QED  BY <1>1, <1>2 DEF StoredInv

(* Every schema in the cache has descriptors that protobuf accepts and that *)
(* say what the document says, for every document (registry.go:53): types   *)
(* resolved from the innermost scope and imported, oneofs in the order of   *)
(* the descriptor format, names apart (message.go:31, 115).                 *)
THEOREM RegistrySafe == Spec => []RegistrySound
  <1>1. Init => StoredInv
    <2> SUFFICES ASSUME Init PROVE StoredInv
      OBVIOUS
    <2>1. \A d \in Payloads : onDisk[d] = {None}
      BY DEF Init, CacheInit, Names
    <2>2. \A d \in Payloads : Document(schemas[d])
      BY DEF Init, CacheInit
    <2>3. \A d \in Payloads : d \notin onDisk[d]
      BY <2>1, CacheAssumption
    <2> QED  BY <2>2, <2>3 DEF StoredInv
  <1>2. CacheInv /\ StoredInv /\ [Next]_vars => StoredInv'
    BY StoredKeeps
  <1>3. CacheInv /\ StoredInv => RegistrySound
    <2> SUFFICES ASSUME CacheInv, StoredInv, NEW d \in Payloads, files[d] = d
                 PROVE  LET built == Descriptors(schemas[d]) IN
                        /\ built # None /\ Accepted(schemas[d], built)
                        /\ TypesResolved(schemas[d], built)
                        /\ OneofsLaidOut(schemas[d], built)
      BY DEF RegistrySound
    <2>1. d \in onDisk[d]
      BY DEF CacheInv, FilesPossible, Names
    <2>2. Document(schemas[d]) /\ Builds(schemas[d])
      BY <2>1 DEF StoredInv
    <2> QED  BY <2>2, BuildsSound
  <1> QED  BY <1>1, <1>2, <1>3, CacheSafe, PTL DEF Spec

-----------------------------------------------------------------------------
(***************************************************************************)
(* The server.  Once the goroutine has returned, the shutdown waited for   *)
(* the requests or had its five seconds; and only a command that serves has *)
(* requests.                                                               *)
(***************************************************************************)
Drained == watcher = "returned" => cancelled /\ (Active = {} \/ late)
WatcherKnows == watcher \in {"shutdown", "returned"} => cancelled
AskedServing == main \notin {"serve", "closed"} => Active = {}
ServerInv == ServerTypeOK /\ WatcherKnows /\ Drained /\ AskedServing

LEMMA ServerInvInit == ServerInit => ServerInv
  BY DEF ServerInit, ServerInv, ServerTypeOK, WatcherKnows, Drained, AskedServing, Active

(* The end of the process, however it comes.                                *)
LEMMA GoneKeeps ==
    ASSUME ServerInv, NEW fate \in {"cut", "lost"}, Gone(fate),
           token' \in {"absent", "empty", "written"}
    PROVE  ServerInv'
  BY DEF ServerInv, ServerTypeOK, WatcherKnows, Drained, AskedServing, Active, Gone

(* runMCP reads and writes the token and waits for the goroutine: what the  *)
(* goroutine and the clients do is none of its business.                    *)
LEMMA MainKeeps == ASSUME ServerInv, MainStep PROVE ServerInv'
  <1> USE DEF ServerInv, ServerTypeOK
  <1>1. CASE ReadToken
    <2>1. CASE token = "empty"
      BY <1>1, <2>1, GoneKeeps DEF ReadToken, Ends, Goes
    <2>2. CASE token # "empty"
      BY <1>1, <2>2 DEF ReadToken, Goes, WatcherKnows, Drained, AskedServing, Active
    <2> QED  BY <2>1, <2>2
  <1>2. CASE CreateToken
    BY <1>2 DEF CreateToken, Goes, WatcherKnows, Drained, AskedServing, Active
  <1>3. CASE WriteToken
    BY <1>3 DEF WriteToken, Goes, WatcherKnows, Drained, AskedServing, Active
  <1>4. CASE TokenFails
    BY <1>4, GoneKeeps DEF TokenFails, Ends
  <1>5. CASE StartWatcher
    BY <1>5 DEF StartWatcher, WatcherKnows, Drained, AskedServing, Active
  <1>6. CASE Listen
    BY <1>6 DEF Listen, Goes, WatcherKnows, Drained, AskedServing, Active
  <1>7. CASE ServeReturns
    BY <1>7 DEF ServeReturns, Goes, WatcherKnows, Drained, AskedServing, Active
  <1>8. CASE MainReturns
    BY <1>8, GoneKeeps DEF MainReturns, Ends
  <1> QED  BY <1>1, <1>2, <1>3, <1>4, <1>5, <1>6, <1>7, <1>8 DEF MainStep

LEMMA ServerStepKeeps == ASSUME ServerInv, ServerStep PROVE ServerInv'
  <1> USE DEF ServerInv, ServerTypeOK
  <1>1. CASE MainStep
    BY <1>1, MainKeeps
  <1>2. CASE WatcherStep
    BY <1>2 DEF WatcherStep, BeginShutdown, ReturnShutdown, TimeOut, MayReturn,
                WatcherKnows, Drained, AskedServing, Active
  <1>3. CASE Cancel
    BY <1>3 DEF Cancel, WatcherKnows, Drained, AskedServing, Active
  <1>4. ASSUME NEW c \in Clients, Ask(c) PROVE ServerInv'
    BY <1>4 DEF Ask, WatcherKnows, Drained, AskedServing, Active
  <1>5. ASSUME NEW c \in Clients, Answer(c) PROVE ServerInv'
    BY <1>5 DEF Answer, WatcherKnows, Drained, AskedServing, Active
  <1> QED  BY <1>1, <1>2, <1>3, <1>4, <1>5 DEF ServerStep

LEMMA ServerNextKeeps == ASSUME ServerInv, [Next]_vars PROVE ServerInv'
  <1>1. CASE CacheNext \/ UNCHANGED vars
    BY <1>1 DEF CacheNext, vars, serverVars, ServerInv, ServerTypeOK, WatcherKnows, Drained, AskedServing, Active
  <1>2. CASE RunServer
    BY <1>2 DEF RunServer, StartServer, ServerInv, ServerTypeOK, WatcherKnows, Drained, AskedServing, Active
  <1>3. CASE Serves(ServerStep)
    BY <1>3, ServerStepKeeps DEF Serves
  <1>4. CASE PowerLoss
    BY <1>4, GoneKeeps DEF PowerLoss, ServerLosesPower, ServerInv, ServerTypeOK
  <1> QED  BY <1>1, <1>2, <1>3, <1>4 DEF Next

(* A request is cut only by the return of runMCP.                           *)
LEMMA CutByReturn ==
    ASSUME ServerInv, [Next]_vars, NEW c \in Clients,
           request[c] = "active", request'[c] = "cut"
    PROVE  cancelled /\ late
  <1>1. ~(CacheNext \/ UNCHANGED vars)
    BY DEF CacheNext, vars, serverVars
  <1>2. ~RunServer
    BY DEF RunServer, StartServer
  <1>3. ~PowerLoss
    BY DEF PowerLoss, ServerLosesPower, Gone
  <1>4. CASE Serves(ServerStep)
    <2>1. ~(WatcherStep \/ Cancel)
      BY DEF WatcherStep, BeginShutdown, ReturnShutdown, TimeOut, Cancel
    <2>2. ~\E d \in Clients : Ask(d) \/ Answer(d)
      BY DEF Ask, Answer, ServerInv, ServerTypeOK
    <2>3. MainStep
      BY <1>4, <2>1, <2>2 DEF Serves, ServerStep
    <2>4. c \in Active
      BY DEF Active
    <2>5. main \in {"serve", "closed"}
      BY <2>4 DEF ServerInv, AskedServing
    <2>6. MainReturns
      BY <2>3, <2>5 DEF MainStep, ReadToken, CreateToken, WriteToken, TokenFails,
                        StartWatcher, Listen, ServeReturns, Goes
    <2> QED  BY <2>4, <2>6 DEF MainReturns, ShutdownReturned, ServerInv, Drained
  <1> QED  BY <1>1, <1>2, <1>3, <1>4 DEF Next

-----------------------------------------------------------------------------
(* Invariant of the server in every behaviour of the commands.              *)
LEMMA ServerSafe == Spec => []ServerInv
  <1>1. Init => ServerInv
    BY ServerInvInit DEF Init
  <1>2. ServerInv /\ [Next]_vars => ServerInv'
    BY ServerNextKeeps
  <1> QED  BY <1>1, <1>2, PTL DEF Spec

(* No request is cut before the shutdown had its five seconds, whatever the *)
(* order in which runMCP, its goroutine, the timer, the clients and the user*)
(* act (mcp.go:73-83).                                                      *)
THEOREM NoRequestCutSafe == Spec => NoRequestCut
  <1> DEFINE Kept == \A c \in Clients :
                request[c] = "active" /\ request'[c] = "cut" => cancelled /\ late
  <1>1. ServerInv /\ [Next]_vars => [Kept]_serverVars
    BY CutByReturn
  <1> QED  BY <1>1, ServerSafe, PTL DEF Spec, NoRequestCut

(* Every variable of the cache, the commands and the server has its type.   *)
THEOREM CommandsTyped == Spec => []TypeOK
  <1>1. Init => menu \in {"cache", "mcp"}
    BY DEF Init
  <1>2. menu \in {"cache", "mcp"} /\ [Next]_vars => (menu \in {"cache", "mcp"})'
    BY DEF Next, CacheNext, RunServer, Serves, PowerLoss, vars
  <1>3. CacheInv /\ ServerInv /\ menu \in {"cache", "mcp"} => TypeOK
    BY DEF CacheInv, ServerInv, TypeOK
  <1> QED  BY <1>1, <1>2, <1>3, CacheSafe, ServerSafe, PTL DEF Spec
=============================================================================
