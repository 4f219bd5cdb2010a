# Formal models of mjcap

mjcap watches a browser tab over the Chrome DevTools Protocol (CDP), keeps what
it saw in a private journal, rebuilds the mahjong games in it, joins MAKA's
evaluations to them, stores the games, and serves them to a language model over
MCP. This directory holds TLA+ models of that program, the configurations that
check them with TLC, and proofs checked by TLAPS. Line numbers refer to the Go
sources beside it; `PROJECT.json` maps each definition to the lines it stands
for, and lists the runs, mutants, findings, hazards and theorems.

## 1. Inventory of the system

| Component | State it keeps | Operations | Correct when |
|---|---|---|---|
| **Capture observer** `internal/capture/observer.go` | responses it tracks, body commands in flight with deadlines, bytes counted against the body budget | `handle` (a CDP event or reply), `expire` (timeouts, shutdown), `emit` | the budget is never promised twice; each body command has one outcome; nothing Chrome says is lost |
| **Capture session** `internal/capture/session.go` | a context, a socket, a channel of packets, three goroutines | `run`: reader, watcher, loop, deferred shutdown | it always returns with everything joined; each message read is handled; nil means the user stopped it |
| **Journal** `internal/capture/event.go` | the file, the last sequence number | `Append`, `Close`, `Replay` | what was acknowledged survives a crash; a replay passes over nothing in silence |
| **Target selection** `internal/capture/target.go` | none | one GET and a filter | not modelled |
| **Request names** `internal/decode/names.go` | per connection: number of a request to its name, or "used twice" | `observe` | a response is named after its own request or not at all |
| **Record decoding** `internal/decode/record.go` | none | a frame to a message, a record to its actions | an action that does not decode keeps its place |
| **Game reconstruction** `internal/extract/extract.go`, `board.go` | the open round: hands, draws, board, decisions | `Rounds`, `newRound`, `applyToRound` | each decision has the hand and board the player really had |
| **MAKA join** `internal/extract/seer.go` | the game, its decisions by action | `JoinSeer`, `resolveDecision` | an evaluation sits on the move it is about |
| **Game store** `internal/store/store.go` | one file per game | `Save`, `Load`, `List` | a map of complete games, whatever fails |
| **Pipeline** `internal/cli/decode.go`, `loginreuse.go`, `ingest.go` | records, reports and logins collected from a capture | collect, reuse of a login, join and store, exit | exit 0 means everything is stored; a failure keeps what was stored |
| **MCP server** `internal/mcp`, `internal/cli/mcp.go` | the token file; a listener, a goroutine that shuts it down | list, get, find, explain; `runMCP`, `loadOrCreateToken` | listing is safe beside a save; a cancelled server stops and cuts no request it could have answered |
| **Schema cache** `internal/liqi/resource.go`, `cache.go`, `offline.go` | a metadata file per version, a schema file per digest | `Fetch`, `saveCache`, `loadCache`, `OpenCachedMetadata` | a schema is the one the manifest named; no half entries; a capture is decoded with the schema it was bound to |
| **Schema registry** `internal/liqi/registry.go`, `schema.go`, `message.go` | none | `Build`: JSON schema to descriptors | the descriptors say what the document says, or the document is refused |
| **Command line** `internal/cli/cli.go`, `capture.go`, `progress.go`, `cmd/mjcap` | a mutex around the progress view | the choice of the command, flags, wiring, output | each command uses the cache as its own module says |

How they interact: the session's loop calls the observer, the observer calls the
journal (its sink) and then the callback that logs names; the reader and the
watcher share the socket and the channel with the loop. Decoding reads the
journal back (`Replay`), names each frame (`Names.observe`), rebuilds each
record (`Rounds`), joins the latest report (`JoinSeer`) and calls `store.Save`,
while an MCP server, another process, may call `store.List`. Before any of
that, `fetch-proto` puts the game's schema into the cache; `capture`, `ingest` and
`decode` load it from there by the name of its metadata file and build its
descriptors, and the capture records which schema it was bound to.

Hard behaviours: the select of the loop has no priority, so a cancellation races
messages, ticks and the reader's error; body answers race their timeouts and the
shutdown; the disk can fail between a write and its synchronization, and the
machine between any two steps; request numbers are used again; the capture can
start in the middle; a frame that is not text or not JSON ends the reading of a tab
that is well; any action of a record may be undecodable, and the replay
goes on with the rest; nothing locks the schema cache, which several commands
write and read file by file while the game may release a version between any two
of their requests. `PROJECT.json` lists these hazards at their lines, with
the property that watches each, or the reason none does yet.

## 2. Modules

| Module | Models | State and actions against the code |
|---|---|---|
| `Observer` | `observer.go` driven by the loop of `run()` | `responses`, `pending`, `bodyBytes` are the fields of `observer`, `log` is what the sink accepted. `Handle` is one call of `handle` and is atomic, because one goroutine owns the observer; `expire` emits a record per request in map order and is a sequence of `ExpireFetch`, `InterruptFetch`, `InterruptResponse`. `DeadlinePasses` is the clock. The sink and the socket may refuse at any call (`faults`). |
| `Session` | `run()` with its goroutines | `reader`/`hand`, `watcher`, `packets`, `closeResult`, `ctxDone`, `conn`; the loop's branch is chosen freely, as Go's select does. A read fails because the session closed the socket, because the tab is gone, or because a frame of a live tab is not text or not JSON; `readEnd` remembers which. It instantiates `Observer` as `O` on the same variables, and `ObserverSpec` states that each of its steps is a step of `Observer`. |
| `Journal` | `Append`, `Close`, `Replay` | `Append` is write, synchronize, return; each may fail, a write may be partial, and a crash keeps the synchronized lines and any part of the rest. `Replay` is an operator on the file. |
| `Names` | `Names.observe` | `pending` is the table; beside it the conversation itself (`outstanding`) records which request a response really answers. |
| `Recorder` | `emit` and the callback of `mjcap capture` | `Journal` and `Names` over one event: it is appended, and named if that succeeded. Neither changes the state of the other, so a behaviour exercises one of them (`part`) and one run checks both. |
| `Rounds` | `Rounds`, `newRound`, `applyToRound`, the board | A table (`table`, `wall`, `turn`) plays and each of its moves is an action of the record; the replay (`round`, `rounds`, `issues`) sees the action, unless it does not decode. Moves of the table are external; what the replay makes of them is the code. |
| `MakaJoin` | `JoinSeer`, `resolveDecision` | A record without tiles in which the true answer to a decision is the next move; then the report is joined event by event. |
| `GameMap` | what the store promises | A map from uuid to game; `Put` replaces one entry, `PowerLoss` may bring back one that was replaced since the last directory synchronization. |
| `GameStore` | `Save`, `Load`, `List` | `save` is the point `Save` has reached, `tmp` the temporary file, `dir` and `onDisk` what a file holds and what it may hold after a power loss, `listing` a `List` in another process. `StoreIsMap` is the refinement of `GameMap`. |
| `Pipeline` | `decode` and the gate of `ingest` | Composes `GameStore`: collection frame by frame, reuse of a login, then per game a join and a `Save` step by step; a rerun of `decode` afterwards. |
| `Registry` | `Build` in `registry.go`, `message.go` | Pure operators. A document maps the path of each definition to the definition; `Descriptors` is what `Build` hands to protobuf, or `None` when it refuses, `Accepted` what protobuf (external) makes of that. `TypesResolved` and `OneofsLaidOut` are stated on their own, not through the operators they judge. |
| `SchemaCache` | `Fetch`, the cache files, `OpenCachedMetadata`, the binding of a capture | `proc` holds one command per process and the step it has reached; `files` is the directory, `onDisk` what a power loss may leave of each file, `current` and `hosted` what the game's origin serves. Each request, each rename, each directory synchronization and each read is a step of its own, and each may fail. `served` and `seen` are history. |
| `McpServer` | `runMCP` with `--listen`, `loadOrCreateToken` | `main` and `watcher` are the two goroutines, `request` what each client waits for, `token` the file. net/http, the clients, the user and the clock are external. |
| `Commands` | the choice in `cli.Run` | Composes `SchemaCache` and `McpServer` with starts and power losses. The two share no state, so a behaviour runs the commands of one of them (`menu`). |
| `ObserverProofs`, `SessionProofs` | proofs about `Observer`, and about `Session` and the observer in it | section 5 |
| `JournalProofs`, `NamesProofs`, `PipelineProofs` | proofs about `Journal`, `Names`, and `Pipeline` with `GameStore` | section 5 |
| `RoundsProofs`, `JoinProofs` | proofs about `Rounds` and `MakaJoin` | section 5 |
| `CommandsProofs` | proofs about `SchemaCache`, `McpServer` and `Commands` | section 5 |
| `MC...` | values of the constants for TLC | no definition of a model is replaced |

Definitions under a comment that begins with "mutant" are not part of a
specification. Each is the mutated form of the definition that follows it, a
plausible slip in the same lines of code, and shows that a property can fail.

What the models leave out, by module:

- **Observer.** WebSocket frames and events that do not decode are one record
  each (`other`); the selection of a URL is a boolean of the event; records carry
  only what the properties need; the tracking limit 4096 is `MaxTracked`. A
  message without method and with number 0, which Chrome does not send, is left
  out. Answers that come after their timeout are recorded but not counted
  against the budget, in the code as in the model. A `metadata_limit` keeps an
  older entry of the same request id, as the code does.
- **Session.** The `ready` callback. The rejection of `Network.enable` is
  returned as an error and not recorded (session.go:132-134); `AnswersRetained`
  excepts it.
- **Journal.** `validateEvent`, which accepts whatever the observer emits. A
  successful `Sync` makes the whole file durable.
- **Names.** The lookup of descriptors; undecodable and unrelated frames are one
  "garbled" case; the clearing at `capture_stop` is not an action.
- **Recorder.** An event whose `Append` failed is withheld from the callback. For a
  frame that is a frame that does not decode, which `Names` has; a withheld
  `websocket_open` or `websocket_close` is left out. The capture ends after it,
  except for the packets already read.
- **Rounds.** A hand is a bag of tiles. Dora indicators, the labels of a round,
  `EndScores`, actions without result, unmeasured names and BaBei are left out;
  the deals that `newRound` refuses end the program and are not inputs. A chi is
  a call like a pon. An accepted riichi is announced by the next draw
  (docs/protocol-findings.md:321). Scores are counted in riichi sticks. The hands of
  the table are within the tile set; a replayed hand that missed discards may hold
  more of a tile than there are, and is only never below zero. The history `mixed`
  names the closed kans of a kind in two codes, that is with a red five, which the
  replay does not follow: `UnspoiledRounds` is about the rounds without one.
- **MakaJoin.** Candidates, scores and ratings are copied by the code and are
  left out, as are robbed kans and open decisions for a kan.
- **Pipeline.** A capture is a sequence of decoded responses; one that does not
  decode is ignored by the code and is left out. Flags and the choice of
  evidence files are not modelled; a capture bound to another schema is a "bad"
  frame. Reconstructions are told apart by the record, the report and the self
  seat they came from.
- **Registry.** The JSON parser, options, numbers of fields and the values of
  enums are copied or checked one by one and are left out. A name is a word
  behind some underscores, and the name of a map entry is marked as one, which
  is all that collisions and the sorting depend on. A document may use such a name
  too, but not for a map, whose own entry the model could not name. `Document` says
  what the parser gives to `Build`: finitely many definitions, each with its path, and
  for every field, method and oneof the parts its JSON object has. Sorting is by rank:
  the i-th name is the one with i - 1 names before it.
- **SchemaCache.** A binding of version, resource version and URL is known by the
  version; the resource version is a function of it (`PrefixOf`), so that a manifest never
  changes under one game version: the refusal of a cached schema because of its
  resource version is not exercised. A digest is the
  document's name. A file is complete before its rename, so writing and renaming
  are one step; reading an entry is one step, because a schema file never gets
  other content. A capture contains only its binding. `--protocol` is bound in
  the same way and left out. Permissions are not modelled.
- **McpServer.** The standard-input transport; what the tools answer
  (`store.List` is in `GameStore`). `os.WriteFile` truncates and then writes, so
  a crash can leave an empty token, which every later start refuses.

## 3. Runs

| Run | Checks | Bounds, and why they are enough |
|---|---|---|
| `observer` | the type invariant, `BudgetReserved`, `OneOutcomePerFetch`, `FetchAccounted`, `AwaitedAccounted`, `NoCommandAfterLoop`, `AnswersRetained` | Two requests and one tracking slot, so that the limit is hit; five messages, so that both requests can be announced and finished and one answer come late; budgets that fit one body, two, or none legally, and bodies disabled; bodies that fit and that exceed `maxBody`. |
| `session` | the type invariant, `NoReadLost`, `ReturnsJoined`, `NilOnlyWhenCancelled`, `OwnCloseNotBlamed`, `ObserverSpec`, and under fairness `ShutdownCompletes`, `FetchesSettle` | One request and three messages: enable's reply, a fetch and its answer fit; a channel of one packet, so that the reader blocks on a full channel as it does at 64. Any read may be the last one, for each of the three reasons. |
| `session_cancel` | finding: `CancelIsClean` fails | as above |
| `recorder` | the type invariants, `RawBeforeName`, `ReplayIsComplete`, `UnfailedReplays` of the journal; `NeverMisattributed`, `NotedIsNamed`, `PendingIsOwed` of the names | Five appends: a failure, a record that continues a torn line, one that repeats a number and two after it. Two connections, two numbers, one place in the table, four requests, a client that uses a number again only after its answer. |
| `journal_seq` | finding: `SeqIncreases` fails | The journal alone, bounds as above. |
| `names_reuse` | finding: `AmbiguityNeverPicks` fails | Three requests of one number, two of them unanswered at once. |
| `rounds` | the type invariant, `UnspoiledRounds` | Two seats, hands of three tiles, eight actions, one lost: enough for a riichi and its acceptance, a pon that grows into an added kan, a closed kan, and a second round after a lost end of the first. One tile is the red one of its kind, so that pons and kans are of one code and of two; without `mixed` in `UnspoiledRounds` TLC finds a closed kan after which the round is not rebuilt. |
| `rounds_kan` | finding: `ClosedKanRemovesFour` fails | Four actions, nothing lost, one red tile. |
| `maka` | the type invariant, `IntactRoundsJoin`, `MisjoinNeedsLoss` | Two seats, seven actions, one lost: a round before or after the one in question may be spoiled, and every set of events on the record is joined. |
| `maka_guess` | finding: `NeverGuessed` fails | as above |
| `pipeline` | the type invariant, `ListNeverFails`, `StoreIsMap`, `ExitZeroStored`, `PartialProgress` | Two games, three responses (a record, its report and a login in every order, a record twice, a report twice, one that breaks the run), two other captures, two runs of decode, power losses without bound. |
| `commands` | the type invariants, `FetchedIsNamed`, `EntriesLoad`, `DecodedAsBound`, `RegistrySound`, `NoRequestCut`, and under fairness `CancelledExits` | Three commands, two at a time, two versions, two schemas and two changes at the origin: a fetch can be overtaken by a release, an entry replaced between the two reads of an ingest, a second fetch saved over the first. One command over each of 1842 other documents, of which 314 build: a name defined in any of the scopes a reference is looked up in, a service, three fields, optional or maps, in and out of up to two oneofs, a map beside something that is called like an entry, a document whose files import each other. Three servers, one after the other, with two clients. Power losses without bound. Deadlock is not checked: the commands may all be done. |

Five of the runs found something, described with the quoted lines in
`PROJECT.json`:

1. *session_cancel* - Ctrl-C can end a healthy capture with an error, when the
   loop picks a waiting `loadingFinished` after the socket was closed.
   `ingest` then does not decode the capture.
2. *journal_seq* - a record that was written but not synchronized keeps its line,
   and the next one repeats its number; the capture cannot be replayed past it.
3. *names_reuse* - the first response to a number in doubt clears the doubt, and
   the response to the second request can be named after a third.
4. *rounds_kan* - a closed kan of fives with a red five does not take four tiles
   out of the reconstructed hand.
5. *maka_guess* - when the answer to an evaluated decision did not decode,
   `resolveDecision` attaches the evaluation to the seat's next discard, although
   events that cannot be joined are to be recorded and never guessed at.

What the passing runs show that tests hardly reach: the body budget holds with
several fetches under way; an answer, its timeout and the shutdown never produce
two outcomes or none; the shutdown cannot deadlock with a full channel; a round
is rebuilt with the hands, draws, board and end it had, whatever was lost of the
rounds around it (`HandIndex`, the label that numbers the rounds, is not modelled); an evaluation never
crosses from an intact round into another; the store is a map of complete games
across power losses; the games of a capture are stored with their own last
report and the right seat wherever report and login stand; the schema cache
answers with the schema the game named whatever other commands, releases and
power losses come in between, and a capture is never decoded with another one.

Not promised, and worth knowing:

- *A round that lost an action of its own.* If the lost action answers an evaluated
  decision, the evaluation may sit on a later discard (`maka_guess`), and only the
  issues of the game name the loss. `IntactRoundsJoin` excludes such rounds;
  `MisjoinNeedsLoss` bounds the damage: nothing but lost answers, and rounds whose
  beginning is not even known by name, is ever passed over.
- *A body command that cannot be sent.* `handle` has already forgotten the
  response, so the shutdown records nothing for it; `AwaitedAccounted` speaks of
  captures in which nothing failed.
- *A schema republished under the same resource version.* It replaces the
  metadata file, and an older capture of that version is then refused
  (the second part of `DecodedAsBound`): the schema file is still there, but no
  metadata file names it. An ingest that meets this loses its decode, not its
  capture.
- *A cache entry whose save failed at the directory synchronization* is there
  although `fetch-proto` exits 1; the entry is whole all the same.
- *A listener that fails at once* (`failed` in `McpServer`): the command then waits
  for a cancellation before it reports the error (mcp.go:83).
- *Two first starts of `mjcap mcp` at once* may read each other's half-written
  token; the model runs one server at a time.
- *Two namespaces whose messages refer to each other* are refused, because files
  may not import each other; protobuf.js itself would accept the document.

## 4. Fairness and assumptions

Safety runs assume no fairness. `session` uses `FairSpec`: weak fairness of the
reader, the watcher, the main goroutine and the timers. Goroutines that can run
do run, so each has weak fairness; a read of the socket is not fair, since the
tab may be silent for ever and need not send a frame that fails to decode, but a
pending read fails when the socket is closed or the tab is gone.
The timer's fairness stands for Go's select, which chooses among ready cases at
random, so that a tick, buffered by the ticker, is not passed over for ever; the
deadlines pass because time does. Nothing is assumed of the user or of the tab.
`commands` has weak fairness of `runMCP` and of its goroutine, whose timer is
started with `Shutdown`; the clients, their answers and the user have none, and
neither have the commands that use the cache, which may be killed at any step.

Other assumptions: Chrome answers each command at most once; `fsync` makes the
whole file durable and a rename is atomic; the decoding of one action does not
depend on the others.

## 5. Proofs

`ObserverProofs` proves, for every set of requests, every policy, every size of
body and every bound:

| Theorem | States |
|---|---|
| `TypeCorrect` | `Spec => []TypeOK` |
| `BudgetSafe` | `Spec => []BudgetReserved` |
| `OutcomeUnique` | `Spec => []OneOutcomePerFetch` |
| `FetchesAccounted` | `Spec => []FetchAccounted` |
| `QuietShutdown` | `Spec => NoCommandAfterLoop` |
| `AnswersKept` | `Spec => AnswersRetained` |
| `AwaitedSafe` | `Spec => []AwaitedAccounted` |

It also proves that a capture whose HTTP bodies are disabled sends no body command
(`DisabledSafe`). `SessionProofs` proves, for every size of the channel besides:

| Theorem | States |
|---|---|
| `SessionRefinesObserver` | `Spec => ObserverSpec`: the session implements the sequential observer |
| `ObserverPromisesKept` | `BudgetReserved`, `OneOutcomePerFetch`, `FetchAccounted` and `AwaitedAccounted` of `Observer`, in every state of the session |
| `ReadsKept` | `Spec => []NoReadLost` |
| `AllJoined` | `Spec => []ReturnsJoined` |
| `NilMeansCancelled` | `Spec => []NilOnlyWhenCancelled` |
| `OwnCloseUnblamed` | `Spec => []OwnCloseNotBlamed` |
| `SessionTyped` | `Spec => []SessionTypeOK` |

`RoundsProofs` and `JoinProofs` prove, for any number of seats, any tiles and deals,
any number of actions and any of them lost:

| Theorem | States |
|---|---|
| `UnspoiledRebuilt` | `Spec => []UnspoiledRounds` |
| `RoundsTyped` | `Spec => []TypeOK` of `Rounds` |
| `IntactRoundsJoined` | `Spec => []IntactRoundsJoin` |
| `MisjoinedOnlyOverLoss` | `Spec => []MisjoinNeedsLoss` |
| `JoinTypeCorrect` | `Spec => []TypeOK` of `MakaJoin` |

Of the tiles `TableAssumption` says what is true of every set: a kind has one code or
two, four tiles in all, and no more of a tile are dealt than there are.

`CommandsProofs` proves, for any number of commands, clients, versions and
documents:

| Theorem | States |
|---|---|
| `FetchedSafe` | `Spec => []FetchedIsNamed` |
| `EntriesSafe` | `Spec => []EntriesLoad` |
| `DecodedSafe` | `Spec => []DecodedAsBound` |
| `NoRequestCutSafe` | `Spec => NoRequestCut` |
| `RegistrySafe` | `Spec => []RegistrySound` |
| `CommandsTyped` | `Spec => []TypeOK` |

`JournalProofs`, `NamesProofs` and `PipelineProofs` prove, for any number of
appends; of connections, numbers, methods and requests; of games, accounts, frames
and runs:

| Theorem | States |
|---|---|
| `NamesDurable` | `JournalSpec => []RawBeforeName` |
| `ReplayComplete` | `JournalSpec => []ReplayIsComplete` |
| `UnfailedComplete` | `JournalSpec => []UnfailedReplays` |
| `JournalTyped` | `JournalSpec => []JournalTypeOK` |
| `NamesSafe` | `NamesSpec => []NeverMisattributed`, if `MaxOutstanding = 1` |
| `NotedNamed` | `NamesSpec => []NotedIsNamed`, if `MaxOutstanding = 1` |
| `PendingOwed` | `NamesSpec => []PendingIsOwed`, if `MaxOutstanding = 1` |
| `NamesTyped` | `NamesSpec => []NamesTypeOK` |
| `StoreRefinesMap` | `Spec => StoreIsMap` |
| `ListSafe` | `Spec => []ListNeverFails` |
| `ProgressSafe` | `Spec => []PartialProgress` |
| `ExitZeroSafe` | `Spec => []ExitZeroStored` |
| `PipelineTyped` | `Spec => []TypeOK` of `Pipeline` |

`MaxOutstanding = 1` is a client that uses a number again only after its request
was answered. Without it `NeverMisattributed` is false, as the run `names_reuse` shows.

All rest on the named assumptions of their modules (`PolicyAssumption` and
`TrafficAssumption` of `Observer`, repeated as `SharedPolicyAssumption` and
`SharedTrafficAssumption` beside `PacketCapAssumption` in `Session`,
`CacheAssumption` of `SchemaCache`, `MaxAppendsAssumption`, `NamesAssumption`,
`TableAssumption` of `Rounds`, `JoinAssumption` of `MakaJoin`, `StoreAssumption`,
`PipelineAssumption`), which TLC evaluates in the runs of these modules.

The argument. `Typed` is `TypeOK` with the finiteness of `responses` and
`pending`, which the cardinalities in the limit and in the budget need; it is
inductive by itself. From it, lemma `NextSteps` classifies every step by what it
does to the fetches: a *quiet* step leaves them and records no outcome, a *fetch*
step adds one with a fresh command number and a reservation that fits, a *settle*
step removes one and records its outcome, a *lost* step removes one because the
sink refused its record. Each theorem then has four cases instead of one per
handler. The budget needs only that a settle step turns the reservation of one
fetch into at most `maxBody` bytes plus `overshoot`. The uniqueness of outcomes
is not inductive: `OutcomeInv` adds that numbers in flight are unique, at most
`commandID`, and have no outcome on record yet, so that the record of a settle
step is the first of its number and a new number never had one. `AwaitedInv` says,
while nothing has failed, that what is awaited is exactly what an announced response
has not settled yet, and that a loop that has ended left nothing.

The session. `TransitInv` follows a message from the reader to the observer: what was
read is in the reader's hand, in the channel, or handled (`InTransit`, `AllCounted`),
an error of the reader comes after every message (`ErrorIsLast`), and each command on
its way has one answer at most (`AnsweredOnce`), which is what the observer assumes of
Chrome. `SessionRefinesObserver` then has one case per action of the session: the
actions of the loop are actions of the observer, those of the other goroutines
stutter. It does not matter to `OS!Spec` that the module is instantiated twice, and
`SameSpec` says so; with it every theorem about the observer is one about the session.
The rest is control: the context is done when the caller cancelled or the loop ended,
the socket is closed only after that (`ContextInv`), each goroutine that is left has
something that ends it (`GoroutinesInv`), and each reported error has its cause
(`ResultInv`). `ErrorHasCause` says what the error of the reader knows of its cause: one
that the session caused by closing the socket meets a context that is done, so that
the loop returns nil and does not blame it.

The reconstruction. Tiles only move, so that a tile counted in two hands and the wall is
there at most as often as in the set (`TilesInv`, part `TilesKept`). The heart of
`RoundsInv` is `Follows`: while no action of the open round is lost, the state of the
replay is the state of the table, and its decisions are the true ones; `AllRebuilt`
carries that to the rounds that are over. Each action of the
replay has a lemma that says what it does to such a round. The table removes from a
hand the tiles it moves, the replay the tiles the record names, and that the two agree
needs counting, code by code: a claimed discard is missing from the hands of the others
(`DiscardSeen`), so that the tiles of a pon are missing from its caller's hand and the
wall, the claimed one too (`PonsSeen`). Its three tiles are of one code or of two, and
of a kind there are four: the caller has one more of the kind at most, whatever its
code, and an added kan finds one copy (`FourthOfPon`). A closed kan, of which the record
names one tile, finds four of it if it is of one code (`ClosedKanFollowed`).

The join. `RecordSound` and `RoundsBegin` describe the record, `EventsSound` what MAKA
comments: after an event that is not about a discard the table waits for the commented
seat, so that the next move is that seat's, or the round ends without one
(`SeatMoves`). `DecisionsKept` says that a discard in a round with nothing lost has its
decision. The number an event carries counts the moves before it, and two positions
with the same count and the same kind are the same position; so the search of
`resolveDecision` reaches the true answer unless an action between them is lost. An
evaluation is not overwritten by a later event, because an event with the same answer
would have to stand between the first one and its answer.

The cache. None of the three properties is inductive: what is reported at the end
was fetched and written in steps before. `CacheInv` says of every command, step by
step, which of its files already have their names and which are synchronized, and
that the digest it carries was published under the resource version of its
version (`served` only grows, so a republished schema does not undo this); of every
metadata file, that it names a schema published for its version; and of every
schema file, that it holds its own document or nothing, now and after a power
loss. Each kind of step - becoming another command, naming a file, synchronizing
the directory - has one lemma, and the nineteen steps of a command are their
instances. The decisive order is that `saveCache` synchronizes the schema before it
names the metadata.

The registry. `StoredInv` carries `Builds` from the step that checked it to whatever
names the schema file later, also after a power loss; nothing changes the document
behind a digest. What is left is about `Build` alone, for any document that `Document`
describes, whatever its size (`BuildsSound`). Its folds are well-founded recursions on
numbers, so that the least counterexample does instead of an induction: a strict order
lists a finite set, each element once (`InOrderLists`); `Before` and `Earlier` are such
orders (`BeforeOrders`, `FieldOrderLists`); the recursion that names the implicit oneofs
is defined (`ChosenExists`), and among one candidate more than names in use one is free
(`FreeNameFree`). So the fields come in the order of their oneofs, and the equal entries
of a sequence that never falls stand together (`EqualsAdjacent`); the oneofs are the
real ones, the declared synthetic ones and the generated ones, each with the fields it
should have (`OneofIndexPlace`); and generated names differ from entries, because they
begin with an underscore, and from all others, because they were free (`NamesApart`).
A reference resolves to the longest candidate that is defined, which is the one of the
innermost scope (`ResolveVisible`).

The server. A request is cut only when the process ends, and it ends with requests
under way only through `MainReturns`. The invariant has three parts: requests are
active only while the listener is up or the command waits for the shutdown
(`AskedServing`), a goroutine past its wait knows of the cancellation
(`WatcherKnows`), and one that returned left no request active or was late
(`Drained`).

The journal. `JournalInv` relates what the caller knows to what a crash leaves: an
event is acknowledged or named only when it is in a durable line (`Kept`), and
while no append has failed the lines are the records 1, 2, 3 and so on, of which
after a crash only the durable ones are sure (`Numbered`). Completeness of a
successful replay needs `Kept` alone: every line it visited parsed, and the
acknowledged event is in one of them.

The names. What is pending is owed to a request under way, unless its answer was
garbled; then the entry is ambiguous by now or its number is not in use, so that
the next request makes it ambiguous before an answer could take it (`Owing`). With
one request under way per number (`OneEach`), the request that an answer finds is
its own. `NotedPending` is the converse for conversations that garble only
requests.

The store. `StoreInv` says that every file is a complete game of its own uuid,
also after a power loss, because a temporary file is renamed only when its bytes
are synchronized (`TempSynced`). `QuietStore` shows that nothing but the rename,
the directory synchronization and the power loss touches the map; these three are
`Put`, `Settle` or a stutter, and `PowerLoss`. That decode joins and saves games,
not anything else, needs what it collected (`Collected`), the reused login
included. `ProgressSafe` then needs one fact about the data: the last of the first
n + 1 saves of a game is the (n + 1)-th if that is of this game, else the last of
the first n (`LatestNext`). `ExitZeroSafe` needs what the collection has so
far to be what the capture has so far (`Gathered`): the records are those wanted, in
order, the reports are each game's last one, the logins all that were seen, and what
was saved is what was collected; an exit with zero comes only when all of it is done.

Only model-checked: the liveness properties `ShutdownCompletes`, `FetchesSettle` and
`CancelledExits`, which need fairness and `ENABLED`. Every other property of the passing
runs is a theorem. No module uses a RECURSIVE operator.

## 6. Plan

Done: the capture core first, because everything else depends on the journal it
leaves, then names, reconstruction, join, store and pipeline.

The schema cache, its registry, the MCP server and the commands that share them
came next, with their proofs.

Then the proofs about the journal, the names and the store.

Then those about the session, the reconstruction and the join, and last those about
the registry: every invariant and action property the passing runs check is a theorem.

Next, models: dora indicators and BaBei in `Rounds`; robbed kans in `MakaJoin`; two
servers that share a token file.

Not modelled, because there is no state or order to get wrong: the choice of the
CDP target (one request and a filter), flags and the progress view, the field
accessors of `record.go`, the copying of candidates, scores and ratings, the
prompts, the JSON parser of `schema.go`. The order in which `listGames` puts games
of which some have no start time is fixed by the sorting algorithm of the Go
library alone.

## 7. Running

    tlc -workers 2 -config MCObserver.cfg MCObserver
    tlapm ObserverProofs.tla
