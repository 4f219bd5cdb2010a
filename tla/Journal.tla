------------------------------ MODULE Journal -------------------------------
(***************************************************************************)
(* The capture journal (internal/capture/event.go): one JSON record per    *)
(* line, numbered, written and synchronized before Append returns, read    *)
(* back by Replay.  The file system may write nothing or part of a record, *)
(* may refuse to synchronize, and may lose on a crash whatever was not     *)
(* synchronized.  After a failed Append the caller goes on appending: run()*)
(* still drains, expires and records capture_stop.                         *)
(***************************************************************************)
EXTENDS Naturals, Sequences

CONSTANT MaxAppends     \* bound: calls of Append on one journal

ASSUME MaxAppendsAssumption == MaxAppends \in Nat

Events == 1..MaxAppends     \* the n-th call of Append appends event n

(* A line holds the events whose bytes it has; one that is not exactly one  *)
(* complete record does not parse.                                          *)
Lines == [seq : Nat, events : SUBSET Events, parses : BOOLEAN]

VARIABLES
    state,      \* "open", "closed" by the process, or "crashed" with it
    pc,         \* where the call of Append is: "idle", "write", "sync", "return"
    calls,      \* calls of Append so far; the current event
    seq,        \* Journal.seq
    file,       \* the lines of the file
    torn,       \* does the last line lack its newline?
    durable,    \* how many lines a crash cannot take
    acked,      \* history: [event, seq] of every Append that returned nil, in order
    named,      \* events handed to the callback that logs names
    failed      \* history: did an Append fail?

journalVars == <<state, pc, calls, seq, file, torn, durable, acked, named, failed>>

JournalTypeOK ==
    /\ state \in {"open", "closed", "crashed"}
    /\ pc \in {"idle", "write", "sync", "return"}
    /\ calls \in 0..MaxAppends
    /\ seq \in Nat
    /\ file \in Seq(Lines)
    /\ torn \in BOOLEAN
    /\ durable \in 0..Len(file)
    /\ acked \in Seq([event : Events, seq : Nat \ {0}])
    /\ named \subseteq Events
    /\ failed \in BOOLEAN

-----------------------------------------------------------------------------
(***************************************************************************)
(* Append.                                                                 *)
(***************************************************************************)
(* Writing after an unfinished line continues that line.                    *)
Written(complete) ==
    IF torn
    THEN [file EXCEPT ![Len(file)].events = @ \cup {calls}]
    ELSE Append(file, [seq |-> seq + 1, events |-> {calls}, parses |-> complete])

BeginAppend ==
    /\ state = "open" /\ pc = "idle"
    /\ calls < MaxAppends
    /\ calls' = calls + 1
    /\ pc' = "write"
    /\ UNCHANGED <<state, seq, file, torn, durable, acked, named, failed>>

WriteLine ==
    /\ state = "open" /\ pc = "write"
    /\ file' = Written(TRUE)
    /\ torn' = FALSE
    /\ pc' = "sync"
    /\ UNCHANGED <<state, calls, seq, durable, acked, named, failed>>

WriteFails == \E partial \in BOOLEAN :
    /\ state = "open" /\ pc = "write"
    /\ file' = IF partial THEN Written(FALSE) ELSE file
    /\ torn' = (torn \/ partial)
    /\ failed' = TRUE
    /\ pc' = "idle"
    /\ UNCHANGED <<state, calls, seq, durable, acked, named>>

\* mutant: Append does not wait for the disk
SkipSync == durable
Synced == Len(file)

\* mutant: the sequence number is not advanced
ForgetSeq == seq
NextSeq == seq + 1

SyncLine ==
    /\ state = "open" /\ pc = "sync"
    /\ durable' = Synced
    /\ seq' = NextSeq
    /\ acked' = Append(acked, [event |-> calls, seq |-> NextSeq])
    /\ pc' = "return"
    /\ UNCHANGED <<state, calls, file, torn, named, failed>>

SyncFails ==
    /\ state = "open" /\ pc = "sync"
    /\ failed' = TRUE
    /\ pc' = "idle"
    /\ UNCHANGED <<state, calls, seq, file, torn, durable, acked, named>>

(* observer.emit: the callback sees only what Append returned               *)
NameEvent ==
    /\ state = "open" /\ pc = "return"
    /\ named' = named \cup {calls}
    /\ pc' = "idle"
    /\ UNCHANGED <<state, calls, seq, file, torn, durable, acked, failed>>

Close ==
    /\ state = "open" /\ pc = "idle"
    /\ state' = "closed"
    /\ UNCHANGED <<pc, calls, seq, file, torn, durable, acked, named, failed>>

(* A crash keeps the durable lines and any part of the rest, the last of it *)
(* possibly cut.                                                            *)
Crash == \E n \in durable..Len(file), cut \in BOOLEAN :
    /\ state = "open"
    /\ cut => n > durable
    /\ state' = "crashed"
    /\ file' = [i \in 1..n |-> IF cut /\ i = n THEN [file[i] EXCEPT !.parses = FALSE] ELSE file[i]]
    /\ torn' = (cut \/ (torn /\ n = Len(file)))
    /\ UNCHANGED <<pc, calls, seq, durable, acked, named, failed>>

Ended == state # "open" /\ UNCHANGED journalVars

JournalInit ==
    /\ state = "open" /\ pc = "idle"
    /\ calls = 0 /\ seq = 0
    /\ file = << >> /\ torn = FALSE /\ durable = 0
    /\ acked = << >> /\ named = {} /\ failed = FALSE

JournalNext ==
    \/ BeginAppend \/ WriteLine \/ WriteFails \/ SyncLine \/ SyncFails \/ NameEvent
    \/ Close \/ Crash \/ Ended

JournalSpec == JournalInit /\ [][JournalNext]_journalVars

-----------------------------------------------------------------------------
(***************************************************************************)
(* Replay: records are visited in file order up to the first that does not *)
(* parse or whose number does not increase; the replay succeeds only when  *)
(* it visited every line and the last one is complete.                     *)
(***************************************************************************)
SeqBefore(i) == IF i = 1 THEN 0 ELSE file[i - 1].seq

\* mutant: a line that does not parse is skipped
AcceptsOrSkips(i) == file[i].parses => file[i].seq > SeqBefore(i)
Accepts(i) == file[i].parses /\ file[i].seq > SeqBefore(i)

VisitedLines == {n \in 1..Len(file) : \A i \in 1..n : Accepts(i)}
Visited == UNION {file[i].events : i \in {n \in VisitedLines : file[n].parses}}
ReplaySucceeds == VisitedLines = 1..Len(file) /\ ~torn

AckedEvents == {acked[i].event : i \in 1..Len(acked)}

-----------------------------------------------------------------------------
(***************************************************************************)
(* Properties                                                              *)
(***************************************************************************)
(* A name is logged only for an event that no crash can take any more       *)
(* (event.go:45-46, docs/decisions.md:99).                                  *)
RawBeforeName == \A e \in named : \E i \in 1..durable : e \in file[i].events

(* A replay that reports success has visited every acknowledged event: it   *)
(* passes over nothing in silence (event.go:113, docs/phase1-capture.md:52).*)
ReplayIsComplete == ReplaySucceeds => AckedEvents \subseteq Visited

(* If no Append failed, every acknowledged event is replayed, after a crash *)
(* at any point too; and a capture that was closed replays to its end.      *)
UnfailedReplays == ~failed =>
    /\ AckedEvents \subseteq Visited
    /\ state = "closed" => ReplaySucceeds

(* README.md:98 says that seq increases from record to record.              *)
SeqIncreases == \A i, j \in 1..Len(file) :
    i < j /\ file[i].parses /\ file[j].parses => file[i].seq < file[j].seq
=============================================================================
