---------------------------- MODULE JournalProofs ----------------------------
(***************************************************************************)
(* Proofs about Journal, for any number of appends.  One fact carries them *)
(* all: the events of the durable lines never get fewer, and an event is   *)
(* acknowledged only when it is in one.                                    *)
(***************************************************************************)
EXTENDS Journal, SequenceTheorems, TLAPS

(* The event of a call under way is one of Events, and only a line that is  *)
(* there can be torn.                                                       *)
Typed == JournalTypeOK /\ (pc # "idle" => calls \in Events) /\ (torn => Len(file) > 0)

InFile(e, n) == \E i \in 1..n : e \in file[i].events

(* Acknowledged is durable, named is durable, and what waits for its        *)
(* synchronization is in the file.                                          *)
Kept ==
    /\ \A k \in 1..Len(acked) : InFile(acked[k].event, durable)
    /\ RawBeforeName
    /\ state = "open" /\ pc = "sync" => InFile(calls, Len(file))
    /\ pc = "return" => InFile(calls, durable)

(* Until an Append fails, the lines are the records 1, 2, 3 and so on; after*)
(* a crash that is sure of the durable ones only.                           *)
Numbered ==
    /\ \A i \in 1..durable : file[i].parses /\ file[i].seq = i
    /\ state # "crashed" =>
        /\ ~torn
        /\ durable = seq
        /\ \A i \in 1..Len(file) : file[i].parses /\ file[i].seq = i
        /\ Len(file) = IF pc = "sync" THEN seq + 1 ELSE seq
    /\ state = "closed" => pc = "idle"

JournalInv == Typed /\ Kept /\ (~failed => Numbered)

-----------------------------------------------------------------------------
LEMMA InitInv == JournalInit => JournalInv
  <1> SUFFICES ASSUME JournalInit PROVE JournalInv
    OBVIOUS
  <1>1. Typed
    <2>1. << >> \in Seq(Lines) /\ << >> \in Seq([event : Events, seq : Nat \ {0}]) /\ Len(<< >>) = 0
      OBVIOUS
    <2>2. calls \in 0..MaxAppends /\ durable \in 0..Len(file) /\ seq \in Nat
      BY <2>1, MaxAppendsAssumption DEF JournalInit
    <2>3. JournalTypeOK
      BY <2>1, <2>2 DEF JournalInit, JournalTypeOK
    <2> QED  BY <2>3 DEF JournalInit, Typed
  <1>2. Kept
    BY DEF JournalInit, Kept, RawBeforeName
  <1>3. Numbered
    BY DEF JournalInit, Numbered
  <1> QED  BY <1>1, <1>2, <1>3 DEF JournalInv

(* A record that continues a torn line is added to the events of that line. *)
LEMMA GrowLast ==
    ASSUME NEW s \in Seq(Lines), NEW e \in Events, Len(s) > 0, NEW t,
           t = [s EXCEPT ![Len(s)].events = @ \cup {e}]
    PROVE  /\ t \in Seq(Lines) /\ Len(t) = Len(s)
           /\ \A i \in 1..Len(s) : s[i].events \subseteq t[i].events
           /\ e \in t[Len(s)].events
  <1> DEFINE n == Len(s)
             last == [s[n] EXCEPT !.events = @ \cup {e}]
  <1>1. n \in Nat /\ DOMAIN s = 1..n /\ n \in 1..n /\ \A i \in 1..n : s[i] \in Lines
    OBVIOUS
  <1>2. t = [s EXCEPT ![n] = last]
    OBVIOUS
  <1>3. last \in Lines /\ s[n].events \subseteq last.events /\ e \in last.events
    BY <1>1 DEF Lines
  <1> HIDE DEF last
  <1>4. DOMAIN t = 1..n /\ \A i \in 1..n : t[i] = IF i = n THEN last ELSE s[i]
    BY <1>1, <1>2
  <1>5. t \in [1..n -> Lines]
    BY <1>1, <1>2, <1>3, <1>4
  <1>6. t \in Seq(Lines)
    BY <1>1, <1>5, SeqDef
  <1>7. Len(t) = n
    BY <1>1, <1>4, <1>6
  <1> QED  BY <1>1, <1>3, <1>4, <1>6, <1>7

(* A write only adds: a line, or events to the last one.                    *)
LEMMA WrittenGrows ==
    ASSUME Typed, pc = "write", NEW complete \in BOOLEAN, NEW w, w = Written(complete)
    PROVE  /\ w \in Seq(Lines)
           /\ Len(w) = IF torn THEN Len(file) ELSE Len(file) + 1
           /\ \A i \in 1..Len(file) : file[i].events \subseteq w[i].events
           /\ calls \in w[Len(w)].events
           /\ ~torn => /\ \A i \in 1..Len(file) : w[i] = file[i]
                       /\ w[Len(file) + 1] =
                            [seq |-> seq + 1, events |-> {calls}, parses |-> complete]
  <1> DEFINE line == [seq |-> seq + 1, events |-> {calls}, parses |-> complete]
  <1>1. file \in Seq(Lines) /\ calls \in Events /\ Len(file) \in Nat /\ seq \in Nat
    BY DEF Typed, JournalTypeOK
  <1>2. CASE ~torn
    <2>1. line \in Lines
      BY <1>1 DEF Lines
    <2>2. w = Append(file, line)
      BY <1>2 DEF Written
    <2> QED  BY <1>1, <1>2, <2>1, <2>2
  <1>3. CASE torn
    <2>1. w = [file EXCEPT ![Len(file)].events = @ \cup {calls}]
      BY <1>3 DEF Written
    <2>2. Len(file) > 0
      BY <1>3 DEF Typed
    <2> QED  BY <1>1, <1>3, <2>1, <2>2, GrowLast
  <1> QED  BY <1>2, <1>3 DEF Typed, JournalTypeOK

(* What is in the first n lines stays there.                                *)
LEMMA InFileStays ==
    ASSUME NEW n \in Nat, NEW m \in Nat, n <= m, NEW e, InFile(e, n),
           \A i \in 1..n : file[i].events \subseteq file'[i].events
    PROVE  \E i \in 1..m : e \in file'[i].events
  BY DEF InFile

-----------------------------------------------------------------------------
(***************************************************************************)
(* The actions, by what they do to the file.                               *)
(***************************************************************************)
(* The lines that were durable keep their events, and the acknowledged and  *)
(* the named events do not change.                                          *)
LEMMA KeptByLines ==
    ASSUME JournalInv, UNCHANGED <<acked, named, durable>>,
           \A i \in 1..durable : file[i].events \subseteq file'[i].events,
           state' = "open" /\ pc' = "sync" => InFile(calls, Len(file))',
           pc' = "return" => pc = "return" /\ UNCHANGED calls
    PROVE  Kept'
  <1>1. durable \in Nat
    BY DEF JournalInv, Typed, JournalTypeOK
  <1>2. \A e : InFile(e, durable) => InFile(e, durable)'
    BY <1>1, InFileStays DEF InFile
  <1>3. (\A k \in 1..Len(acked) : InFile(acked[k].event, durable))'
    BY <1>2 DEF JournalInv, Kept, InFile
  <1>4. RawBeforeName'
    BY <1>2 DEF JournalInv, Kept, RawBeforeName, InFile
  <1>5. pc' = "return" => InFile(calls, durable)'
    BY <1>2 DEF JournalInv, Kept, InFile
  <1> QED  BY <1>3, <1>4, <1>5 DEF Kept

LEMMA WriteStep ==
    ASSUME JournalInv, WriteLine \/ WriteFails
    PROVE  JournalInv'
  <1>1. /\ Typed /\ pc = "write" /\ state = "open"
        /\ UNCHANGED <<state, calls, seq, durable, acked, named>>
    BY DEF JournalInv, WriteLine, WriteFails
  <1>2. file \in Seq(Lines) /\ Len(file) \in Nat /\ durable \in 0..Len(file) /\ calls \in Events
        /\ seq \in Nat
    BY <1>1 DEF Typed, JournalTypeOK
  <1>3. ASSUME NEW complete \in BOOLEAN, file' = Written(complete)
        PROVE  /\ file' \in Seq(Lines) /\ Len(file') \in Nat /\ Len(file') > 0
               /\ durable \in 0..Len(file')
               /\ \A i \in 1..durable : file[i].events \subseteq file'[i].events
               /\ InFile(calls, Len(file))'
    <2>1. /\ file' \in Seq(Lines)
          /\ Len(file') = IF torn THEN Len(file) ELSE Len(file) + 1
          /\ \A i \in 1..Len(file) : file[i].events \subseteq file'[i].events
          /\ calls \in file'[Len(file')].events
      BY <1>1, <1>3, WrittenGrows
    <2>2. torn => Len(file) > 0
      BY <1>1 DEF Typed
    <2>3. Len(file') \in Nat /\ Len(file') > 0 /\ Len(file') >= Len(file)
      BY <1>2, <2>1, <2>2
    <2> QED  BY <1>1, <1>2, <2>1, <2>3 DEF InFile
  <1>4. CASE WriteLine
    <2>1. file' = Written(TRUE) /\ torn' = FALSE /\ pc' = "sync" /\ failed' = failed
      BY <1>4 DEF WriteLine
    <2>2. Typed'
      BY <1>1, <1>2, <1>3, <2>1 DEF Typed, JournalTypeOK, Events
    <2>3. Kept'
      BY <1>1, <1>3, <2>1, KeptByLines
    <2>4. ~failed => Numbered'
      <3> SUFFICES ASSUME ~failed PROVE Numbered'
        OBVIOUS
      <3>1. Numbered /\ ~torn
        BY <1>1 DEF JournalInv, Numbered
      <3>2. /\ Len(file') = Len(file) + 1
            /\ \A i \in 1..Len(file) : file'[i] = file[i]
            /\ file'[Len(file) + 1] = [seq |-> seq + 1, events |-> {calls}, parses |-> TRUE]
        BY <1>1, <2>1, <3>1, WrittenGrows
      <3>3. Len(file) = seq /\ durable = seq /\ \A i \in 1..Len(file) : file[i].parses /\ file[i].seq = i
        BY <1>1, <3>1 DEF Numbered
      <3>4. \A i \in 1..Len(file') : file'[i].parses /\ file'[i].seq = i
        BY <1>2, <3>2, <3>3
      <3> QED  BY <1>1, <1>2, <2>1, <3>2, <3>3, <3>4 DEF Numbered
    <2> QED  BY <2>1, <2>2, <2>3, <2>4 DEF JournalInv
  <1>5. CASE WriteFails
    <2>1. PICK partial \in BOOLEAN :
            /\ file' = IF partial THEN Written(FALSE) ELSE file
            /\ torn' = (torn \/ partial)
      BY <1>5 DEF WriteFails
    <2>2. failed' = TRUE /\ pc' = "idle"
      BY <1>5 DEF WriteFails
    <2>3. /\ file' \in Seq(Lines) /\ durable \in 0..Len(file')
          /\ \A i \in 1..durable : file[i].events \subseteq file'[i].events
      BY <1>2, <1>3, <2>1
    <2>4. torn' \in BOOLEAN /\ (torn' => Len(file') > 0)
      BY <1>1, <1>3, <2>1 DEF Typed, JournalTypeOK
    <2>5. Typed'
      BY <1>1, <2>2, <2>3, <2>4 DEF Typed, JournalTypeOK
    <2>6. Kept'
      BY <1>1, <2>2, <2>3, KeptByLines
    <2> QED  BY <2>2, <2>5, <2>6 DEF JournalInv
  <1> QED  BY <1>4, <1>5

LEMMA SyncStep ==
    ASSUME JournalInv, SyncLine
    PROVE  JournalInv'
  <1> DEFINE ack == [event |-> calls, seq |-> seq + 1]
  <1>1. /\ pc = "sync" /\ pc' = "return" /\ state = "open"
        /\ durable' = Len(file) /\ seq' = seq + 1 /\ acked' = Append(acked, ack)
        /\ UNCHANGED <<state, calls, file, torn, named, failed>>
    BY DEF SyncLine, Synced, NextSeq
  <1>2. /\ file \in Seq(Lines) /\ Len(file) \in Nat /\ durable \in 0..Len(file) /\ calls \in Events
        /\ seq \in Nat /\ acked \in Seq([event : Events, seq : Nat \ {0}])
    BY <1>1 DEF JournalInv, Typed, JournalTypeOK
  <1>3. /\ acked' \in Seq([event : Events, seq : Nat \ {0}]) /\ Len(acked') = Len(acked) + 1
        /\ \A k \in 1..Len(acked) : acked'[k] = acked[k]
        /\ acked'[Len(acked) + 1] = ack /\ Len(acked) \in Nat
    BY <1>1, <1>2
  <1>4. Typed'
    BY <1>1, <1>2, <1>3 DEF JournalInv, Typed, JournalTypeOK
  <1>5. \A e : InFile(e, durable) \/ e = calls => InFile(e, durable)'
    <2>1. InFile(calls, Len(file))
      BY <1>1 DEF JournalInv, Kept
    <2> QED  BY <1>1, <1>2, <2>1 DEF InFile
  <1>6. (\A k \in 1..Len(acked) : InFile(acked[k].event, durable))'
    <2>1. \A k \in 1..Len(acked) : InFile(acked[k].event, durable)
      BY DEF JournalInv, Kept
    <2>2. ASSUME NEW k \in 1..Len(acked')
          PROVE  InFile(acked[k].event, durable)'
      <3>1. CASE k \in 1..Len(acked)
        <4>1. InFile(acked[k].event, durable)' <=> InFile(acked[k].event, durable)' /\ acked'[k] = acked[k]
          BY <1>3, <3>1
        <4> QED  BY <1>3, <1>5, <2>1, <3>1, <4>1 DEF InFile
      <3>2. CASE k = Len(acked) + 1
        <4>1. acked'[k].event = calls
          BY <1>3, <3>2
        <4> QED  BY <1>5, <4>1 DEF InFile
      <3> QED  BY <1>3, <2>2, <3>1, <3>2
    <2> QED  BY <2>2
  <1>7. RawBeforeName' /\ InFile(calls, durable)'
    BY <1>1, <1>5 DEF JournalInv, Kept, RawBeforeName, InFile
  <1>8. Kept'
    BY <1>1, <1>6, <1>7 DEF Kept
  <1>9. ~failed => Numbered'
    BY <1>1, <1>2 DEF JournalInv, Numbered
  <1> QED  BY <1>1, <1>4, <1>8, <1>9 DEF JournalInv

LEMMA CrashStep ==
    ASSUME JournalInv, Crash
    PROVE  JournalInv'
  <1>1. PICK n \in durable..Len(file), cut \in BOOLEAN :
            /\ cut => n > durable
            /\ file' = [i \in 1..n |-> IF cut /\ i = n THEN [file[i] EXCEPT !.parses = FALSE] ELSE file[i]]
            /\ torn' = (cut \/ (torn /\ n = Len(file)))
    BY DEF Crash
  <1>2. state' = "crashed" /\ UNCHANGED <<pc, calls, seq, durable, acked, named, failed>>
    BY DEF Crash
  <1>3. /\ file \in Seq(Lines) /\ Len(file) \in Nat /\ durable \in 0..Len(file)
        /\ n \in Nat /\ n <= Len(file) /\ durable <= n
    BY DEF JournalInv, Typed, JournalTypeOK
  <1>4. \A i \in 1..n : file[i] \in Lines
    BY <1>3
  <1>5. \A i \in 1..n : /\ file'[i] \in Lines /\ file'[i].events = file[i].events
                        /\ file'[i].seq = file[i].seq
                        /\ i <= durable => file'[i] = file[i]
    <2> SUFFICES ASSUME NEW i \in 1..n
                 PROVE  /\ file'[i] \in Lines /\ file'[i].events = file[i].events
                        /\ file'[i].seq = file[i].seq
                        /\ i <= durable => file'[i] = file[i]
      OBVIOUS
    <2>1. CASE cut /\ i = n
      <3> DEFINE line == [file[i] EXCEPT !.parses = FALSE]
      <3>1. line \in Lines /\ line.events = file[i].events /\ line.seq = file[i].seq
        BY <1>4 DEF Lines
      <3>2. file'[i] = line
        BY <1>1, <2>1
      <3> HIDE DEF line
      <3>3. file'[i] \in Lines /\ file'[i].events = file[i].events /\ file'[i].seq = file[i].seq
        BY <3>1, <3>2
      <3>4. ~(i <= durable)
        BY <1>1, <1>3, <2>1
      <3> QED  BY <3>3, <3>4
    <2>2. CASE ~(cut /\ i = n)
      BY <1>1, <1>4, <2>2
    <2> QED  BY <2>1, <2>2
  <1>6. file' \in [1..n -> Lines]
    BY <1>1, <1>5
  <1>7. file' \in Seq(Lines) /\ Len(file') = n
    BY SMTT(30), <1>1, <1>3, <1>6, SeqDef
  <1>8. Typed'
    BY <1>1, <1>2, <1>3, <1>7 DEF JournalInv, Typed, JournalTypeOK
  <1>9. ~failed => Numbered'
    BY <1>2, <1>3, <1>5 DEF JournalInv, Numbered
  <1>10. Kept'
    BY <1>2, <1>3, <1>5, KeptByLines
  <1> QED  BY <1>2, <1>8, <1>9, <1>10 DEF JournalInv

-----------------------------------------------------------------------------
LEMMA QuietStep ==
    ASSUME JournalInv, BeginAppend \/ SyncFails \/ NameEvent \/ Close \/ UNCHANGED journalVars
    PROVE  JournalInv'
  <1>1. Typed /\ file' = file /\ durable' = durable /\ acked' = acked
    BY DEF JournalInv, BeginAppend, SyncFails, NameEvent, Close, journalVars
  <1>2. durable \in Nat /\ \A i \in 1..durable : file[i].events \subseteq file'[i].events
    BY <1>1 DEF Typed, JournalTypeOK
  <1>3. CASE BeginAppend
    <2>1. /\ pc = "idle" /\ pc' = "write" /\ calls' \in Events
          /\ UNCHANGED <<state, seq, file, torn, durable, acked, named, failed>>
      BY <1>1, <1>3, MaxAppendsAssumption DEF BeginAppend, Typed, JournalTypeOK, Events
    <2>2. Typed'
      BY <1>1, <2>1 DEF Typed, JournalTypeOK, Events
    <2>3. Kept'
      BY <1>2, <2>1, KeptByLines
    <2>4. ~failed => Numbered'
      BY <1>3, <2>1 DEF BeginAppend, JournalInv, Numbered
    <2> QED  BY <2>1, <2>2, <2>3, <2>4 DEF JournalInv
  <1>4. CASE SyncFails
    <2>1. /\ pc' = "idle" /\ failed' = TRUE
          /\ UNCHANGED <<state, calls, seq, file, torn, durable, acked, named>>
      BY <1>4 DEF SyncFails
    <2>2. Typed'
      BY <1>1, <2>1 DEF Typed, JournalTypeOK
    <2>3. Kept'
      BY <1>2, <2>1, KeptByLines
    <2> QED  BY <2>1, <2>2, <2>3 DEF JournalInv
  <1>5. CASE NameEvent
    <2>1. /\ state = "open" /\ pc = "return" /\ pc' = "idle" /\ named' = named \cup {calls}
          /\ UNCHANGED <<state, calls, seq, file, torn, durable, acked, failed>>
      BY <1>5 DEF NameEvent
    <2>2. Typed'
      BY <1>1, <2>1 DEF Typed, JournalTypeOK
    <2>3. InFile(calls, durable)
      BY <2>1 DEF JournalInv, Kept
    <2>4. RawBeforeName'
      BY <2>1, <2>3 DEF JournalInv, Kept, RawBeforeName, InFile
    <2>5. (\A k \in 1..Len(acked) : InFile(acked[k].event, durable))'
      BY <2>1 DEF JournalInv, Kept, InFile
    <2>6. Kept'
      BY <2>1, <2>4, <2>5 DEF Kept
    <2>7. ~failed => Numbered'
      BY <2>1 DEF JournalInv, Numbered
    <2> QED  BY <2>1, <2>2, <2>6, <2>7 DEF JournalInv
  <1>6. CASE Close
    <2>1. /\ state' = "closed" /\ pc = "idle" /\ state = "open"
          /\ UNCHANGED <<pc, calls, seq, file, torn, durable, acked, named, failed>>
      BY <1>6 DEF Close
    <2>2. Typed'
      BY <1>1, <2>1 DEF Typed, JournalTypeOK
    <2>3. Kept'
      BY <1>2, <2>1, KeptByLines
    <2>4. ~failed => Numbered'
      BY <2>1 DEF JournalInv, Numbered
    <2> QED  BY <2>1, <2>2, <2>3, <2>4 DEF JournalInv
  <1>7. CASE UNCHANGED journalVars
    BY <1>7 DEF journalVars, JournalInv, Typed, JournalTypeOK, Kept, RawBeforeName, InFile, Numbered, Lines
  <1> QED  BY <1>3, <1>4, <1>5, <1>6, <1>7

THEOREM JournalInvariant == JournalSpec => []JournalInv
  <1>1. JournalInv /\ [JournalNext]_journalVars => JournalInv'
    BY WriteStep, SyncStep, CrashStep, QuietStep DEF JournalNext, Ended
  <1> QED  BY <1>1, InitInv, PTL DEF JournalSpec

-----------------------------------------------------------------------------
(***************************************************************************)
(* The theorems.                                                           *)
(***************************************************************************)
(* The type invariant, for any number of appends (event.go:48-110).         *)
THEOREM JournalTyped == JournalSpec => []JournalTypeOK
  BY JournalInvariant, PTL DEF JournalInv, Typed

(* Whatever fails or crashes, a name is logged only for an event that no    *)
(* crash can take any more (event.go:45-46).                                *)
THEOREM NamesDurable == JournalSpec => []RawBeforeName
  BY JournalInvariant, PTL DEF JournalInv, Kept

(* A replay that reports success passed over no acknowledged event          *)
(* (event.go:113), even when appends failed and later ones continued the    *)
(* torn line: every line it visited parsed, and the acknowledged event is   *)
(* in one of them.                                                          *)
THEOREM ReplayComplete == JournalSpec => []ReplayIsComplete
  <1>1. JournalInv => ReplayIsComplete
    <2> SUFFICES ASSUME JournalInv, ReplaySucceeds, NEW k \in 1..Len(acked)
                 PROVE  acked[k].event \in Visited
      BY DEF ReplayIsComplete, AckedEvents
    <2>1. PICK i \in 1..durable : acked[k].event \in file[i].events
      BY DEF JournalInv, Kept, InFile
    <2>2. i \in 1..Len(file)
      BY <2>1 DEF JournalInv, Typed, JournalTypeOK
    <2>3. i \in VisitedLines /\ file[i].parses
      BY <2>2 DEF ReplaySucceeds, VisitedLines, Accepts
    <2> QED  BY <2>1, <2>3 DEF Visited
  <1> QED  BY <1>1, JournalInvariant, PTL

(* If no Append failed, every acknowledged event is replayed, after a crash *)
(* at any point too, and a closed capture replays to its end                *)
(* (event.go:113-158).                                                      *)
THEOREM UnfailedComplete == JournalSpec => []UnfailedReplays
  <1>1. JournalInv => UnfailedReplays
    <2> SUFFICES ASSUME JournalInv, ~failed PROVE UnfailedReplays
      BY DEF UnfailedReplays
    <2>1. /\ Numbered /\ Len(file) \in Nat /\ durable \in 0..Len(file)
      BY DEF JournalInv, Typed, JournalTypeOK
    <2>2. \A i \in 1..durable : Accepts(i)
      BY <2>1 DEF Numbered, Accepts, SeqBefore
    <2>3. \A i \in 1..durable : i \in VisitedLines /\ file[i].parses
      BY <2>1, <2>2 DEF VisitedLines, Accepts
    <2>4. AckedEvents \subseteq Visited
      <3> SUFFICES ASSUME NEW k \in 1..Len(acked) PROVE acked[k].event \in Visited
        BY DEF AckedEvents
      <3>1. PICK i \in 1..durable : acked[k].event \in file[i].events
        BY DEF JournalInv, Kept, InFile
      <3> QED  BY <2>3, <3>1 DEF Visited
    <2>5. state = "closed" => ReplaySucceeds
      <3> SUFFICES ASSUME state = "closed" PROVE ReplaySucceeds
        OBVIOUS
      <3>1. ~torn /\ durable = Len(file)
        BY <2>1 DEF Numbered, JournalInv, Typed, JournalTypeOK
      <3>2. VisitedLines = 1..Len(file)
        BY <2>3, <3>1 DEF VisitedLines
      <3> QED  BY <3>1, <3>2 DEF ReplaySucceeds
    <2> QED  BY <2>4, <2>5 DEF UnfailedReplays
  <1> QED  BY <1>1, JournalInvariant, PTL
=============================================================================
