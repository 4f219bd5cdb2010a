------------------------------ MODULE Recorder -------------------------------
(***************************************************************************)
(* What mjcap capture does with an event (emit in                          *)
(* internal/capture/observer.go): it is appended to the journal, and only  *)
(* if that succeeded does the callback name it.  Naming never touches the  *)
(* journal; all that the journal does to naming is to withhold an event    *)
(* whose Append failed, which also ends the capture.  For the names such a *)
(* frame is one that does not decode: it changes nothing of what is        *)
(* pending.  So the two are checked side by side, and a behaviour exercises*)
(* the one or the other.                                                   *)
(***************************************************************************)
EXTENDS Journal, Names

VARIABLE part       \* the part of emit that this behaviour exercises

vars == <<journalVars, namesVars, part>>

Init == JournalInit /\ NamesInit /\ part \in {"append", "name"}

AppendStep ==
    /\ part = "append"
    /\ JournalNext
    /\ UNCHANGED <<namesVars, part>>

NameStep ==
    /\ part = "name"
    /\ NamesNext
    /\ UNCHANGED <<journalVars, part>>

Next == AppendStep \/ NameStep

Spec == Init /\ [][Next]_vars
=============================================================================
