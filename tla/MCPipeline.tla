----------------------------- MODULE MCPipeline -----------------------------
(* Two games and two accounts that both sat at the first one.               *)
EXTENDS Pipeline

CONSTANTS u1, u2, a1, a2

MCSeatOf == [u \in Uuids |-> [a \in Accounts |->
    IF a = a1 THEN 0 ELSE IF u = u1 THEN 1 ELSE None]]
MCFilters == {None, u1}
MCEarlier == {<< >>, << <<>>, <<a2, a1>>, <<a1>> >>}
=============================================================================
