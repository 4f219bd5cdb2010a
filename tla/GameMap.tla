------------------------------- MODULE GameMap -------------------------------
(***************************************************************************)
(* What the store of games promises (internal/store/store.go): a map from  *)
(* the uuid of a game to its latest reconstruction.  A save replaces one   *)
(* entry in one step; a power loss may bring back an entry that was        *)
(* replaced since the directory was last synchronized, and nothing else.   *)
(***************************************************************************)
CONSTANTS
    Uuids,
    Games,          \* Games[u]: the complete reconstructions of game u
    None            \* no game

VARIABLES
    games,          \* the entry of every uuid
    survivors       \* the entries a power loss may leave for a uuid

vars == <<games, survivors>>

Init ==
    /\ games \in [Uuids -> (UNION {Games[u] : u \in Uuids}) \cup {None}]
    /\ \A u \in Uuids : games[u] \in Games[u] \cup {None}
    /\ survivors = [u \in Uuids |-> {games[u]}]

Put(u) == \E g \in Games[u] :
    /\ games' = [games EXCEPT ![u] = g]
    /\ survivors' = [survivors EXCEPT ![u] = @ \cup {g}]

Settle ==
    /\ survivors' = [u \in Uuids |-> {games[u]}]
    /\ UNCHANGED games

PowerLoss ==
    /\ DOMAIN games' = Uuids
    /\ \A u \in Uuids : games'[u] \in survivors[u]
    /\ survivors' = [u \in Uuids |-> {games'[u]}]

Next == (\E u \in Uuids : Put(u)) \/ Settle \/ PowerLoss

Spec == Init /\ [][Next]_vars
=============================================================================
