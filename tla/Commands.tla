------------------------------- MODULE Commands ------------------------------
(***************************************************************************)
(* The commands of mjcap (cli.Run in internal/cli/cli.go) that share the   *)
(* schema cache, several at a time, and mjcap mcp.  The two groups share no*)
(* state, so a behaviour runs the one or the other; a power loss ends them *)
(* all.                                                                    *)
(***************************************************************************)
EXTENDS SchemaCache, McpServer

VARIABLE menu       \* the commands the user starts: "cache" or "mcp"

vars == <<cacheVars, serverVars, menu>>

Init == CacheInit /\ ServerInit /\ menu \in {"cache", "mcp"}

Run(p) == StartFetch(p) \/ StartIngest(p) \/ StartIngestDefault(p) \/ StartDecode(p)

CacheNext ==
    /\ menu = "cache"
    /\ \/ \E p \in Procs : Run(p) \/ Step(p)
       \/ Release
       \/ Republish
    /\ UNCHANGED <<serverVars, menu>>

RunServer ==
    /\ menu = "mcp"
    /\ left > 0
    /\ left' = left - 1
    /\ StartServer
    /\ UNCHANGED <<schemas, origin, files, onDisk, proc, captured, menu>>

Serves(step) == menu = "mcp" /\ step /\ UNCHANGED <<cacheVars, menu>>

PowerLoss == CacheLosesPower /\ ServerLosesPower /\ UNCHANGED menu

Next ==
    \/ CacheNext
    \/ RunServer
    \/ Serves(ServerStep)
    \/ PowerLoss

Fairness == WF_vars(Serves(MainStep)) /\ WF_vars(Serves(WatcherStep))

Spec == Init /\ [][Next]_vars /\ Fairness

TypeOK == CacheTypeOK /\ ServerTypeOK /\ menu \in {"cache", "mcp"}
=============================================================================
