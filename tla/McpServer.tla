------------------------------ MODULE McpServer ------------------------------
(***************************************************************************)
(* mjcap mcp --listen (internal/cli/mcp.go): the token file, the HTTP      *)
(* server and the goroutine that shuts it down when the command is         *)
(* cancelled.  net/http stops listening at once when Shutdown is called,   *)
(* lets the requests under way finish for five seconds, and cuts nothing   *)
(* itself: what is left is cut when the process exits.                     *)
(***************************************************************************)
EXTENDS Naturals, FiniteSets

CONSTANTS Clients

VARIABLES
    token,          \* the token file: "absent", "empty" or "written"
    main,           \* runMCP: where it stands
    watcher,        \* the goroutine: "none", "waiting", "shutdown", "returned"
    cancelled,      \* the context of the command
    late,           \* the five seconds of the shutdown are over
    request         \* per client

serverVars == <<token, main, watcher, cancelled, late, request>>

ServerTypeOK ==
    /\ token \in {"absent", "empty", "written"}
    /\ main \in {"off", "read", "create", "write", "start", "listen", "serve", "closed", "failed"}
    /\ watcher \in {"none", "waiting", "shutdown", "returned"}
    /\ cancelled \in BOOLEAN
    /\ late \in BOOLEAN
    /\ request \in [Clients -> {"none", "active", "answered", "cut", "lost"}]

ServerInit ==
    /\ token \in {"absent", "empty", "written"}
    /\ main = "off" /\ watcher = "none"
    /\ cancelled = FALSE /\ late = FALSE
    /\ request = [c \in Clients |-> "none"]

Running == main # "off"

-----------------------------------------------------------------------------
(* The process is gone, and with it the goroutine and the connections; fate *)
(* is what becomes of the requests under way.                               *)
Gone(fate) ==
    /\ main' = "off" /\ watcher' = "none"
    /\ cancelled' = FALSE /\ late' = FALSE
    /\ request' = [c \in Clients |-> IF request[c] = "active" THEN fate ELSE request[c]]
Ends == Gone("cut")

Goes(next) == main' = next /\ UNCHANGED <<watcher, cancelled, late, request>>

StartServer ==
    /\ ~Running
    /\ main' = "read"
    /\ request' = [c \in Clients |-> "none"]
    /\ UNCHANGED <<token, watcher, cancelled, late>>

(***************************************************************************)
(* loadOrCreateToken.  os.WriteFile truncates the file before it writes it.*)
(***************************************************************************)
ReadToken ==
    /\ main = "read"
    /\ CASE token = "written" -> Goes("start")
         [] token = "absent" -> Goes("create")
         [] token = "empty" -> Ends
    /\ UNCHANGED token

CreateToken ==
    /\ main = "create"
    /\ token' = "empty"
    /\ Goes("write")

WriteToken ==
    /\ main = "write"
    /\ token' = "written"
    /\ Goes("start")

TokenFails ==
    /\ main \in {"read", "create", "write"}
    /\ Ends
    /\ UNCHANGED token

StartWatcher ==
    /\ main = "start"
    /\ watcher' = "waiting"
    /\ main' = "listen"
    /\ UNCHANGED <<token, cancelled, late, request>>

-----------------------------------------------------------------------------
(* ListenAndServe: it fails at once when the address is taken or the        *)
(* shutdown was faster, and returns when the shutdown begins.  Both ways    *)
(* the command waits for the goroutine.                                     *)
Listen ==
    /\ main = "listen"
    /\ \/ watcher = "waiting" /\ Goes("serve")
       \/ watcher = "waiting" /\ Goes("failed")
       \/ watcher # "waiting" /\ Goes("closed")
    /\ UNCHANGED token

ServeReturns ==
    /\ main = "serve"
    /\ watcher # "waiting"
    /\ Goes("closed")
    /\ UNCHANGED token

\* mutant: the command does not wait for the shutdown
Returned == TRUE
ShutdownReturned == watcher = "returned"

MainReturns ==
    /\ main \in {"closed", "failed"}
    /\ ShutdownReturned
    /\ Ends
    /\ UNCHANGED token

(***************************************************************************)
(* The goroutine: Shutdown waits until no request is active, but no longer *)
(* than five seconds.                                                      *)
(***************************************************************************)
BeginShutdown ==
    /\ watcher = "waiting"
    /\ cancelled
    /\ watcher' = "shutdown"
    /\ UNCHANGED <<token, main, cancelled, late, request>>

Active == {c \in Clients : request[c] = "active"}
\* mutant: Shutdown gets a context without a timeout
AllAnswered == Active = {}
MayReturn == Active = {} \/ late

ReturnShutdown ==
    /\ watcher = "shutdown"
    /\ MayReturn
    /\ watcher' = "returned"
    /\ UNCHANGED <<token, main, cancelled, late, request>>

TimeOut ==
    /\ watcher = "shutdown"
    /\ ~late
    /\ late' = TRUE
    /\ UNCHANGED <<token, main, watcher, cancelled, request>>

-----------------------------------------------------------------------------
(* The user and the clients.  A Ctrl-C may come before the goroutine is     *)
(* there to see it.                                                         *)
Cancel ==
    /\ Running
    /\ ~cancelled
    /\ cancelled' = TRUE
    /\ UNCHANGED <<token, main, watcher, late, request>>

Ask(c) ==
    /\ main = "serve"
    /\ watcher = "waiting"
    /\ request[c] # "active"
    /\ request' = [request EXCEPT ![c] = "active"]
    /\ UNCHANGED <<token, main, watcher, cancelled, late>>

Answer(c) ==
    /\ Running
    /\ request[c] = "active"
    /\ request' = [request EXCEPT ![c] = "answered"]
    /\ UNCHANGED <<token, main, watcher, cancelled, late>>

(* The token file is not synchronized: a power loss may also empty it.      *)
ServerLosesPower ==
    /\ token' \in IF token = "absent" THEN {"absent"} ELSE {"absent", "empty", token}
    /\ Gone("lost")

MainStep == ReadToken \/ CreateToken \/ WriteToken \/ TokenFails
            \/ StartWatcher \/ Listen \/ ServeReturns \/ MainReturns
WatcherStep == BeginShutdown \/ ReturnShutdown \/ TimeOut

ServerStep ==
    \/ MainStep
    \/ WatcherStep
    \/ Cancel
    \/ \E c \in Clients : Ask(c) \/ Answer(c)

-----------------------------------------------------------------------------
(***************************************************************************)
(* Properties                                                              *)
(***************************************************************************)
(* A request under way is cut only by a shutdown that had its five seconds: *)
(* the command never exits before its goroutine has let the requests finish *)
(* (mcp.go:73-83).                                                          *)
NoRequestCut == [][\A c \in Clients :
    request[c] = "active" /\ request'[c] = "cut" => cancelled /\ late]_serverVars

(* A cancelled command exits, also when it never got to listen, and when a  *)
(* request is never answered: fairness of runMCP, of the goroutine and of   *)
(* the timer, none of the clients (mcp.go:77-83).                           *)
CancelledExits == cancelled ~> ~Running
=============================================================================
