--------------------------- MODULE ControlClients ---------------------------
(***************************************************************************)
(* The clients of the daemon: MCP servers that coding agents talk to, and  *)
(* rementorctl commands.  A tool or a command is a sequence of RPCs, each  *)
(* served atomically by the registry, except the registrations and the     *)
(* removals of an environment and the creation of one, which the service   *)
(* reads before it writes; the RPCs of other clients come between any two  *)
(* of them.  A request is for an environment or, with a selector, for one  *)
(* of its routing sessions.                                                *)
(*                                                                         *)
(* A routing scope, an environment or a session, has at most one           *)
(* application, with a remote target; what a client registers of it is its *)
(* port.  Route plans, transactions and session merges have modules of     *)
(* their own (RouteTransaction, RoutingSessions).                          *)
(***************************************************************************)
EXTENDS Integers, FiniteSets

CONSTANTS
    Environments, Sessions,
    Parent,         \* the environment of a session
    Agents,         \* MCP servers
    Commands,       \* rementorctl processes
    Ports,
    None,
    General,        \* a selector that is given, and empty
    Stored,         \* the scopes that the daemon has loaded
    Calls,          \* what MCP agents ask for
    CommandLines,   \* what rementorctl is started with
    Homes,          \* the values of REMENTOR_SESSION, by client
    Protocols,      \* the values of mcp --protocol
    MaxCalls        \* bound on the calls of all clients

Clients == Agents \cup Commands
Scopes == Environments \cup Sessions
Apps == [port : Ports \cup {None}, active : BOOLEAN]
Scope == [app : Apps \cup {None}, version : Nat]
McpTools == {"get", "register", "announce", "unregister", "set_route", "toggle", "set_all",
             "session_create", "session_close"}
CliTools == {"cli register", "cli announce", "cli toggle", "unregister", "workspace delete",
             "session_create", "session_close"}
SessionTools == {"session_create", "session_close"}
Announcements == {"announce", "cli announce"}
Request == [tool : McpTools \cup CliTools, ws : Scopes,
            session : Sessions \cup {None, General}, port : Ports, local : BOOLEAN]

ASSUME ParentAssumption == Parent \in [Sessions -> Environments]
(* What an earlier daemon saved: DeleteWorkspace kept the environments.     *)
ASSUME StoredAssumption ==
    /\ Stored \in [Scopes -> Scope \cup {None}]
    /\ \A s \in Sessions : Stored[s] # None => Stored[Parent[s]] # None
ASSUME RequestsAssumption ==
    /\ Calls \cup CommandLines \subseteq Request
    /\ \A r \in Calls : r.tool \in McpTools
    /\ \A r \in CommandLines : r.tool \in CliTools
    /\ \A r \in Calls \cup CommandLines :
            r.tool \in Announcements \cup {"session_create"} => r.ws \in Environments
ASSUME HomesAssumption == Homes \subseteq [Clients -> Sessions \cup {None}]
ASSUME NamesAssumption ==
    /\ Agents \cap Commands = {} /\ Environments \cap Sessions = {}
    /\ None \notin Scopes \cup Ports /\ General \notin Sessions \cup {None}
    /\ None \notin Apps /\ None \notin Scope /\ None \notin Request
ASSUME BoundAssumption == MaxCalls \in Nat
ASSUME ProtocolsAssumption == Protocols \subseteq {"auto", "modern", "legacy"}

VARIABLES
    scopes,     \* Registry.workspaces
    clock,      \* Registry.nextRouteVersion
    opened,     \* sessions whose id has been given out
    home,       \* REMENTOR_SESSION of each client
    selector,   \* SessionID of its Client
    mode,       \* mcpServer.mode
    spoken,     \* history: the forms of a server's protocol-bearing results
    call,       \* the request under way, or the last one
    seen,       \* history: the applications its scope had during the call
    touched,    \* history: the scopes its RPCs were served from
    calls

serverVars == <<scopes, clock, opened>>
protocolVars == <<mode, spoken>>
clientVars == <<home, selector, protocolVars, calls>>
vars == <<serverVars, clientVars, call, seen, touched>>

-----------------------------------------------------------------------------
(* Requests and answers.                                                    *)

(* The session selector of a request: the tool's argument or --session,     *)
(* which may be empty, over the default of the process.  The session tools  *)
(* have a client without one.                                               *)
Selection(default, req) ==
    IF req.tool \in SessionTools THEN None
    ELSE IF req.session = None THEN default
    ELSE IF req.session = General THEN None ELSE req.session

(* Mutant: a stale or foreign selector falls back to the environment.       *)
ResolvedLoosely(ws, session) ==
    IF session # None /\ scopes[session] # None /\ ws \in {Parent[session], session}
    THEN session ELSE ws

(* selectSession and ResolveSession: the scope of an RPC, None for an error.*)
Resolved(ws, session) ==
    IF session = None THEN ws
    ELSE IF scopes[session] # None /\ ws \in {Parent[session], session} THEN session
    ELSE None

(* The scope that a client means with its request, None if no scope is.     *)
Meant(c) ==
    LET req == call[c].req
        session == Selection(home[c], req)
    IN  IF session = None THEN req.ws
        ELSE IF req.tool \notin Announcements /\ req.ws \in {Parent[session], session}
        THEN session ELSE None

At(c, label) == call[c].at = label
Running(c) == call[c].at \notin {"idle", "done"}
Asks(c) == call[c].req
Goal(c) == Resolved(Asks(c).ws, call[c].session)
AppIn(scope) == IF scope = None THEN None ELSE scope.app
App(c) == AppIn(scopes[Goal(c)])
Missing(c) == scopes[Goal(c)] = None

(* The first RPC of an MCP tool ...                                         *)
FirstOfTool(tool) ==
    CASE tool = "get"            -> "get"
      [] tool = "register"       -> "compare"
      [] tool = "announce"       -> "ensure"
      [] tool = "unregister"     -> "remove"
      [] tool = "set_route"      -> "route"
      [] tool = "toggle"         -> "before"
      [] tool = "set_all"        -> "set all"
      [] tool = "session_create" -> "open"
      [] tool = "session_close"  -> "inspect"

(* ... and of a rementorctl command.                                        *)
FirstOfCommand(tool) ==
    CASE tool = "cli register"     -> "upsert"
      [] tool = "cli announce"     -> "ensure"
      [] tool = "cli toggle"       -> "flip"
      [] tool = "unregister"       -> "remove"
      [] tool = "workspace delete" -> "drop"
      [] tool = "session_create"   -> "open"
      [] tool = "session_close"    -> "inspect"

NoCall == [at |-> "idle", req |-> None, session |-> None, app |-> None, base |-> 0, ok |-> FALSE]

(* The fate of an RPC for its caller.  The answer to a change can be lost.  *)
Goes(c, label) == call' = [call EXCEPT ![c].at = label]
Ends(c, ok, app) ==
    call' = [call EXCEPT ![c] = [@ EXCEPT !.at = "done", !.ok = ok, !.app = app, !.base = 0]]
Fails(c) == Ends(c, FALSE, None)
Answers(c, app) == Ends(c, TRUE, app)

(* An RPC of c with a good selector, and what its answer is taken from.     *)
Serves(c, label) ==
    /\ At(c, label)
    /\ Goal(c) # None
    /\ touched' = [touched EXCEPT ![c] = @ \cup {Goal(c)}]
    /\ UNCHANGED clientVars

Reads(c, label) == Serves(c, label) /\ UNCHANGED <<serverVars, seen>>

(* A mutation gives scope s the next version.  The calls under way that are *)
(* about s could have seen it.                                              *)
Commit(s, scope) ==
    /\ clock' = clock + 1
    /\ scopes' = [scopes EXCEPT ![s] = scope]
    /\ seen' = [c \in Clients |->
        IF Running(c) /\ Meant(c) = s THEN seen[c] \cup {AppIn(scope)} ELSE seen[c]]

Publish(s, app) ==
    Commit(s, [app |-> app, version |-> clock + 1]) /\ UNCHANGED opened

-----------------------------------------------------------------------------
(* RPCs that read.                                                          *)

(* GetApplication, as the whole of app_get, or at the end of a tool.        *)
GetApplication(c) ==
    \E label \in {"get", "after"} :
        /\ Reads(c, label)
        /\ IF App(c) = None THEN Fails(c) ELSE Answers(c, App(c))

(* Where a registration goes on, once the application is known: announce    *)
(* activates it, unless no_activate.                                        *)
Registered(c, app) ==
    IF Asks(c).tool \in Announcements /\ Asks(c).local
    THEN Goes(c, IF Asks(c).tool = "announce" THEN "route" ELSE "look")
    ELSE Answers(c, app)

(* Mutant: the comparison forgets the port.                                 *)
UnchangedPortless(app, req) == app # None

(* upsertApp: the input says what is registered already.                    *)
Unchanged(app, req) == app # None /\ app.port = req.port

(* registerApp compares with the workspace before it upserts.               *)
Compare(c) ==
    /\ Reads(c, "compare")
    /\ IF Missing(c) THEN Fails(c)
       ELSE Goes(c, IF Unchanged(App(c), Asks(c)) THEN "confirm" ELSE "upsert")

(* Its GetApplication, and the service's reading of what it has registered. *)
Confirm(c) ==
    \E label \in {"confirm", "view"} :
        /\ Reads(c, label)
        /\ IF App(c) = None THEN Fails(c) ELSE Registered(c, App(c))

(* ensureWorkspace: rementorctl goes straight to the registration.          *)
Ensured(c) == Goes(c, IF Asks(c).tool = "announce" THEN "compare" ELSE "upsert")

Ensure(c) ==
    /\ Reads(c, "ensure")
    /\ IF Missing(c) THEN Goes(c, "create") ELSE Ensured(c)

(* CreateWorkspace of the service looks for the workspace (409); only       *)
(* rementorctl then gets it again.                                          *)
CheckNew(c) ==
    /\ Reads(c, "create")
    /\ IF Missing(c) THEN Goes(c, "creating")
       ELSE IF Asks(c).tool = "cli announce" THEN Goes(c, "again")
       ELSE Fails(c)

EnsureAgain(c) ==
    /\ Reads(c, "again")
    /\ IF Missing(c) THEN Fails(c) ELSE Ensured(c)

(* setRoute and toggleApp begin with the application as it is.              *)
GetRoute(c) ==
    /\ Reads(c, "route")
    /\ IF App(c) = None THEN Fails(c)
       ELSE IF App(c).active = Asks(c).local THEN Answers(c, App(c))
       ELSE Goes(c, "plan")

GetBefore(c) ==
    /\ Reads(c, "before")
    /\ IF App(c) = None THEN Fails(c) ELSE Goes(c, "flip")

(* AnnounceCmd toggles an application that it finds remote.                 *)
Look(c) ==
    /\ Reads(c, "look")
    /\ IF App(c) = None THEN Fails(c)
       ELSE IF App(c).active THEN Answers(c, App(c))
       ELSE Goes(c, "flip")

(* PlanRoute: the plan is for the version it saw.                           *)
PlanRoute(c) ==
    /\ Reads(c, "plan")
    /\ IF App(c) = None THEN Fails(c)
       ELSE call' = [call EXCEPT ![c].at = "apply", ![c].base = scopes[Goal(c)].version]

-----------------------------------------------------------------------------
(* RPCs that change something.                                              *)

(* CreateWorkspace of the registry looks again, under its lock.             *)
CreateWorkspace(c) ==
    /\ Serves(c, "creating")
    /\ IF Missing(c)
       THEN Publish(Goal(c), None) /\ (Ensured(c) \/ Fails(c))
       ELSE Fails(c) /\ UNCHANGED <<serverVars, seen>>

(* UpsertApplication of a session is one mutation (EditSessionApplication). *)
UpsertSession(c) ==
    /\ Serves(c, "upsert")
    /\ Goal(c) \in Sessions
    /\ IF Missing(c)
       THEN Fails(c) /\ UNCHANGED <<serverVars, seen>>
       ELSE /\ Publish(Goal(c), [port |-> Asks(c).port,
                                 active |-> App(c) # None /\ App(c).active])
            /\ Goes(c, "view") \/ Fails(c)

(* Of an environment, the service reads the applications and then saves     *)
(* them with the new one, whatever happened between.                        *)
UpsertRead(c) ==
    /\ Reads(c, "upsert")
    /\ Goal(c) \in Environments
    /\ IF Missing(c) THEN Fails(c)
       ELSE call' = [call EXCEPT ![c].at = "save", ![c].app = App(c)]

UpsertSave(c) ==
    /\ Serves(c, "save")
    /\ IF Missing(c)
       THEN Fails(c) /\ UNCHANGED <<serverVars, seen>>
       ELSE LET old == IF App(c) # None THEN App(c) ELSE call[c].app
            IN  /\ Publish(Goal(c), [port |-> Asks(c).port,
                                     active |-> old # None /\ old.active])
                /\ Goes(c, "view") \/ Fails(c)

(* DeleteApplication, likewise.                                             *)
RemoveFromSession(c) ==
    /\ Serves(c, "remove")
    /\ Goal(c) \in Sessions
    /\ IF App(c) = None
       THEN Fails(c) /\ UNCHANGED <<serverVars, seen>>
       ELSE Publish(Goal(c), None) /\ (Answers(c, None) \/ Fails(c))

RemoveRead(c) ==
    /\ Reads(c, "remove")
    /\ Goal(c) \in Environments
    /\ IF App(c) = None THEN Fails(c) ELSE Goes(c, "removing")

RemoveSave(c) ==
    /\ Serves(c, "removing")
    /\ IF Missing(c)
       THEN Fails(c) /\ UNCHANGED <<serverVars, seen>>
       ELSE Publish(Goal(c), None) /\ (Answers(c, None) \/ Fails(c))

(* ApplyRoute of the plan: a version conflict, nothing to do, or the route. *)
ApplyRoute(c) ==
    /\ Serves(c, "apply")
    /\ IF App(c) = None \/ (~ Missing(c) /\ scopes[Goal(c)].version # call[c].base)
       THEN Fails(c) /\ UNCHANGED <<serverVars, seen>>
       ELSE IF App(c).active = Asks(c).local
       THEN Goes(c, "after") /\ UNCHANGED <<serverVars, seen>>
       ELSE /\ Publish(Goal(c), [App(c) EXCEPT !.active = Asks(c).local])
            /\ Goes(c, "after") \/ Fails(c)

ToggleApplication(c) ==
    /\ Serves(c, "flip")
    /\ IF App(c) = None
       THEN Fails(c) /\ UNCHANGED <<serverVars, seen>>
       ELSE LET flipped == [App(c) EXCEPT !.active = ~ @]
            IN  Publish(Goal(c), flipped) /\ (Answers(c, flipped) \/ Fails(c))

(* ToggleAllToLocal and ToggleAllToRemote pass over applications without a  *)
(* port.                                                                    *)
SetAll(c) ==
    /\ Serves(c, "set all")
    /\ IF Missing(c)
       THEN Fails(c) /\ UNCHANGED <<serverVars, seen>>
       ELSE LET app == IF App(c) = None \/ App(c).port = None THEN App(c)
                       ELSE [App(c) EXCEPT !.active = Asks(c).local]
            IN  Publish(Goal(c), app) /\ (Answers(c, app) \/ Fails(c))

(* CreateRoutingSession: a new id, the environment's application without    *)
(* its port, and routed to the remote.                                      *)
OpenSession(c) ==
    /\ Serves(c, "open")
    /\ IF Missing(c)
       THEN Fails(c) /\ UNCHANGED <<serverVars, seen>>
       ELSE \E s \in Sessions \ opened :
            /\ Parent[s] = Goal(c)
            /\ Commit(s, [version |-> clock + 1,
                          app |-> IF App(c) = None THEN None
                                  ELSE [port |-> None, active |-> FALSE]])
            /\ opened' = opened \cup {s}
            /\ Answers(c, None) \/ Fails(c)

InspectSession(c) ==
    /\ Reads(c, "inspect")
    /\ IF Missing(c) \/ Goal(c) \notin Sessions THEN Fails(c) ELSE Goes(c, "drop")

(* Mutant: a delete does not look for the environment's sessions.           *)
DeleteWorkspaceAnyway(c) ==
    /\ Serves(c, "drop")
    /\ IF Missing(c)
       THEN Fails(c) /\ UNCHANGED <<serverVars, seen>>
       ELSE /\ Commit(Goal(c), None)
            /\ UNCHANGED opened
            /\ Answers(c, None) \/ Fails(c)

(* DeleteWorkspace keeps an environment while it has sessions.              *)
DeleteWorkspace(c) ==
    /\ Serves(c, "drop")
    /\ IF Missing(c) \/ \E s \in Sessions : scopes[s] # None /\ Parent[s] = Goal(c)
       THEN Fails(c) /\ UNCHANGED <<serverVars, seen>>
       ELSE /\ Commit(Goal(c), None)
            /\ UNCHANGED opened
            /\ Answers(c, None) \/ Fails(c)

(* An RPC with a selector that is stale or of another environment fails, as *)
(* does any RPC when the daemon cannot serve it.                            *)
RpcFails(c) ==
    /\ Running(c)
    /\ Fails(c)
    /\ UNCHANGED <<serverVars, clientVars, seen, touched>>

Rpc(c) ==
    \/ GetApplication(c) \/ Compare(c) \/ Confirm(c) \/ Ensure(c) \/ CheckNew(c)
    \/ EnsureAgain(c) \/ GetRoute(c) \/ GetBefore(c) \/ Look(c) \/ PlanRoute(c)
    \/ CreateWorkspace(c) \/ UpsertSession(c) \/ UpsertRead(c) \/ UpsertSave(c)
    \/ RemoveFromSession(c) \/ RemoveRead(c) \/ RemoveSave(c)
    \/ ApplyRoute(c) \/ ToggleApplication(c) \/ SetAll(c)
    \/ OpenSession(c) \/ InspectSession(c) \/ DeleteWorkspace(c) \/ RpcFails(c)

-----------------------------------------------------------------------------
(* The MCP server and its protocol.                                         *)

Methods == {"initialize", "server/discover", "ping", "tools/list", "tools/call"}

(* The _meta of a request: without a version, the modern one, or one that   *)
(* names another version or lacks the capabilities.                         *)
Metas == {"none", "modern", "unsupported"}

(* Mutant: the first protocol-bearing request is not remembered.            *)
NextModeForgotten(a, method, meta) == mode[a]

(* selectProtocolMode: the mode from this request on ...                    *)
NextMode(a, method, meta) ==
    IF mode[a] # "auto" THEN mode[a]
    ELSE IF method = "initialize" THEN "legacy"
    ELSE IF method = "server/discover" \/ meta # "none" THEN "modern"
    ELSE "auto"

(* ... and of this request: without a sign of the protocol it is legacy.    *)
FormOf(a, method, meta) ==
    IF mode[a] # "auto" THEN mode[a]
    ELSE IF method = "initialize" THEN "legacy"
    ELSE IF method = "server/discover" \/ meta # "none" THEN "modern"
    ELSE "legacy"

(* Whether handle gets as far as the method, and knows it.                  *)
Understood(form, method, meta) ==
    IF form = "modern"
    THEN meta = "modern" /\ method \notin {"initialize", "ping"}
    ELSE meta = "none" /\ method # "server/discover"

Bearing(method, meta) == method \in {"initialize", "server/discover"} \/ meta # "none"

(* The protocol's part of a request, answered in the form it selects.       *)
Speaks(a, method, meta) ==
    LET form == FormOf(a, method, meta)
    IN  /\ mode' = [mode EXCEPT ![a] = NextMode(a, method, meta)]
        /\ spoken' = [spoken EXCEPT ![a] =
                IF Understood(form, method, meta) /\ Bearing(method, meta)
                THEN @ \cup {form} ELSE @]

(* A request that needs no RPC, or is refused.                              *)
Handle(a) ==
    \E method \in Methods, meta \in Metas :
        /\ ~ Running(a)
        /\ method = "tools/call" => ~ Understood(FormOf(a, method, meta), method, meta)
        /\ Speaks(a, method, meta)
        /\ UNCHANGED <<serverVars, home, selector, call, seen, touched, calls>>

(* A call begins, with the client of the call's own selector; an announce   *)
(* is not for sessions (handleToolCall, main).                              *)
Begins(c, req, session) ==
    /\ calls < MaxCalls
    /\ ~ Running(c)
    /\ calls' = calls + 1
    /\ call' = [call EXCEPT ![c] =
            [NoCall EXCEPT !.req = req, !.session = session,
                           !.at = IF session # None /\ req.tool \in Announcements
                                  THEN "done"
                                  ELSE IF c \in Agents THEN FirstOfTool(req.tool)
                                  ELSE FirstOfCommand(req.tool)]]
    /\ touched' = [touched EXCEPT ![c] = {}]
    /\ seen' = [seen EXCEPT ![c] =
            LET scope == Resolved(req.ws, session)
            IN  IF scope = None THEN {} ELSE {AppIn(scopes[scope])}]
    /\ UNCHANGED <<serverVars, home>>

(* Mutant: the call's selector is set on the client of the server.          *)
CallToolShared(a) ==
    \E req \in Calls, meta \in Metas :
        /\ Understood(FormOf(a, "tools/call", meta), "tools/call", meta)
        /\ Speaks(a, "tools/call", meta)
        /\ Begins(a, req, Selection(selector[a], req))
        /\ selector' = [selector EXCEPT ![a] = Selection(selector[a], req)]

CallTool(a) ==
    \E req \in Calls, meta \in Metas :
        /\ Understood(FormOf(a, "tools/call", meta), "tools/call", meta)
        /\ Speaks(a, "tools/call", meta)
        /\ Begins(a, req, Selection(selector[a], req))
        /\ UNCHANGED selector

(* The server ends when its input does, or cannot be read; the harness      *)
(* starts another one.                                                      *)
StartServer(a) ==
    /\ ~ Running(a)
    /\ \E protocol \in Protocols : mode' = [mode EXCEPT ![a] = protocol]
    /\ spoken' = [spoken EXCEPT ![a] = {}]
    /\ selector' = [selector EXCEPT ![a] = home[a]]
    /\ UNCHANGED <<serverVars, home, call, seen, touched, calls>>

(* A rementorctl command.                                                   *)
RunCommand(c) ==
    \E req \in CommandLines :
        /\ Begins(c, req, Selection(home[c], req))
        /\ UNCHANGED <<selector, protocolVars>>

-----------------------------------------------------------------------------
Init ==
    /\ scopes = Stored
    /\ clock \in {n \in 0 .. 1 : \A s \in Scopes : Stored[s] # None => Stored[s].version <= n}
    /\ opened = {s \in Sessions : Stored[s] # None}
    /\ home \in Homes
    /\ selector = home
    /\ mode \in [Agents -> Protocols]
    /\ spoken = [a \in Agents |-> {}]
    /\ call = [c \in Clients |-> NoCall]
    /\ seen = [c \in Clients |-> {}]
    /\ touched = [c \in Clients |-> {}]
    /\ calls = 0

Next ==
    \/ \E c \in Clients : Rpc(c)
    \/ \E a \in Agents : Handle(a) \/ CallTool(a) \/ StartServer(a)
    \/ \E c \in Commands : RunCommand(c)

Spec == Init /\ [][Next]_vars

-----------------------------------------------------------------------------
(* Properties.                                                              *)

Labels == {"idle", "done", "get", "after", "compare", "confirm", "view", "ensure", "create",
           "again", "creating", "route", "before", "look", "plan", "apply", "flip", "set all",
           "upsert", "save", "remove", "removing", "open", "inspect", "drop"}

(* Types, with no version above the clock, and an environment for every     *)
(* session.                                                                 *)
TypeOK ==
    /\ scopes \in [Scopes -> Scope \cup {None}]
    /\ clock \in Nat
    /\ \A s \in Scopes : scopes[s] # None => scopes[s].version <= clock
    /\ \A s \in Sessions : scopes[s] # None => s \in opened /\ scopes[Parent[s]] # None
    /\ opened \subseteq Sessions
    /\ home \in [Clients -> Sessions \cup {None}]
    /\ selector \in [Clients -> Sessions \cup {None}]
    /\ mode \in [Agents -> {"auto", "modern", "legacy"}]
    /\ spoken \in [Agents -> SUBSET {"modern", "legacy"}]
    /\ call \in [Clients -> [at : Labels, req : Request \cup {None}, session : Sessions \cup {None},
                             app : Apps \cup {None}, base : Nat, ok : BOOLEAN]]
    /\ \A c \in Clients : call[c].at # "idle" => call[c].req # None
    /\ seen \in [Clients -> SUBSET (Apps \cup {None})]
    /\ touched \in [Clients -> SUBSET Scopes]
    /\ calls \in 0 .. MaxCalls

(* A request is served from the scope it means and from no other: the       *)
(* selector of an earlier call is forgotten, and one that is stale or of    *)
(* another environment reaches nothing (handleToolCall: "no request changes *)
(* another agent's context", ResolveSession: "never falls back").           *)
CallsStayInScope ==
    \A c \in Clients : \A s \in touched[c] : s = Meant(c)

(* A tool or command that succeeds tells what was so during the call, in    *)
(* its scope, however other clients interleave: the port was registered,    *)
(* the route was the requested one, the application was away, and it was as *)
(* the answer shows it.                                                     *)
AnswersAreTrue ==
    \A c \in Clients : At(c, "done") /\ call[c].ok =>
        LET req == Asks(c)
        IN  /\ req.tool \in Announcements \cup {"register", "cli register"} =>
                    \E app \in seen[c] \ {None} : app.port = req.port
            /\ req.tool = "set_route" \/ (req.tool \in Announcements /\ req.local) =>
                    \E app \in seen[c] \ {None} : app.active = req.local
            /\ req.tool = "unregister" => None \in seen[c]
            /\ req.tool \notin SessionTools \cup {"workspace delete"} => call[c].app \in seen[c]

(* A server answers the requests that bear a protocol in one form until it  *)
(* ends, so a harness that was initialized is not switched to the stateless *)
(* protocol, nor the other way round (selectProtocolMode).                  *)
OneProtocol == \A a \in Agents : spoken[a] \subseteq {mode[a]}

=============================================================================
