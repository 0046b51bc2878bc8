---------------------------- MODULE McpRegistry ----------------------------
(***************************************************************************)
(* MCP servers and their tools: the registry and its API (mcp/registry.py, *)
(* api/routes/mcp_servers.py), and the engine that offers the tools to a   *)
(* run under names it chooses (runtime/engine.py, mcp/tools.py).           *)
(*                                                                         *)
(* Administrative requests overlap and write, from copies they read        *)
(* earlier, the columns they changed.  An engine instance reads the        *)
(* enabled tools once; the names a run has unlocked are persisted with the *)
(* run and outlive the instance.                                           *)
(***************************************************************************)
EXTENDS Naturals, FiniteSets

CONSTANTS Server,
          ToolName,      \* names of tools as servers report them
          Builtin,       \* names of the engine's own tools
          CanonicalName, \* CanonicalName[<<s, t>>]: server and tool as one name
          Admin,         \* concurrent administrative requests
          Tier,          \* risk tiers
          NULL,
          Required,      \* sets of names that a skill's revision requires
          MaxRequests,   \* bound: administrative requests
          MaxChanges,    \* bound: changes of what servers report
          MaxEngines     \* bound: engine instances that drive the run

Pair == Server \X ToolName
Name == ToolName \cup Builtin \cup {CanonicalName[p] : p \in Pair}

(* Rows of mcp_servers and mcp_tools; an engine instance and its MCP tools *)
ServerRow == [enabled : BOOLEAN, tier : Tier, health : {"unknown", "healthy", "unhealthy"}]
ToolRow   == [enabled : BOOLEAN, tier : Tier]
Loaded    == [pair : Pair, tier : Tier]
Engine    == [loaded : BOOLEAN, tools : [Name -> Loaded \cup {NULL}]]

ASSUME McpAssumption ==
  /\ IsFiniteSet(Pair)
  /\ Required \subseteq SUBSET Name
  /\ NULL \notin Server /\ NULL \notin Pair /\ NULL \notin Name /\ NULL \notin Tier
  /\ NULL \notin {"refresh", "upsert"}
  /\ NULL \notin ServerRow \cup ToolRow \cup Loaded \cup Engine
  /\ MaxRequests \in Nat /\ MaxChanges \in Nat /\ MaxEngines \in Nat

VARIABLES server,  \* mcp_servers: enabled, default_risk_tier, health; NULL if there is none
          tool,    \* mcp_tools: enabled and risk_tier; NULL if there is none
          reports, \* reports[s]: the tools the server has now
          req,     \* req[a]: the open request of administrator a
          engine,  \* tools_by_name of the running instance; NULL if there is none
          active,  \* the run's active_tool_names
          called,  \* history: the MCP tools the running instance called
          seen,    \* history: enabled tools and their tiers since the instance began
          requests, changes, engines

vars     == <<server, tool, reports, req, engine, active, called, seen, requests, changes, engines>>
registry == <<server, tool, req>>
bounds   == <<requests, changes, engines>>
run      == <<engine, active, called, engines>>

NoRequest == [op |-> NULL, server |-> NULL, old |-> NULL, found |-> {}, rows |-> NULL]

(* Mutant: list_tools looks at the tool only. *)
ToolEnabled == {p \in Pair : tool[p] # NULL /\ tool[p].enabled}

(* list_tools: all enabled tools of all enabled servers *)
Enabled == {p \in Pair : /\ server[p[1]] # NULL /\ server[p[1]].enabled
                         /\ tool[p] # NULL /\ tool[p].enabled}

Init ==
  /\ server = [s \in Server |-> NULL]
  /\ tool = [p \in Pair |-> NULL]
  /\ reports = [s \in Server |-> ToolName]
  /\ req = [a \in Admin |-> NoRequest]
  /\ engine = NULL /\ active = {} /\ called = {} /\ seen = {}
  /\ requests = 0 /\ changes = 0 /\ engines = 0
-----------------------------------------------------------------------------
Request == requests < MaxRequests /\ requests' = requests + 1
Close(a) == req' = [req EXCEPT ![a] = NoRequest]

(* A row of mcp_servers as it is registered *)
NewServer(tier) == [enabled |-> TRUE, tier |-> tier, health |-> "unknown"]

RegisterServer(s, tier) ==
  /\ Request
  /\ server[s] = NULL
  /\ server' = [server EXCEPT ![s] = NewServer(tier)]
  /\ UNCHANGED <<tool, reports, req, run, changes>>

(* update_server; read and written in one go: a concurrent write of the    *)
(* same columns would come before or after.                                *)
UpdateServer(s, enabled, tier) ==
  /\ Request
  /\ server[s] # NULL
  /\ server' = [server EXCEPT ![s].enabled = enabled, ![s].tier = tier]
  /\ UNCHANGED <<tool, reports, req, run, changes>>

UpdateServerTool(p, enabled, tier) ==
  /\ Request
  /\ tool[p] # NULL
  /\ tool' = [tool EXCEPT ![p] = [enabled |-> enabled, tier |-> tier]]
  /\ UNCHANGED <<server, reports, req, run, changes>>

(* refresh_server_tools: the server row is read, then the server is asked. *)
OpenRefresh(a, s) ==
  /\ Request
  /\ server[s] # NULL
  /\ req[a] = NoRequest
  /\ req' = [req EXCEPT ![a] = [NoRequest EXCEPT !.op = "refresh", !.server = s,
                                                 !.old = server[s]]]
  /\ UNCHANGED <<server, tool, reports, run, changes>>

(* The tools stay as they are. *)
MarkUnhealthy(s) == server' = [server EXCEPT ![s].health = "unhealthy"] /\ UNCHANGED tool

(* The transport, the initialization of the session or tools/list fails;   *)
(* whatever is raised, a cancellation too, becomes an McpError.            *)
RefreshFails(a) ==
  /\ req[a].op = "refresh"
  /\ MarkUnhealthy(req[a].server)
  /\ Close(a)
  /\ UNCHANGED <<reports, run, requests, changes>>

(* The answer, and the rows that it is compared with *)
Discover(a) ==
  LET s == req[a].server
  IN /\ req[a].op = "refresh"
     /\ req' = [req EXCEPT ![a].op = "upsert", ![a].found = reports[s],
                           ![a].rows = [t \in ToolName |-> tool[<<s, t>>]]]
     /\ UNCHANGED <<server, tool, reports, run, requests, changes>>

(* Mutant: a tool that is reported again is set up like a new one. *)
ResetTool(row, old, isFound, default) ==
  IF isFound THEN [enabled |-> TRUE, tier |-> default]
  ELSE IF old # NULL THEN [row EXCEPT !.enabled = FALSE] ELSE row

(* What refresh_tools makes of one row, given the copy it read: new tools  *)
(* get the server's default tier, tools that are gone are disabled, a      *)
(* known tool keeps its tier and whether it is enabled.                    *)
UpsertTool(row, old, isFound, default) ==
  IF isFound /\ old = NULL THEN [enabled |-> TRUE, tier |-> default]
  ELSE IF ~isFound /\ old # NULL /\ old.enabled THEN [row EXCEPT !.enabled = FALSE]
  ELSE row

(* A tool that somebody else inserted meanwhile violates the unique key. *)
Conflict(a) == \E t \in req[a].found : req[a].rows[t] = NULL /\ tool[<<req[a].server, t>>] # NULL

CommitRefresh(a) ==
  LET s == req[a].server
  IN /\ req[a].op = "upsert"
     /\ \/ Conflict(a) /\ UNCHANGED <<server, tool>>
        \/ /\ ~Conflict(a)
           /\ tool' = [p \in Pair |-> IF p[1] # s THEN tool[p]
                         ELSE UpsertTool(tool[p], req[a].rows[p[2]], p[2] \in req[a].found,
                                         req[a].old.tier)]
           /\ server' = [server EXCEPT ![s].health = "healthy"]
     /\ Close(a)
     /\ UNCHANGED <<reports, run, requests, changes>>

(* The servers' own business: deployments add and remove tools. *)
ChangeReports(s, names) ==
  /\ changes < MaxChanges /\ changes' = changes + 1
  /\ reports' = [reports EXCEPT ![s] = names]
  /\ UNCHANGED <<registry, run, requests>>
-----------------------------------------------------------------------------
(* A worker takes the run: a new RunEngine without MCP tools. *)
StartEngine ==
  /\ engine = NULL /\ engines < MaxEngines
  /\ engine' = [loaded |-> FALSE, tools |-> [n \in Name |-> NULL]]
  /\ engines' = engines + 1 /\ called' = {}
  /\ UNCHANGED <<registry, reports, active, requests, changes>>

(* The run parks, ends or loses its worker. *)
StopEngine ==
  /\ engine # NULL
  /\ engine' = NULL /\ called' = {}
  /\ UNCHANGED <<registry, reports, active, requests, changes, engines>>

(* Mutant: a name is taken to be unique if its server uses it once. *)
PlainName(p, pairs) == p[2]

(* The name under which a tool is offered: its own if no other server has  *)
(* an enabled tool of that name                                            *)
ExposedName(p, pairs) ==
  IF \E q \in pairs : q # p /\ q[2] = p[2] THEN CanonicalName[p] ELSE p[2]

(* _ensure_mcp_tools_loaded.  setdefault: a built-in tool keeps its name,  *)
(* and so does the first of two MCP tools; the query returns them in any   *)
(* order.                                                                  *)
LoadTools ==
  LET Candidates(n) == {p \in Enabled : ExposedName(p, Enabled) = n /\ n \notin Builtin}
      Entry(p)      == [pair |-> p, tier |-> tool[p].tier]
  IN /\ engine # NULL /\ ~engine.loaded
     /\ \E tools \in [Name -> {Entry(p) : p \in Enabled} \cup {NULL}] :
          /\ \A n \in Name : IF Candidates(n) = {} THEN tools[n] = NULL
                             ELSE \E p \in Candidates(n) : tools[n] = Entry(p)
          /\ engine' = [loaded |-> TRUE, tools |-> tools]
     /\ UNCHANGED <<registry, reports, active, called, requests, changes, engines>>

(* tools_by_name *)
Known(n) == n \in Builtin \/ engine.tools[n] # NULL

(* load_tool with a known name, and the checkpoint of active_tool_names;   *)
(* or use_skill and the automatic selection, whose required tools are      *)
(* unlocked together if all of them are known                              *)
Unlock(names) ==
  /\ engine # NULL /\ engine.loaded
  /\ \A n \in names : Known(n)
  /\ active' = active \cup names
  /\ UNCHANGED <<registry, reports, engine, called, requests, changes, engines>>

Unlocked(n) == n \in active

(* The model calls a tool by name.  An MCP tool that is not unlocked is    *)
(* answered by _not_loaded_handler.                                        *)
CallTool(n) ==
  /\ engine # NULL /\ engine.loaded
  /\ engine.tools[n] # NULL /\ Unlocked(n)
  /\ called' = called \cup {engine.tools[n]}
  /\ UNCHANGED <<registry, reports, engine, active, requests, changes, engines>>

Step ==
  \/ \E s \in Server, tier \in Tier : RegisterServer(s, tier)
  \/ \E s \in Server, enabled \in BOOLEAN, tier \in Tier : UpdateServer(s, enabled, tier)
  \/ \E p \in Pair, enabled \in BOOLEAN, tier \in Tier : UpdateServerTool(p, enabled, tier)
  \/ \E a \in Admin, s \in Server : OpenRefresh(a, s)
  \/ \E a \in Admin : RefreshFails(a) \/ Discover(a) \/ CommitRefresh(a)
  \/ \E s \in Server, names \in SUBSET ToolName : ChangeReports(s, names)
  \/ StartEngine \/ StopEngine \/ LoadTools
  \/ \E names \in Required \cup {{n} : n \in Name} : Unlock(names)
  \/ \E n \in Name : CallTool(n)

(* What has been enabled since the running instance began *)
EnabledNow == {[pair |-> p, tier |-> tool[p].tier] :
                 p \in {q \in Pair : /\ server[q[1]] # NULL /\ server[q[1]].enabled
                                     /\ tool[q] # NULL /\ tool[q].enabled}}

Next == Step /\ seen' = IF engine' = NULL THEN {}
                        ELSE IF engine = NULL THEN EnabledNow'
                        ELSE seen \cup EnabledNow'

Spec == Init /\ [][Next]_vars
-----------------------------------------------------------------------------
(* OVERRIDES: however refreshes overlap with each other and with           *)
(* administrators' changes, a refresh never changes the risk tier of a     *)
(* known tool and never enables one that was switched off.                 *)
RefreshKeepsOverride ==
  [][requests' = requests =>
       \A p \in Pair : tool[p] # NULL =>
         tool'[p].tier = tool[p].tier /\ (tool'[p].enabled => tool[p].enabled)]_vars

(* STALENESS: tools and tiers are cached for the life of an instance and   *)
(* not longer.  A call goes to a tool that was enabled, with the tier that *)
(* decides about its approval, at some time since the instance began;      *)
(* switching a tool or a server off stops every later instance.            *)
CalledWasEnabled == called \subseteq seen

(* NAMES: an instance that loads its tools can reach every enabled tool    *)
(* under some name: a name that several servers use hides none of them.    *)
(* The exceptions are a tool with the name of a built-in one, and one      *)
(* whose name is the canonical name of another, or the other way round.    *)
(* canonical_tool_name replaces characters and so makes such names.        *)
Reached == {engine.tools[n].pair : n \in {m \in Name : engine.tools[m] # NULL}}

Clashes(p) == \/ p[2] \in Builtin
              \/ CanonicalName[p] \in Builtin \cup ToolName
              \/ \E q \in Pair \ {p} : CanonicalName[q] \in {p[2], CanonicalName[p]}

NoToolShadowed ==
  [][engine # NULL /\ engine' # NULL /\ ~engine.loaded /\ engine'.loaded =>
       \A b \in EnabledNow : b.pair \in Reached' \/ Clashes(b.pair)]_vars
=============================================================================
