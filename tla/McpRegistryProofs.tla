------------------------- MODULE McpRegistryProofs -------------------------
(***************************************************************************)
(* Proofs about McpRegistry for every set of servers, tools, names and     *)
(* administrators and every value of the bounds.                           *)
(*                                                                         *)
(*   OverridesKept   RefreshKeepsOverride                                  *)
(*   CallsWereEnabled  CalledWasEnabled                                    *)
(*   NamesReachAll   NoToolShadowed                                        *)
(***************************************************************************)
EXTENDS McpRegistry, TLAPS

(* A refresh between its steps: op, and the rows that it has read *)
Refresh == [op : {"refresh", "upsert", NULL}, server : Server \cup {NULL},
            old : ServerRow \cup {NULL}, found : SUBSET ToolName,
            rows : [ToolName -> ToolRow \cup {NULL}] \cup {NULL}]

Types ==
  /\ server \in [Server -> ServerRow \cup {NULL}]
  /\ tool \in [Pair -> ToolRow \cup {NULL}]
  /\ reports \in [Server -> SUBSET ToolName]
  /\ req \in [Admin -> Refresh]
  /\ engine \in Engine \cup {NULL}
  /\ requests \in Nat

(* Rows are never deleted, so a copy stands for a row that is still there. *)
Copied(q) ==
  /\ q.op # NULL => q.server \in Server /\ server[q.server] # NULL /\ q.old # NULL
  /\ q.op = "upsert" => /\ q.rows \in [ToolName -> ToolRow \cup {NULL}]
                        /\ \A t \in ToolName : q.rows[t] # NULL => tool[<<q.server, t>>] # NULL

(* What the running instance has loaded, and what it could load, was       *)
(* enabled since it began.                                                 *)
Fresh ==
  /\ engine = NULL => called = {}
  /\ engine # NULL => EnabledNow \subseteq seen
  /\ engine # NULL => \A n \in Name : engine.tools[n] # NULL => engine.tools[n] \in seen

IInv == Types /\ (\A a \in Admin : Copied(req[a])) /\ Fresh /\ CalledWasEnabled
-----------------------------------------------------------------------------
LEMMA Constants ==
  /\ NoRequest \in Refresh /\ NoRequest.op = NULL
  /\ NULL # "refresh" /\ NULL # "upsert"
  /\ \A row \in ServerRow : row # NULL
  /\ \A row \in ToolRow : row # NULL
  /\ \A t \in Loaded : t # NULL
  /\ \A e \in Engine : e # NULL
<1>1. NoRequest \in Refresh /\ NoRequest.op = NULL
  BY DEF NoRequest, Refresh
<1>2. QED
  BY <1>1, McpAssumption

LEMMA InitInv == Init => IInv
<1> SUFFICES ASSUME Init PROVE IInv
  OBVIOUS
<1>1. Types
  BY Constants DEF Init, Types
<1>2. ASSUME NEW a \in Admin PROVE Copied(req[a])
  BY Constants DEF Init, Copied
<1>3. Fresh /\ CalledWasEnabled
  BY DEF Init, Fresh, CalledWasEnabled
<1>4. QED
  BY <1>1, <1>2, <1>3 DEF IInv
-----------------------------------------------------------------------------
(* The registry's half of a step: rows are not deleted. *)
Kept == /\ \A s \in Server : server[s] # NULL => server'[s] # NULL
        /\ \A p \in Pair : tool[p] # NULL => tool'[p] # NULL

(* A request is opened, advanced or closed with a sound one in its place. *)
LEMMA CopiedStep ==
  ASSUME IInv, Kept, NEW a \in Admin, NEW q \in Refresh, Copied(q),
         req' = [req EXCEPT ![a] = q]
  PROVE  /\ req' \in [Admin -> Refresh]
         /\ \A b \in Admin : Copied(req[b])'
<1>1. /\ req' \in [Admin -> Refresh] /\ req'[a] = q
      /\ \A b \in Admin : b # a => req'[b] = req[b]
  BY DEF IInv, Types
<1>2. ASSUME NEW b \in Admin PROVE Copied(req[b])'
  <2>1. PICK c \in Refresh : Copied(c) /\ c = req'[b]
    BY <1>1 DEF IInv, Types
  <2>2. QED
    BY <2>1, Constants DEF Copied, Kept, Pair
<1>3. QED
  BY <1>1, <1>2

LEMMA CopiedKept ==
  ASSUME IInv, Kept, UNCHANGED req
  PROVE  /\ req' \in [Admin -> Refresh]
         /\ \A b \in Admin : Copied(req[b])'
<1>1. ASSUME NEW b \in Admin PROVE Copied(req[b])'
  <2>1. Copied(req[b])
    BY DEF IInv
  <2>2. QED
    BY <2>1, Constants DEF Copied, Kept, Pair
<1>2. QED
  BY <1>1 DEF IInv, Types

LEMMA NoRequestCopied == Copied(NoRequest)
BY Constants DEF Copied

Registry == /\ server' \in [Server -> ServerRow \cup {NULL}]
            /\ tool' \in [Pair -> ToolRow \cup {NULL}]
            /\ reports' \in [Server -> SUBSET ToolName]
            /\ req' \in [Admin -> Refresh]
            /\ requests' \in Nat
            /\ \A a \in Admin : Copied(req[a])'
            /\ Kept

LEMMA RegisterServerStep ==
  ASSUME IInv, NEW s \in Server, NEW tier \in Tier, RegisterServer(s, tier)
  PROVE  Registry
<1>1. NewServer(tier) \in ServerRow /\ NewServer(tier) # NULL
  <2>1. NewServer(tier) \in ServerRow
    BY DEF NewServer, ServerRow
  <2>2. QED
    BY <2>1, Constants
<1>2. Kept
  BY <1>1 DEF RegisterServer, Kept, IInv, Types
<1>3. QED
  BY <1>1, <1>2, CopiedKept DEF RegisterServer, Request, Registry, IInv, Types

LEMMA UpdateServerStep ==
  ASSUME IInv, NEW s \in Server, NEW enabled \in BOOLEAN, NEW tier \in Tier,
         UpdateServer(s, enabled, tier)
  PROVE  Registry
<1> DEFINE row == [server[s] EXCEPT !.enabled = enabled, !.tier = tier]
<1>1. server[s] \in ServerRow
  BY DEF UpdateServer, IInv, Types
<1>2. row \in ServerRow
  BY <1>1 DEF ServerRow
<1>3. row # NULL
  BY <1>2, Constants
<1>4. server' = [server EXCEPT ![s] = row]
  BY DEF UpdateServer, IInv, Types
<1> HIDE DEF row
<1>5. Kept
  BY <1>3, <1>4 DEF UpdateServer, Kept, IInv, Types
<1>6. req' \in [Admin -> Refresh] /\ \A b \in Admin : Copied(req[b])'
  BY <1>5, CopiedKept DEF UpdateServer
<1>7. UNCHANGED <<tool, reports>> /\ requests' = requests + 1
  BY DEF UpdateServer, Request
<1>8. QED
  BY <1>2, <1>4, <1>5, <1>6, <1>7 DEF Registry, IInv, Types

LEMMA UpdateServerToolStep ==
  ASSUME IInv, NEW p \in Pair, NEW enabled \in BOOLEAN, NEW tier \in Tier,
         UpdateServerTool(p, enabled, tier)
  PROVE  Registry
<1> DEFINE row == [enabled |-> enabled, tier |-> tier]
<1>1. row \in ToolRow
  BY DEF ToolRow
<1>2. row # NULL /\ tool' = [tool EXCEPT ![p] = row]
  BY <1>1, Constants DEF UpdateServerTool
<1> HIDE DEF row
<1>3. Kept
  BY <1>2 DEF UpdateServerTool, Kept, IInv, Types
<1>4. QED
  BY <1>1, <1>2, <1>3, CopiedKept DEF UpdateServerTool, Request, Registry, IInv, Types

LEMMA OpenRefreshStep ==
  ASSUME IInv, NEW a \in Admin, NEW s \in Server, OpenRefresh(a, s)
  PROVE  Registry
<1> DEFINE q == [NoRequest EXCEPT !.op = "refresh", !.server = s, !.old = server[s]]
<1>1. server[s] \in ServerRow /\ server[s] # NULL
  BY DEF OpenRefresh, IInv, Types
<1>2. q \in Refresh /\ q.op = "refresh" /\ q.server = s /\ q.old = server[s]
  BY <1>1 DEF NoRequest, Refresh
<1>3. Copied(q)
  BY <1>1, <1>2 DEF Copied
<1>4. req' = [req EXCEPT ![a] = q] /\ Kept
  BY DEF OpenRefresh, Kept
<1> HIDE DEF q
<1>5. req' \in [Admin -> Refresh] /\ \A b \in Admin : Copied(req[b])'
  BY <1>2, <1>3, <1>4, CopiedStep
<1>6. QED
  BY <1>4, <1>5 DEF OpenRefresh, Request, Registry, IInv, Types

(* The rows of an open refresh. *)
LEMMA OpenFacts ==
  ASSUME IInv, NEW a \in Admin, req[a].op \in {"refresh", "upsert"}
  PROVE  /\ req[a] \in Refresh /\ req[a].server \in Server
         /\ server[req[a].server] \in ServerRow /\ req[a].old \in ServerRow
         /\ req[a].old.tier \in Tier
         /\ reports[req[a].server] \subseteq ToolName
<1>1. req[a] \in Refresh /\ Copied(req[a]) /\ req[a].op # NULL
  BY Constants DEF IInv, Types
<1>2. /\ req[a].server \in Server /\ server[req[a].server] \in ServerRow
      /\ req[a].old \in ServerRow /\ reports[req[a].server] \subseteq ToolName
  BY <1>1 DEF Copied, Refresh, IInv, Types
<1>3. QED
  BY <1>1, <1>2 DEF ServerRow

LEMMA HealthWrite ==
  ASSUME NEW row \in ServerRow, NEW h \in {"unknown", "healthy", "unhealthy"}
  PROVE  [row EXCEPT !.health = h] \in ServerRow
BY DEF ServerRow

LEMMA RefreshFailsStep ==
  ASSUME IInv, NEW a \in Admin, RefreshFails(a)
  PROVE  Registry
<1> DEFINE s == req[a].server
           row == [server[s] EXCEPT !.health = "unhealthy"]
<1>1. s \in Server /\ row \in ServerRow
  BY OpenFacts, HealthWrite DEF RefreshFails
<1>2. row # NULL /\ server' = [server EXCEPT ![s] = row]
  BY <1>1, Constants DEF RefreshFails, MarkUnhealthy, IInv, Types
<1> HIDE DEF row, s
<1>3. Kept
  BY <1>2 DEF RefreshFails, MarkUnhealthy, Kept, IInv, Types
<1>4. req' \in [Admin -> Refresh] /\ \A b \in Admin : Copied(req[b])'
  BY <1>3, CopiedStep, NoRequestCopied, Constants DEF RefreshFails, Close
<1>5. QED
  BY <1>1, <1>2, <1>3, <1>4 DEF RefreshFails, MarkUnhealthy, Registry, IInv, Types

LEMMA DiscoverStep ==
  ASSUME IInv, NEW a \in Admin, Discover(a)
  PROVE  Registry
<1> DEFINE s == req[a].server
           rows == [t \in ToolName |-> tool[<<s, t>>]]
           q == [req[a] EXCEPT !.op = "upsert", !.found = reports[s], !.rows = rows]
<1>1. /\ req[a] \in Refresh /\ s \in Server /\ server[s] \in ServerRow /\ req[a].old \in ServerRow
      /\ reports[s] \subseteq ToolName
  BY OpenFacts DEF Discover
<1>2. rows \in [ToolName -> ToolRow \cup {NULL}]
  BY <1>1 DEF IInv, Types, Pair
<1>3. \A t \in ToolName : rows[t] # NULL => tool[<<s, t>>] # NULL
  OBVIOUS
<1>4. req' = [req EXCEPT ![a] = q]
  BY DEF Discover, IInv, Types
<1> HIDE DEF rows
<1>5. q \in Refresh /\ q.op = "upsert" /\ q.server = s /\ q.old = req[a].old /\ q.rows = rows
  BY <1>1, <1>2 DEF Refresh
<1> HIDE DEF q
<1>6. Copied(q)
  BY <1>1, <1>2, <1>3, <1>5, Constants DEF Copied
<1>7. Kept
  BY DEF Discover, Kept
<1>8. req' \in [Admin -> Refresh] /\ \A b \in Admin : Copied(req[b])'
  BY <1>4, <1>5, <1>6, <1>7, CopiedStep
<1>9. QED
  BY <1>7, <1>8 DEF Discover, Registry, IInv, Types

(* refresh_tools on one row, for a tool that nobody else inserted: a known *)
(* tool keeps its tier and is not enabled.                                 *)
LEMMA UpsertFacts ==
  ASSUME NEW row \in ToolRow \cup {NULL}, NEW old \in ToolRow \cup {NULL},
         NEW t, NEW found, NEW default \in Tier,
         old # NULL => row # NULL, ~(t \in found /\ old = NULL /\ row # NULL)
  PROVE  LET new == UpsertTool(row, old, t \in found, default)
         IN /\ new \in ToolRow \cup {NULL}
            /\ row # NULL => /\ new \in ToolRow /\ new.tier = row.tier
                             /\ new.enabled => row.enabled
<1>1. CASE t \in found /\ old = NULL
  <2>1. [enabled |-> TRUE, tier |-> default] \in ToolRow
    BY DEF ToolRow
  <2>2. QED
    BY <1>1, <2>1 DEF UpsertTool
<1>2. CASE t \notin found /\ old # NULL /\ old.enabled
  <2>1. row \in ToolRow
    BY <1>2
  <2>2. /\ [row EXCEPT !.enabled = FALSE] \in ToolRow
        /\ [row EXCEPT !.enabled = FALSE].tier = row.tier
        /\ ~[row EXCEPT !.enabled = FALSE].enabled
    BY <2>1 DEF ToolRow
  <2>3. QED
    BY <1>2, <2>1, <2>2 DEF UpsertTool
<1>3. CASE ~(t \in found /\ old = NULL) /\ ~(t \notin found /\ old # NULL /\ old.enabled)
  BY <1>3 DEF UpsertTool
<1>4. QED
  BY <1>1, <1>2, <1>3

LEMMA CommitRefreshStep ==
  ASSUME IInv, NEW a \in Admin, CommitRefresh(a)
  PROVE  /\ Registry
         /\ \A p \in Pair : tool[p] # NULL =>
              tool'[p].tier = tool[p].tier /\ (tool'[p].enabled => tool[p].enabled)
<1> DEFINE s == req[a].server
<1>0. req[a].op = "upsert" /\ Close(a) /\ UNCHANGED <<reports, requests>>
  BY DEF CommitRefresh
<1>1. /\ s \in Server /\ server[s] \in ServerRow /\ req[a].old.tier \in Tier
      /\ req[a] \in Refresh /\ Copied(req[a])
  BY <1>0, OpenFacts DEF IInv
<1>2. CASE UNCHANGED <<server, tool>>
  <2>1. Kept
    BY <1>2 DEF Kept
  <2>2. req' \in [Admin -> Refresh] /\ \A b \in Admin : Copied(req[b])'
    BY <1>0, <2>1, CopiedStep, NoRequestCopied, Constants DEF Close
  <2>3. QED
    BY <1>0, <1>2, <2>1, <2>2 DEF Registry, IInv, Types
<1>3. CASE /\ ~Conflict(a)
           /\ tool' = [p \in Pair |-> IF p[1] # s THEN tool[p]
                         ELSE UpsertTool(tool[p], req[a].rows[p[2]], p[2] \in req[a].found,
                                         req[a].old.tier)]
           /\ server' = [server EXCEPT ![s].health = "healthy"]
  <2> DEFINE row == [server[s] EXCEPT !.health = "healthy"]
  <2>1. row \in ServerRow
    BY <1>1, HealthWrite
  <2>2. row # NULL /\ server' = [server EXCEPT ![s] = row]
    BY <1>3, <2>1, Constants DEF IInv, Types
  <2>3. ASSUME NEW p \in Pair
        PROVE  /\ tool'[p] \in ToolRow \cup {NULL}
               /\ tool[p] # NULL => /\ tool'[p] \in ToolRow /\ tool'[p].tier = tool[p].tier
                                    /\ tool'[p].enabled => tool[p].enabled
    <3>1. tool[p] \in ToolRow \cup {NULL}
      BY DEF IInv, Types
    <3>2. CASE p[1] # s
      BY <1>3, <3>1, <3>2
    <3>3. CASE p[1] = s
      <4> DEFINE old == req[a].rows[p[2]]
      <4>1. p[2] \in ToolName /\ p = <<s, p[2]>>
        BY <3>3 DEF Pair
      <4>2. old \in ToolRow \cup {NULL} /\ (old # NULL => tool[p] # NULL)
        BY <1>0, <1>1, <4>1 DEF Copied
      <4>3. ~(p[2] \in req[a].found /\ old = NULL /\ tool[p] # NULL)
        BY <1>3, <4>1 DEF Conflict
      <4>4. tool'[p] = UpsertTool(tool[p], old, p[2] \in req[a].found, req[a].old.tier)
        BY <1>3, <3>3
      <4>5. req[a].old.tier \in Tier
        BY <1>1
      <4> HIDE DEF old
      <4>6. QED
        BY <3>1, <4>2, <4>3, <4>4, <4>5, UpsertFacts, SMTT(30)
    <3>4. QED
      BY <3>2, <3>3
  <2> HIDE DEF row
  <2>4. tool' \in [Pair -> ToolRow \cup {NULL}]
    <3>1. tool' = [p \in Pair |-> tool'[p]]
      BY <1>3
    <3>2. QED
      BY <2>3, <3>1
  <2>5. Kept
    BY <2>2, <2>3, <1>1, Constants DEF Kept, IInv, Types
  <2>6. req' \in [Admin -> Refresh] /\ \A b \in Admin : Copied(req[b])'
    BY <1>0, <2>5, CopiedStep, NoRequestCopied, Constants DEF Close
  <2>7. QED
    BY <1>0, <1>1, <2>1, <2>2, <2>3, <2>4, <2>5, <2>6 DEF Registry, IInv, Types
<1>4. QED
  BY <1>2, <1>3 DEF CommitRefresh
-----------------------------------------------------------------------------
(* What the history records in a step. *)
Recorded == seen' = IF engine' = NULL THEN {}
                    ELSE IF engine = NULL THEN EnabledNow'
                    ELSE seen \cup EnabledNow'

(* While an instance runs, what it may use is in the history. *)
LEMMA RecordedFacts ==
  ASSUME Recorded, engine' # NULL
  PROVE  EnabledNow' \subseteq seen' /\ (engine # NULL => seen \subseteq seen')
BY DEF Recorded

(* Steps that do not touch the instance. *)
LEMMA InstanceKept ==
  ASSUME IInv, Recorded, UNCHANGED <<engine, called>>
  PROVE  engine' \in Engine \cup {NULL} /\ Fresh' /\ CalledWasEnabled'
<1>1. CASE engine = NULL
  BY <1>1 DEF IInv, Types, Fresh, CalledWasEnabled
<1>2. CASE engine # NULL
  BY <1>2, RecordedFacts DEF IInv, Types, Fresh, CalledWasEnabled
<1>3. QED
  BY <1>1, <1>2

LEMMA StartEngineStep ==
  ASSUME IInv, Recorded, StartEngine
  PROVE  engine' \in Engine \cup {NULL} /\ Fresh' /\ CalledWasEnabled'
<1>1. engine' \in Engine /\ called' = {} /\ \A n \in Name : engine'.tools[n] = NULL
  BY DEF StartEngine, Engine
<1>2. engine' # NULL
  BY <1>1, Constants
<1>3. QED
  BY <1>1, <1>2, RecordedFacts DEF Fresh, CalledWasEnabled

LEMMA StopEngineStep ==
  ASSUME IInv, Recorded, StopEngine
  PROVE  engine' \in Engine \cup {NULL} /\ Fresh' /\ CalledWasEnabled'
BY DEF StopEngine, Fresh, CalledWasEnabled

(* _ensure_mcp_tools_loaded: what it puts under a name is an enabled tool  *)
(* with its tier, and no two enabled tools want the same name.             *)
LEMMA LoadToolsFacts ==
  ASSUME IInv, LoadTools
  PROVE  /\ engine' \in Engine /\ engine'.loaded
         /\ \A n \in Name : engine'.tools[n] # NULL => engine'.tools[n] \in EnabledNow
         /\ \A p \in Enabled : p \in Reached' \/ Clashes(p)
<1> DEFINE Candidates(n) == {p \in Enabled : ExposedName(p, Enabled) = n /\ n \notin Builtin}
           Entry(p)      == [pair |-> p, tier |-> tool[p].tier]
<1>1. PICK tools \in [Name -> {Entry(p) : p \in Enabled} \cup {NULL}] :
        /\ \A n \in Name : IF Candidates(n) = {} THEN tools[n] = NULL
                           ELSE \E p \in Candidates(n) : tools[n] = Entry(p)
        /\ engine' = [loaded |-> TRUE, tools |-> tools]
  BY DEF LoadTools
<1>2. ASSUME NEW p \in Enabled
      PROVE  Entry(p) \in Loaded /\ Entry(p) \in EnabledNow /\ Entry(p).pair = p
  <2>1. p \in Pair /\ tool[p] \in ToolRow
    BY DEF Enabled, IInv, Types
  <2>2. tool[p].tier \in Tier
    BY <2>1 DEF ToolRow
  <2>3. QED
    BY <2>1, <2>2 DEF Loaded, Enabled, EnabledNow
<1> HIDE DEF Entry
<1>3. tools \in [Name -> Loaded \cup {NULL}]
  BY <1>1, <1>2
<1>4. engine' \in Engine /\ engine'.loaded /\ engine'.tools = tools
  BY <1>1, <1>3 DEF Engine
<1>5. \A n \in Name : tools[n] # NULL => tools[n] \in EnabledNow
  BY <1>1, <1>2
<1>6. ASSUME NEW p \in Enabled, ~Clashes(p)
      PROVE  p \in Reached'
  <2> DEFINE n == ExposedName(p, Enabled)
  <2>1. p \in Pair /\ p[2] \in ToolName
    BY DEF Enabled, Pair
  <2>2. n \in Name /\ n \notin Builtin
    BY <1>6, <2>1 DEF ExposedName, Name, Clashes
  <2>3. p \in Candidates(n)
    BY <2>2
  <2>4. ASSUME NEW q \in Candidates(n) PROVE q = p
    <3>1. q \in Enabled /\ q \in Pair /\ q[2] \in ToolName /\ ExposedName(q, Enabled) = n
      BY DEF Enabled, Pair
    <3>2. QED
      BY <1>6, <2>1, <3>1 DEF ExposedName, Clashes
  <2> HIDE DEF n, Candidates
  <2>5. tools[n] = Entry(p)
    BY <1>1, <2>2, <2>3, <2>4
  <2>6. tools[n] # NULL /\ tools[n].pair = p
    BY <1>2, <2>5, Constants
  <2>7. QED
    BY <1>4, <2>2, <2>6 DEF Reached
<1>7. QED
  BY <1>4, <1>5, <1>6

LEMMA LoadToolsStep ==
  ASSUME IInv, Recorded, LoadTools
  PROVE  engine' \in Engine \cup {NULL} /\ Fresh' /\ CalledWasEnabled'
<1>1. /\ engine' \in Engine
      /\ \A n \in Name : engine'.tools[n] # NULL => engine'.tools[n] \in EnabledNow
  BY LoadToolsFacts
<1>2. engine' # NULL /\ engine # NULL
  BY <1>1, Constants DEF LoadTools
<1>3. EnabledNow' = EnabledNow /\ UNCHANGED called
  BY DEF LoadTools, registry, EnabledNow
<1>4. QED
  BY <1>1, <1>2, <1>3, RecordedFacts DEF IInv, Fresh, CalledWasEnabled

LEMMA CallToolStep ==
  ASSUME IInv, Recorded, NEW n \in Name, CallTool(n)
  PROVE  engine' \in Engine \cup {NULL} /\ Fresh' /\ CalledWasEnabled'
<1>1. engine # NULL /\ engine' = engine /\ called' = called \cup {engine.tools[n]}
  BY DEF CallTool
<1>2. engine.tools[n] \in seen
  BY <1>1 DEF CallTool, IInv, Fresh
<1>3. QED
  BY <1>1, <1>2, RecordedFacts DEF IInv, Types, Fresh, CalledWasEnabled

(* The steps of a run leave the registry alone. *)
LEMMA RegistryKept ==
  ASSUME IInv, UNCHANGED <<registry, requests>>, reports' \in [Server -> SUBSET ToolName]
  PROVE  Registry
<1>1. Kept
  BY DEF registry, Kept
<1>2. req' \in [Admin -> Refresh] /\ \A b \in Admin : Copied(req[b])'
  BY <1>1, CopiedKept DEF registry
<1>3. QED
  BY <1>1, <1>2 DEF registry, Registry, IInv, Types

LEMMA ChangeReportsStep ==
  ASSUME IInv, NEW s \in Server, NEW names \in SUBSET ToolName, ChangeReports(s, names)
  PROVE  Registry
BY RegistryKept DEF ChangeReports, IInv, Types

(* What may be done to a known tool without a request of an administrator *)
Override ==
  requests' = requests =>
    \A p \in Pair : tool[p] # NULL =>
      tool'[p].tier = tool[p].tier /\ (tool'[p].enabled => tool[p].enabled)

LEMMA StepInv == ASSUME IInv, Next PROVE IInv' /\ Override
<1>0. Step /\ Recorded
  BY DEF Next, Recorded
<1>1. CASE \/ \E s \in Server, tier \in Tier : RegisterServer(s, tier)
           \/ \E s \in Server, enabled \in BOOLEAN, tier \in Tier : UpdateServer(s, enabled, tier)
           \/ \E p \in Pair, enabled \in BOOLEAN, tier \in Tier : UpdateServerTool(p, enabled, tier)
           \/ \E a \in Admin, s \in Server : OpenRefresh(a, s)
  <2>1. Registry
    BY <1>1, RegisterServerStep, UpdateServerStep, UpdateServerToolStep, OpenRefreshStep
  <2>2. UNCHANGED <<engine, called>> /\ requests' = requests + 1
    BY <1>1 DEF RegisterServer, UpdateServer, UpdateServerTool, OpenRefresh, Request, run
  <2>3. engine' \in Engine \cup {NULL} /\ Fresh' /\ CalledWasEnabled'
    BY <1>0, <2>2, InstanceKept
  <2>4. Override
    BY <2>2 DEF Override, IInv, Types
  <2>5. QED
    BY <2>1, <2>3, <2>4 DEF Registry, IInv, Types
<1>2. CASE \/ \E a \in Admin : RefreshFails(a) \/ Discover(a) \/ CommitRefresh(a)
           \/ \E s \in Server, names \in SUBSET ToolName : ChangeReports(s, names)
  <2>1. Registry
    BY <1>2, RefreshFailsStep, DiscoverStep, CommitRefreshStep, ChangeReportsStep
  <2>2. UNCHANGED <<engine, called>>
    BY <1>2 DEF RefreshFails, Discover, CommitRefresh, ChangeReports, run
  <2>3. engine' \in Engine \cup {NULL} /\ Fresh' /\ CalledWasEnabled'
    BY <1>0, <2>2, InstanceKept
  <2>4. Override
    <3>1. CASE \E a \in Admin : CommitRefresh(a)
      BY <3>1, CommitRefreshStep DEF Override
    <3>2. CASE UNCHANGED tool
      BY <3>2 DEF Override
    <3>3. QED
      BY <1>2, <3>1, <3>2 DEF RefreshFails, MarkUnhealthy, Discover, ChangeReports, registry
  <2>5. QED
    BY <2>1, <2>3, <2>4 DEF Registry, IInv, Types
<1>3. CASE \/ StartEngine \/ StopEngine \/ LoadTools
           \/ \E names \in Required \cup {{n} : n \in Name} : Unlock(names)
           \/ \E n \in Name : CallTool(n)
  <2>1. UNCHANGED <<registry, reports, requests>>
    BY <1>3 DEF StartEngine, StopEngine, LoadTools, Unlock, CallTool
  <2>2. Registry
    BY <2>1, RegistryKept DEF IInv, Types
  <2>3. engine' \in Engine \cup {NULL} /\ Fresh' /\ CalledWasEnabled'
    <3>1. CASE \E names \in Required \cup {{n} : n \in Name} : Unlock(names)
      <4>1. UNCHANGED <<engine, called>>
        BY <3>1 DEF Unlock
      <4>2. QED
        BY <1>0, <4>1, InstanceKept
    <3>2. QED
      BY <1>0, <1>3, <3>1, StartEngineStep, StopEngineStep, LoadToolsStep, CallToolStep
  <2>4. Override
    BY <2>1 DEF Override, registry
  <2>5. QED
    BY <2>2, <2>3, <2>4 DEF Registry, IInv, Types
<1>4. QED
  BY <1>0, <1>1, <1>2, <1>3 DEF Step

LEMMA StutterInv == ASSUME IInv, UNCHANGED vars PROVE IInv'
BY DEF vars, IInv, Types, Copied, Fresh, EnabledNow, CalledWasEnabled

(* The inductive invariant holds in every reachable state. *)
THEOREM Invariance == Spec => []IInv
<1>1. Init => IInv
  BY InitInv
<1>2. IInv /\ [Next]_vars => IInv'
  BY StepInv, StutterInv
<1>3. QED
  BY <1>1, <1>2, PTL DEF Spec

(* A call goes to a tool that was enabled, with that risk tier, at some    *)
(* time since the engine instance began.                                   *)
THEOREM CallsWereEnabled == Spec => []CalledWasEnabled
<1>1. IInv => CalledWasEnabled
  BY DEF IInv
<1>2. QED
  BY <1>1, Invariance, PTL

(* refresh_tools, whatever overlaps with it, keeps an administrator's      *)
(* choices: the tier of a known tool, and that it is switched off.         *)
THEOREM OverridesKept == Spec => RefreshKeepsOverride
<1>1. IInv /\ [Next]_vars =>
        [requests' = requests =>
           \A p \in Pair : tool[p] # NULL =>
             tool'[p].tier = tool[p].tier /\ (tool'[p].enabled => tool[p].enabled)]_vars
  BY StepInv DEF Override
<1>2. QED
  BY <1>1, Invariance, PTL DEF Spec, RefreshKeepsOverride

(* _ensure_mcp_tools_loaded reaches every enabled tool under some name,    *)
(* whatever tool names the servers share, unless a built-in or a canonical *)
(* name clashes with it.                                                   *)
THEOREM NamesReachAll == Spec => NoToolShadowed
<1> DEFINE A == engine # NULL /\ engine' # NULL /\ ~engine.loaded /\ engine'.loaded =>
                  \A b \in EnabledNow : b.pair \in Reached' \/ Clashes(b.pair)
<1>1. ASSUME IInv, Next PROVE A
  <2>1. CASE LoadTools
    <3> SUFFICES ASSUME NEW b \in EnabledNow
                 PROVE  b.pair \in Reached' \/ Clashes(b.pair)
      OBVIOUS
    <3>1. b.pair \in Enabled
      BY DEF EnabledNow, Enabled
    <3>2. QED
      BY <1>1, <2>1, <3>1, LoadToolsFacts
  <2>2. CASE StartEngine \/ StopEngine
    BY <2>2 DEF StartEngine, StopEngine
  <2>3. CASE UNCHANGED engine
    BY <2>3
  <2>4. QED
    BY <1>1, <2>1, <2>2, <2>3
       DEF Next, Step, RegisterServer, UpdateServer, UpdateServerTool, OpenRefresh, RefreshFails,
           Discover, CommitRefresh, ChangeReports, Unlock, CallTool, run
<1>2. IInv /\ [Next]_vars => [A]_vars
  BY <1>1
<1>3. QED
  BY <1>2, Invariance, PTL DEF Spec, NoToolShadowed
=============================================================================
