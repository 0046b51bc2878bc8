SPECIFICATION Spec
CONSTANTS
  s1 = s1
  s2 = s2
  a1 = a1
  a2 = a2
  c1 = c1
  c2 = c2
  search = search
  fetch_url = fetch_url
  NULL = NULL
  Server = {s1, s2}
  ToolName = {search}
  Builtin = {fetch_url}
  CanonicalName <- MCCanonicalName
  Admin = {a1, a2}
  Tier = {"read_only", "destructive"}
  Required <- MCRequired
  MaxRequests = 5
  MaxChanges = 1
  MaxEngines = 2
SYMMETRY Symmetric
INVARIANTS CalledWasEnabled
PROPERTIES RefreshKeepsOverride NoToolShadowed
CHECK_DEADLOCK FALSE
