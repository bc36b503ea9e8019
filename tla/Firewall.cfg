SPECIFICATION MCSpec
CONSTANTS
  Callers = {c1, c2}
  Groups <- MCGroups
  Requests <- MCRequests
  Refused <- MCRefused
  Rules <- MCRules
  Plan <- MCPlan
  Default <- MCDefault
  KeepsRequest <- MCKeepsRequest
  Nothing = Nothing
  ip1 = ip1
  ip2 = ip2
  Ips = {ip1, ip2}
  Blank = Blank
  Bad = Bad
  MaxServers = 2
  Faults = {"error", "cut_short", "kill"}
  Clients = {i1, i2}
  Remotes = {x1, x2}
  IsoClients = {i1, i2}
  Appliers = {g1}
  Pids = {x1, x2}
  MaxHandles = 2
  i1 = i1
  i2 = i2
  x1 = x1
  x2 = x2
SYMMETRY CallerSymmetry
INVARIANTS FirewallTypes OnePlanAtATime NeverOnlyBlocked BlocksAgree IsolationTruthful
PROPERTIES LoneRequestTakesEffect
