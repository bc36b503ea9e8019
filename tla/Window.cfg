SPECIFICATION MCSpec
CONSTANTS
  Handlers = {h1}
  Tick = Tick
  NoState = NoState
  ip1 = ip1
  ip2 = ip2
  Ips = {ip1, ip2}
  NoIp = NoIp
  Private = Private
  None = None
  c1 = c1
  c2 = c2
  c3 = c3
  Pollers = {p1, p2}
  Answers <- MCAnswers
  IpOf <- MCIpOf
  Filters <- MCFilters
  HistoryMax = 3
  RowsMax = 2
  ItemsMax = 1
  MaxTime = 4
  Hops = {hop1, hop2}
  Undefined = Undefined
  Hole = Hole
  MaxHops = 3
  Savers = {s1, s2}
  Null = Null
  Untouched = Untouched
  MaxWrites = 3
INVARIANTS WindowTypes ClickAsLabelled ConfirmIsShown OneSighting PageShowsHistory ChainOfHops EditsKept SaveOffered
PROPERTIES WindowCatchesUp Confirmed
