SPECIFICATION FairSpec
CONSTANTS
  Callers = {r1, f1, u1}
  Pool <- OnePool
  Backups <- TwoBackups
  Alive = {b}
  Flaky = FALSE
  Jobs = {"start", "stop"}
  EditFields = {}
  Servers = {s1, s2}
  Conns = {}
  Addrs = {a1}
  DefaultAddr = a1
  NoAddr = NoAddr
  Direct = Direct
  BadRoute = BadRoute
  None = None
  Rots = {r1}
  Fos = {f1}
  r1 = r1
  r2 = r2
  f1 = f1
  f2 = f2
  p = p
  q = q
  b = b
  Primary = p
  ChainRoute = ch
  MaxFails = 2
  Routes = {Direct, ch, p, q, b}
  OtherPrograms = FALSE
PROPERTIES Recovers StopFreesPort
