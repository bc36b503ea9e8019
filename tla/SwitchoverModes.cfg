SPECIFICATION ModeSpec
CONSTANTS
  Callers = {r1, r2, f1, f2, u1}
  Pool <- PrimaryPool
  Backups <- OneBackup
  Alive = {b}
  Flaky = TRUE
  Jobs = {"start", "stop", "rotate", "force", "put"}
  EditFields = {"rotOn", "chain"}
  Servers = {s1, s2}
  Conns = {}
  Addrs = {a1}
  DefaultAddr = a1
  NoAddr = NoAddr
  Direct = Direct
  BadRoute = BadRoute
  None = None
  Rots = {r1, r2}
  Fos = {f1, f2}
  r1 = r1
  r2 = r2
  f1 = f1
  f2 = f2
  p = p
  q = q
  b = b
  Primary = p
  ChainRoute = ch
  MaxFails = 2
  Routes = {Direct, ch, p, q, b}
  Older = {r2, f2}
  OtherPrograms = FALSE
SYMMETRY ServerSymmetry
INVARIANTS EngineFollowsFile TypeOK OneLateRotation
PROPERTIES TwoFailedProbes
