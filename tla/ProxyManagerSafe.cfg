SPECIFICATION PmSpec
CONSTANTS
  Callers = {c1, c2}
  Servers = {s1, s2, s3}
  Conns = {k1}
  Addrs = {a1, a2}
  DefaultAddr = a1
  NoAddr = NoAddr
  Direct = r1
  OtherPrograms = TRUE
  Routes = {r1, r2}
  BadRoute = BadRoute
  None = None
SYMMETRY Symmetry
INVARIANTS PmTypeOK StatusTruthful NoStrayListener DrainedStaysDrained
PROPERTIES RoutedAsReported
