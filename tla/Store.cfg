SPECIFICATION Spec
CONSTANTS
  Users = {u1, u2}
  Workers = {Fo}
  short = short
  long = long
  Versions = {short, long}
  Default = short
  Size <- Sizes
  Files = {f1, f2, f3, f4, f5}
  Systems = {"windows", "posix"}
  None = None
SYMMETRY Symmetry
INVARIANTS WholeFile NeverSilentDefaults
PROPERTIES AtomicSaves
