SPECIFICATION Spec
CONSTANTS
  Users = {u1}
  Workers = {Fo}
  short = short
  long = long
  Versions = {short, long}
  Default = short
  Size <- Sizes
  Files = {f1, f2, f3}
  Systems = {"windows"}
  None = None
SYMMETRY Symmetry
INVARIANTS WorkersSurvive
CHECK_DEADLOCK FALSE
