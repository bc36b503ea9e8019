SPECIFICATION Spec
CONSTANTS
  Callers = {c1}
  Main = Main
  Faults = {}
PROPERTIES ExitUnblocks
CHECK_DEADLOCK FALSE
