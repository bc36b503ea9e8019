SPECIFICATION FairSpec
CONSTANTS
  Callers = {c1, c2}
  Main = Main
  Faults = {"error", "cut_short", "kill", "restart"}
INVARIANTS TypeOK StatusMatchesFirewall
PROPERTIES LoneRequestTakesEffect LoneExitUnblocks RequestsComplete StopCompletes
