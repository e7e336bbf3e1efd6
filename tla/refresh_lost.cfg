SPECIFICATION Spec
CONSTANTS
  NoCaller = NoCaller
  Callers = {p1, p2}
  Interventions = {"cancel"}
  MaxToken = 2
  MaxVersion = 1
INVARIANT RotatedTokenKept
CHECK_DEADLOCK FALSE
