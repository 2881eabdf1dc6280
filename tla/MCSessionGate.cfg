CONSTANTS
  Budget = 6
  Drops = FALSE
  Overlap = TRUE
  Setups = TRUE
  Failures = FALSE

SPECIFICATION Spec

INVARIANT GateClosedInSession
