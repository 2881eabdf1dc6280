CONSTANTS
  Budget = 3
  Drops = FALSE
  Overlap = FALSE
  Setups = TRUE
  Failures = FALSE

SPECIFICATION Spec

PROPERTY PauseKeepsReceiving
