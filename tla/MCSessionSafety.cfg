CONSTANTS
  Budget = 9
  Drops = TRUE
  Overlap = TRUE
  Setups = FALSE
  Failures = TRUE

SPECIFICATION Spec

INVARIANTS TypeOK SlotFreeBeforeReuse OneServingClient StreamWithinConnection
