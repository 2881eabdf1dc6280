CONSTANTS
  Budget = 6
  Drops = TRUE
  Overlap = TRUE
  Setups = TRUE
  Failures = FALSE

SPECIFICATION FairSpec

PROPERTIES StoppedClientLeaves SettlesIdle NetworkRecovers
