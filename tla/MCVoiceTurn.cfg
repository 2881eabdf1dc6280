CONSTANTS
  Clips = {0, 1, 3}
  Prefill = 2
  LongPlay = 3
  Margin = 2
  Default = 4
  Failures = TRUE

SPECIFICATION FairSpec

INVARIANTS TypeOK MemoryFree RequestNeverTimesOut PlayingHasPlayer SpeakerReturned
PROPERTIES TurnEnds TapAnswered

\* A controller that hangs in its feed is the end of the voice.
CHECK_DEADLOCK FALSE
