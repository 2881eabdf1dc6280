CONSTANTS
  Modulus = 6
  MaxCount = 5
  History = 2
  Bootstrap = 2
  Gate = 5
  MaxTrip = 20
  Breaks = TRUE
  Overlap = FALSE
  OneSession = TRUE
  Refresh = 0
  EnterStreak = 2
  ExitStreak = 2
  SeqMod = 5
  MaxGap = 3
  Places = {0, 6, 30}
  MaxFrames = 2
  rtp = rtp
  rtsp = rtsp
  player = player
  noslot = noslot
  Threshold = 3
  Window = 6
  SendAhead = 1
  Phones = {"A", "B"}
  TrueOffsets = {30}
  Delays = {0, 2, 4}
  MaxSteps = 0
  Holdover = 2
  MaxStreak = 2
  LockAge = 3
  MaxAnchors = 0
  MaxSent = 7
  Reorders = FALSE
  Fails = FALSE
  Length = 4
  MaxSeeks = 2
  Faults = {}
  Latency = 6
  Budget = 10
  MaxRepeats = 2
  Streak = 3
  LateDrops = FALSE
  Flushes = FALSE

SPECIFICATION MCSpec

INVARIANT AudioSafe
PROPERTIES FaultsSafe AudioSteps AudioLive NoStrandedFrame

CHECK_DEADLOCK FALSE
