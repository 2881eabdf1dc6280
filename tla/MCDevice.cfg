CONSTANTS
  writer = writer
  other = other
  Sample = {0, 1}
  Silence = 0
  Cap = 4
  MaxChunk = 5
  Events <- MCEvents
  MaxLines = 2
  LineCap = 3
  LineMax = 8
  ReplyMax = 2
  Short = TRUE
  MaxLeaks = 2
  FastRetries = 2
  MaxDrops = 3
  Readings <- MCReadings
  Cooldown = 2
  Answers = {"ok", "busy", "invalid state", "not supported"}
  Initial = 3
  Slack = 1
  Large = 7
  HeadLen = 2
  Bodies = {0, 1, 4, 5, 6}
  Parts <- MCParts
  Builds <- MCBuilds
  MaxBoots = 4
  Fails = FALSE
  Reminders = FALSE
  Refuses = FALSE
  Faults = {}
  MaxMoves = 3
  AddFails = FALSE
  MaxRequests = 3
  AllocFails = FALSE
  Writers = {writer}
  Voices = {"off", "standby", "listening", "thinking", "error"}
  BlinkDur = 3
  MaxCalls = 2
  Timeouts = FALSE
  Lights = {0, 5, 6, 30, 31, 301, 1000, 65535}
  MaxChanges = 2
  StartFails = FALSE

SPECIFICATION MCSpec

INVARIANTS CloudSafe DeviceSafe FaultsSafe
PROPERTIES ImplementsFifo RemindersKept DeviceLive

CHECK_DEADLOCK FALSE
