CONSTANTS
  Preemptive = FALSE
  CodecFails = FALSE
  rtsp = rtsp
  net_mon = net_mon
  AirTasks <- MCAirTasks
  Rtsp = rtsp
  Ctrl = ctrl
  Play = play

SPECIFICATION FairSpec

INVARIANTS TypeOK OwnerForWholeReply WorkerStoppedWhileHeld
PROPERTIES PlaybackRecovers VoiceNotLockedOut
