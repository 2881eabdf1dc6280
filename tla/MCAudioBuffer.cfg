CONSTANTS
  Modulus = 6
  Capacity = 3
  MaxChunks = 1
  ChunkLen = 1
  rtp = rtp
  rtsp = rtsp
  Producers <- MCProducers
  Flushers <- MCFlushers
  Player = player
  NoSlot = noslot

SPECIFICATION Spec

INVARIANTS TypeOK SlotsConserved IndexSorted MirrorExact
PROPERTIES DropOnlyWhileHeld ImplementsQueue
