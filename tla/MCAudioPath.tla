----------------------------- MODULE MCAudioPath -----------------------------
(***************************************************************************)
(* TLC instance of AudioPath, three times: without faults; with all of     *)
(* them, and a phone that sets its clock within the gate or far beyond;    *)
(* and its clock as sessions use it that overlap.  Fourth, the jitter      *)
(* buffer of AudioBuffer, whose frames must not strand.  The initial state *)
(* chooses; job is "none" but in the first.                                *)
(***************************************************************************)
EXTENDS AudioPath

CONSTANTS rtp, rtsp, player, noslot

VARIABLES
  loose,   \* "clock" if it was chosen as any sessions use it, or "none"
  faulty,  \* the part that was chosen with its faults, "jitter", or "none"
  sorted, free_stack, count_mirror, slotStamp, tokens, queuing, taking, held, heldStamp, draining

jitterVars == <<sorted, free_stack, count_mirror, slotStamp, tokens, queuing, taking,
                held, heldStamp, draining>>

Faulty == INSTANCE AudioPath
    WITH job <- faulty, Phones <- {"A"}, TrueOffsets <- {30, 33, 50}, Delays <- {0},
         MaxSteps <- 1, Holdover <- 1, MaxStreak <- 1, LockAge <- 2, MaxAnchors <- 2,
         MaxSent <- 2, Reorders <- TRUE, Fails <- TRUE, Length <- 2, MaxSeeks <- 1,
         Faults <- Gates!AllFaults \cup Stream!AllFaults, Latency <- 3, Budget <- 5,
         MaxRepeats <- 1, Streak <- 2, LateDrops <- TRUE, Flushes <- TRUE

\* The clock as overlapping sessions use it, of a phone that may show the
\* receiver's own time.
Loose == INSTANCE AudioPath
    WITH job <- loose, Phones <- {"A"}, TrueOffsets <- {0, 3}, Delays <- {0}, MaxSteps <- 1,
         Holdover <- 1, MaxStreak <- 1, LockAge <- 1, MaxAnchors <- 1,
         Overlap <- TRUE, OneSession <- FALSE

\* Both are instances AudioPathProofs is about.
ASSUME FaultyAssumption ==
    /\ Faulty!ClockAssumption /\ Faulty!PlacesAssumption /\ Faulty!LevelsAssumption
    /\ Loose!ClockAssumption

\* With two slots, one in the hand of the playback task, overflow and an empty
\* pool happen; with one producer and one flush the semaphore drifts.
Jitter == INSTANCE AudioBuffer
    WITH Capacity <- 2, MaxChunks <- 2, ChunkLen <- 1, Producers <- {rtp},
         Flushers <- {rtsp}, Player <- player, NoSlot <- noslot, stamp <- slotStamp

JitterIdle == /\ sorted = 0 /\ free_stack = 0 /\ count_mirror = 0 /\ slotStamp = 0 /\ tokens = 0
              /\ queuing = 0 /\ taking = 0 /\ held = 0 /\ heldStamp = 0 /\ draining = 0

MCInit ==
    \/ PathInit /\ faulty = "none" /\ loose = "none" /\ JitterIdle
    \/ Faulty!PathInit /\ job = "none" /\ loose = "none" /\ JitterIdle
    \/ Loose!PathInit /\ loose = "clock" /\ job = "none" /\ faulty = "none" /\ JitterIdle
    \/ /\ Jitter!Init /\ job = "none" /\ faulty = "jitter" /\ loose = "none"
       /\ SearchIdle /\ ClockIdle /\ PacketsIdle /\ SeekIdle /\ StreamIdle /\ WorkerIdle

MCNext ==
    \/ job # "none" /\ PathNext /\ UNCHANGED <<faulty, loose, jitterVars>>
    \/ faulty \notin {"none", "jitter"} /\ Faulty!PathNext /\ UNCHANGED <<job, loose, jitterVars>>
    \/ loose # "none" /\ Loose!PathNext /\ UNCHANGED <<job, faulty, jitterVars>>
    \/ faulty = "jitter" /\ Jitter!Next /\ UNCHANGED <<faulty, loose, pathVars>>

\* The fairness of AudioBuffer, as it states it.
JitterFairness ==
    /\ WF_jitterVars(faulty = "jitter" /\ Jitter!Play)
    /\ WF_jitterVars(/\ faulty = "jitter"
                     /\ Jitter!QueueChunk(rtp) \/ Jitter!QueueFull(rtp) \/ Jitter!QueueGive(rtp))
    /\ \A f \in {rtsp, player} :
          /\ WF_jitterVars(faulty = "jitter" /\ Jitter!FlushDrain(f))
          /\ SF_jitterVars(faulty = "jitter" /\ Jitter!FlushDrain(f) /\ tokens = 0)

MCSpec == MCInit /\ [][MCNext]_<<pathVars, faulty, loose, jitterVars>> /\ PathFairness /\ JitterFairness

\* NoStrandedFrame of AudioBuffer.
Buffered == faulty = "jitter" /\ Jitter!count > 0
NoStrandedFrame == Buffered ~> (~Buffered \/ held # noslot)

\* What AudioSafe and AudioSteps leave of their claims with every fault of
\* ntp_clock.c, audio_stream_realtime.c, audio_receiver.c and the worker.
FaultsSafe == /\ []Faulty!AudioSafe /\ Faulty!AudioSteps
              /\ []Loose!AudioSafe /\ Loose!AudioSteps
=============================================================================
