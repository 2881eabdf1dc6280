----------------------------- MODULE AudioPath -----------------------------
(***************************************************************************)
(* The small models of the AirPlay audio path: the search in the jitter    *)
(* buffer, the clock of the phone and the playback that follows it, the    *)
(* packets, a seek, the stream and the playback worker.  They share no     *)
(* state here; what they share in the program is told in each of them.     *)
(* The initial state chooses one part, and the behaviour is that of the    *)
(* part; the variables of the others stay zero.                            *)
(***************************************************************************)
EXTENDS SortedInsert, Sequences, FiniteSets

CONSTANTS
  Phones, TrueOffsets, Delays, MaxSteps, History, Bootstrap, Gate, MaxTrip, Holdover,
  MaxStreak, LockAge, Breaks, Overlap,                              \* of NtpClock
  OneSession, MaxAnchors, Refresh, EnterStreak, ExitStreak,         \* SyncMode
  SeqMod, MaxGap, MaxSent, Reorders, Fails,                         \* RtpReceive
  Places, Length, MaxFrames, Threshold, Window, SendAhead, MaxSeeks, \* SeekGates
  Faults,                                                           \* and of RtpStream
  Latency, Budget, MaxRepeats, Streak, LateDrops, Flushes           \* Rebuffer

VARIABLES
  job,  \* the part that was chosen
  ntpNet, ntpTask, ntp, ntpRing, timAnchor, timPost, timMode,
  rxSent, rxData, rxControl, rxLast, rxSeen, rxDecoded, rxAsked, rxBackoff,
  skSender, skFrames, skSyncs, skBuffer, skPassed, skBefore, skAbove, skArm, skAnchor,
  strRunning, strSockets, strTask, strHandles, strLate, strDecoder, strCaller,
  rbBuf, rbLive, rbStarted, rbAt, rbSeen, rbOn, rbStreak, rbZero, rbRepeats, rbOut, rbPlayed

Mode == INSTANCE SyncMode
Packets == INSTANCE RtpReceive
Gates == INSTANCE SeekGates
Stream == INSTANCE RtpStream
Worker == INSTANCE Rebuffer

searchVars == <<count, stamp, timestamp, lo, hi>>
clockVars == <<ntpNet, ntpTask, ntp, ntpRing, timAnchor, timPost, timMode>>
packetVars == <<rxSent, rxData, rxControl, rxLast, rxSeen, rxDecoded, rxAsked, rxBackoff>>
seekVars == <<skSender, skFrames, skSyncs, skBuffer, skPassed, skBefore, skAbove, skArm, skAnchor>>
streamVars == <<strRunning, strSockets, strTask, strHandles, strLate, strDecoder, strCaller>>
workerVars == <<rbBuf, rbLive, rbStarted, rbAt, rbSeen, rbOn, rbStreak, rbZero, rbRepeats,
                rbOut, rbPlayed>>

pathVars == <<job, searchVars, clockVars, packetVars, seekVars, streamVars, workerVars>>

-----------------------------------------------------------------------------
(* What the parts assume of their constants.                               *)

\* There is a least offset, and delays are even.
ClockAssumption ==
    /\ TrueOffsets \subseteq Int
    /\ \E least \in TrueOffsets : \A o \in TrueOffsets : least <= o
    /\ \A d \in Delays : d \in Nat /\ d % 2 = 0
    /\ MaxSteps \in Nat /\ History \in Nat \ {0} /\ Refresh \in Nat
    /\ Bootstrap \in Nat /\ MaxStreak \in Nat /\ LockAge \in Nat
    /\ MaxAnchors \in Nat /\ EnterStreak \in Nat /\ ExitStreak \in Nat

\* The gates cover the frames of a place, and whatever they let pass is no seek.
PlacesAssumption == /\ Places \subseteq Nat
                    /\ Length \in Nat /\ Threshold \in Nat /\ Window \in Nat
                    /\ SendAhead \in Nat
                    /\ Threshold <= Window /\ Length + SendAhead <= Window + 1

LevelsAssumption == /\ Latency \in Nat /\ Budget \in Nat
                    /\ MaxRepeats \in Nat /\ Streak \in Nat \ {0}
                    /\ LateDrops \in BOOLEAN /\ Flushes \in BOOLEAN

ASSUME PathAssumption ==
    /\ ClockAssumption /\ PlacesAssumption /\ LevelsAssumption
    /\ SeqMod \in Nat \ {0} /\ MaxFrames \in Nat \ {0}

-----------------------------------------------------------------------------
Does(part) == job = part

\* The variables of a part that was not chosen.
SearchIdle == count = 0 /\ stamp = <<>> /\ timestamp = 0 /\ lo = 0 /\ hi = 0
ClockIdle == /\ ntpNet = 0 /\ ntpTask = 0 /\ ntp = 0 /\ ntpRing = 0
             /\ timAnchor = 0 /\ timPost = 0 /\ timMode = 0
PacketsIdle == /\ rxSent = 0 /\ rxData = 0 /\ rxControl = 0 /\ rxLast = 0 /\ rxSeen = 0
               /\ rxDecoded = 0 /\ rxAsked = 0 /\ rxBackoff = 0
SeekIdle == /\ skSender = 0 /\ skFrames = 0 /\ skSyncs = 0 /\ skBuffer = 0 /\ skPassed = 0
            /\ skBefore = 0 /\ skAbove = 0 /\ skArm = 0 /\ skAnchor = 0
StreamIdle == /\ strRunning = 0 /\ strSockets = 0 /\ strTask = 0
              /\ strHandles = 0 /\ strLate = 0 /\ strDecoder = 0 /\ strCaller = 0
WorkerIdle == /\ rbBuf = 0 /\ rbLive = 0 /\ rbStarted = 0 /\ rbAt = 0 /\ rbSeen = 0
              /\ rbOn = 0 /\ rbStreak = 0 /\ rbZero = 0 /\ rbRepeats = 0
              /\ rbOut = 0 /\ rbPlayed = 0

PathInit ==
    /\ job \in {"search", "clock", "packets", "seek", "stream", "worker"}
    /\ IF Does("search") THEN Init ELSE SearchIdle
    /\ IF Does("clock") THEN Mode!Init ELSE ClockIdle
    /\ IF Does("packets") THEN Packets!Init ELSE PacketsIdle
    /\ IF Does("seek") THEN Gates!Init ELSE SeekIdle
    /\ IF Does("stream") THEN Stream!Init ELSE StreamIdle
    /\ IF Does("worker") THEN Worker!Init ELSE WorkerIdle

PathNext ==
    /\ UNCHANGED job
    /\ IF Does("search") THEN Next ELSE UNCHANGED searchVars
    /\ IF Does("clock") THEN Mode!Next ELSE UNCHANGED clockVars
    /\ IF Does("packets") THEN Packets!Next ELSE UNCHANGED packetVars
    /\ IF Does("seek") THEN Gates!Next ELSE UNCHANGED seekVars
    /\ IF Does("stream") THEN Stream!Next ELSE UNCHANGED streamVars
    /\ IF Does("worker") THEN Worker!Next ELSE UNCHANGED workerVars

\* The fairness of each part, as its specification states it.
PathFairness ==
    /\ WF_searchVars(Does("search") /\ Next)
    /\ SF_clockVars(/\ Does("clock") /\ \E there, back \in Delays : Mode!Answer(there, back)
                    /\ UNCHANGED <<timAnchor, timPost, timMode>>)
    /\ WF_packetVars(Does("packets") /\ Packets!ReceiveSome)
    /\ \A i \in 0..(MaxSent - 1) : WF_packetVars(Does("packets") /\ Packets!Answer(i))
    /\ WF_seekVars(Does("seek") /\ Gates!Send)
    /\ WF_seekVars(Does("seek") /\ Gates!Sync)
    /\ WF_seekVars(Does("seek") /\ Gates!Anchor)
    /\ WF_seekVars(Does("seek") /\ Gates!Receive)
    /\ WF_seekVars(Does("seek") /\ Gates!Queue)
    /\ \A c \in Stream!Callers : WF_streamVars(Does("stream") /\ Stream!Acts(c))
    /\ WF_streamVars(Does("stream") /\ Stream!Decoded)
    /\ \A t \in Stream!Tasks : /\ WF_streamVars(Does("stream") /\ Stream!Leave(t))
                               /\ WF_streamVars(Does("stream") /\ Stream!Gone(t))
    /\ WF_workerVars(Does("worker") /\ Worker!Worker)
    /\ WF_workerVars(Does("worker") /\ Worker!Arrive /\ rbBuf' # rbBuf)

PathSpec == PathInit /\ [][PathNext]_pathVars /\ PathFairness

-----------------------------------------------------------------------------
(* Properties: each conjunct is stated, and explained, in the part's module. *)

\* What every state of the parts of the audio path satisfies.
AudioSafe ==
    /\ Does("search") => TypeOK /\ PositionSplits
    /\ Does("clock") => /\ Mode!TypeOK /\ Mode!ErrorBounded
                        /\ (~Overlap => Mode!NtpMemoryFree)
                        /\ (OneSession /\ Mode!NoZeroOffset => Mode!TargetsAgree)
    /\ Does("packets") => Packets!TypeOK /\ (~Reorders => Packets!NothingSeenAsked)
    /\ Does("seek") => Gates!TypeOK /\ (Faults = {} => Gates!OldPlaceSilent)
    /\ Does("stream") => Stream!StateAgrees
    /\ Does("worker") => Worker!TypeOK

\* What no step of them may do.
AudioSteps == [][
    /\ Does("clock") => Mode!FollowsClock
    /\ Does("packets") /\ ~Reorders => Packets!AsksOnce
    /\ Does("stream") => Stream!TakesFreeStack /\ Stream!KeepsDecoder
    /\ Does("worker") /\ ~LateDrops /\ ~Flushes => Worker!PlaysFirst]_pathVars

\* What comes to happen in them: the search ends, the place of a seek is heard,
\* a stop comes back and leaves no task, ...
Begins(c) == \/ Does("search")
             \/ Does("seek") /\ Gates!Arrived
             \/ Does("stream") /\ Stream!Stops(c)
Ends(c) == \/ Does("search") /\ Done
           \/ Does("seek") /\ Gates!Heard
           \/ Does("stream") /\ Stream!Stopped(c)

\* ... and what was asked for again is decoded, the clock tracks the phone, and a
\* stream that stays is heard.
AudioLive ==
    /\ \A c \in Stream!Callers : Begins(c) ~> Ends(c)
    /\ <>[](Does("packets") => rxAsked \subseteq rxDecoded)
    /\ <>[](Does("clock") /\ Mode!ClientRuns) => <>[](Does("clock") /\ Mode!is_tracking)
    /\ <>[](Does("worker") /\ rbLive) => []<>(Does("worker") /\ rbOut = "audio")
=============================================================================
