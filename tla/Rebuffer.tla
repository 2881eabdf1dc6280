-------------------------------- MODULE Rebuffer --------------------------------
(***************************************************************************)
(* The playback worker when frames run short (playback_task of             *)
(* audio_output_common.c): it repeats the last good block, fading, then    *)
(* writes silence, and at low water it stops reading until the buffer has  *)
(* been full enough for some rounds.  A round looks at the buffer and at   *)
(* the receiver once, and acts on what it saw.  The levels are those of    *)
(* audio_timing.c and audio_buffer.c, in frames.                           *)
(***************************************************************************)
EXTENDS Integers

CONSTANTS Latency,     \* CONFIG_AUDIO_TARGET_LATENCY_MS, in frames
          Budget,      \* CONFIG_AUDIO_MAX_BUFFER_MS, in frames
          MaxRepeats,  \* GAP_CONCEAL_REPEAT_MAX (16)
          Streak,      \* REBUFFER_RESUME_STREAK_REQUIRED (3)
          LateDrops,   \* may the timing drop all that is buffered as late?
          Flushes      \* may the stream be flushed, or wait for an anchor?

VARIABLES
  rbBuf,      \* frames in the jitter buffer
  rbLive,     \* is a realtime stream playing, with an anchor?
  rbStarted,  \* timing.playout_started
  rbAt,       \* the next step of the worker: "look" or "act"
  rbSeen,     \* [buf, live]: what the round saw
  rbOn,       \* rebuffering
  rbStreak,   \* rebuffer_resume_streak
  rbZero,     \* zero_read_count, up to two
  rbRepeats,  \* concealment_repeats
  rbOut,      \* what was written last: "none", "audio", "repeat" or "silence"
  rbPlayed    \* was audio written since the last rebuffering?

rbVars == <<rbBuf, rbLive, rbStarted, rbAt, rbSeen, rbOn, rbStreak, rbZero, rbRepeats,
            rbOut, rbPlayed>>

AtLeast(n, least) == IF n < least THEN least ELSE n

\* audio_buffer_capacity_for_budget, up to 256 frames.
Capacity == AtLeast(Budget, 16)

\* update_timing_targets: never as much as the budget.
Target == IF AtLeast(Latency, 4) >= AtLeast(Budget, 4) THEN AtLeast(AtLeast(Budget, 4) - 1, 4)
          ELSE AtLeast(Latency, 4)

\* rebuffer_low_water_frames.
LowWater == CASE Target <= 4 -> Target [] Target \in 5..8 -> Target \div 2
              [] OTHER -> AtLeast(Target \div 3, 4)

\* Mutant: playing goes on at low water.
MutLowResume == LowWater

\* Mutant: ten times the margin, more than the buffer holds.
MutHighResume == Target + 20

\* rebuffer_resume_frames.
Resume == AtLeast((Target * 11 + 4) \div 10, Target + 2)

Init == /\ rbBuf = 0 /\ rbLive = ~Flushes /\ rbStarted = FALSE
        /\ rbAt = "look" /\ rbSeen = [buf |-> 0, live |-> FALSE]
        /\ rbOn = FALSE /\ rbStreak = 0 /\ rbZero = 0 /\ rbRepeats = 0
        /\ rbOut = "none" /\ rbPlayed = TRUE

-----------------------------------------------------------------------------
(* The round.                                                              *)

See == rbSeen' = [buf |-> rbBuf, live |-> rbLive]

\* A round without a rebuffering.
Look == /\ rbAt = "look" /\ ~rbOn
        /\ See /\ rbAt' = "act"
        /\ UNCHANGED <<rbBuf, rbLive, rbStarted, rbOn, rbStreak, rbZero, rbRepeats, rbOut, rbPlayed>>

\* The stream is no longer one to wait for; the counts stay.
GiveUp == /\ rbAt = "look" /\ rbOn /\ ~rbLive
          /\ See /\ rbAt' = "act"
          /\ rbOn' = FALSE /\ rbStreak' = 0
          /\ UNCHANGED <<rbBuf, rbLive, rbStarted, rbZero, rbRepeats, rbOut, rbPlayed>>

NextStreak == IF rbBuf >= Resume THEN rbStreak + 1 ELSE 0

\* The buffer was full enough for the rounds required.
Done == /\ rbAt = "look" /\ rbOn /\ rbLive
        /\ NextStreak >= Streak
        /\ See /\ rbAt' = "act"
        /\ rbOn' = FALSE /\ rbStreak' = 0 /\ rbZero' = 0 /\ rbRepeats' = 0
        /\ UNCHANGED <<rbBuf, rbLive, rbStarted, rbOut, rbPlayed>>

Wait == /\ rbAt = "look" /\ rbOn /\ rbLive
        /\ NextStreak < Streak
        /\ See /\ rbStreak' = NextStreak
        /\ rbOut' = "silence"
        /\ UNCHANGED <<rbBuf, rbLive, rbStarted, rbAt, rbOn, rbZero, rbRepeats, rbPlayed>>

\* What the timing makes of a read: playout starts at the target.
Starts == rbStarted \/ rbBuf >= Target
HasAudio == rbLive /\ Starts /\ rbBuf > 0

Play == /\ rbAt = "act" /\ HasAudio
        /\ rbAt' = "look"
        /\ rbBuf' = rbBuf - 1 /\ rbStarted' = TRUE
        /\ rbOut' = "audio" /\ rbRepeats' = 0 /\ rbZero' = 0
        /\ rbPlayed' = TRUE
        /\ UNCHANGED <<rbLive, rbSeen, rbOn, rbStreak>>

\* At low water: the second empty read, by what the round saw before it.
Enters == rbSeen.live /\ rbSeen.buf <= LowWater /\ rbZero >= 1

\* audio_receiver_rebuffer_start, whatever the receiver does meanwhile.
Enter == /\ rbOn' = TRUE /\ rbStreak' = 0
         /\ rbStarted' = FALSE
         /\ rbRepeats' = MaxRepeats
         /\ rbOut' = "silence"
         /\ rbPlayed' = FALSE

\* Mutant: the blocks are repeated on and on.
MutMayRepeat == rbOut # "none"

\* There is a last good block once audio was written.
MayRepeat == rbRepeats < MaxRepeats /\ rbOut # "none"

Conceal == /\ rbOut' = IF MayRepeat THEN "repeat" ELSE "silence"
           /\ rbRepeats' = IF MayRepeat THEN rbRepeats + 1 ELSE rbRepeats
           /\ rbStarted' = (rbStarted \/ (rbLive /\ Starts))
           /\ UNCHANGED <<rbOn, rbStreak, rbPlayed>>

ReadNothing == /\ rbAt = "act"
               /\ \/ ~HasAudio /\ UNCHANGED rbBuf
                  \/ LateDrops /\ HasAudio /\ rbBuf' = 0
               /\ rbAt' = "look"
               /\ rbZero' = IF rbZero < 2 THEN rbZero + 1 ELSE 2
               /\ IF Enters THEN Enter ELSE Conceal
               /\ UNCHANGED <<rbLive, rbSeen>>

-----------------------------------------------------------------------------
(* The other tasks.                                                        *)

\* A full buffer lets its oldest frame go.
Arrive == /\ rbBuf' = IF rbBuf < Capacity THEN rbBuf + 1 ELSE Capacity
          /\ UNCHANGED <<rbLive, rbStarted, rbAt, rbSeen, rbOn, rbStreak, rbZero, rbRepeats,
                         rbOut, rbPlayed>>

\* A flush or a pause, and the anchor or the record after it.
Flush == /\ Flushes /\ rbLive
         /\ rbLive' = FALSE /\ rbStarted' = FALSE
         /\ rbBuf' \in {0, rbBuf}
         /\ UNCHANGED <<rbAt, rbSeen, rbOn, rbStreak, rbZero, rbRepeats, rbOut, rbPlayed>>

Goes == /\ Flushes /\ ~rbLive
        /\ rbLive' = TRUE
        /\ UNCHANGED <<rbBuf, rbStarted, rbAt, rbSeen, rbOn, rbStreak, rbZero, rbRepeats,
                       rbOut, rbPlayed>>

Worker == Look \/ GiveUp \/ Done \/ Wait \/ Play \/ ReadNothing
Next == Worker \/ Arrive \/ Flush \/ Goes

\* The worker runs and frames come.
Spec == /\ Init /\ [][Next]_rbVars
        /\ WF_rbVars(Worker) /\ WF_rbVars(Arrive /\ rbBuf' # rbBuf)

-----------------------------------------------------------------------------
(* Properties.                                                             *)

TypeOK == /\ rbBuf \in 0..Capacity
          /\ Target < Capacity /\ LowWater <= Target
          /\ rbStreak < Streak /\ rbRepeats \in 0..MaxRepeats

\* The worker does not bounce: while the stream stays, audio is written between
\* two rebufferings.
PlaysFirst == ~rbOn /\ rbOn' => rbPlayed
PlaysBetween == [][PlaysFirst]_rbVars

\* A stream that stays, and whose frames come, is heard again and again.
AudioHeard == <>[]rbLive => []<>(rbOut = "audio")

\* What is repeated is what was just heard.
NoOldRepeat == [][rbOut' = "repeat" => rbOut \in {"audio", "repeat"}]_rbVars

=============================================================================
