------------------------------ MODULE VoiceTurn ------------------------------
(***************************************************************************)
(* One voice turn: the user taps (push to talk), the front end records,    *)
(* the controller uploads the recording and waits for the whole reply, the *)
(* player plays it.                                                        *)
(*                                                                         *)
(* Tasks: the controller (voice_controller.c, priority 4), the play task   *)
(* (voice_player.c, priority 5) and the front end task                     *)
(* (voice_frontend_v2.c, priority 5) on core 0, the tap on core 1, and the *)
(* network monitor (app_core.c), which starts and stops the controller     *)
(* with the Wi-Fi.  AirPlay is an environment that claims the resource     *)
(* manager.  No two of them share a lock: a stop writes a flag and sleeps  *)
(* 100 ms, and every task has static memory that its successor uses again. *)
(*                                                                         *)
(* The cloud is seen through its answer: a clip of some length, or an      *)
(* error.  A clip is counted in units: fewer than Prefill of them never    *)
(* fill the 500 ms the player waits for, LongPlay take longer than the     *)
(* 60 s the controller grants.  Time is otherwise a choice: a step that    *)
(* waits for time may be taken once the code's conditions hold.            *)
(***************************************************************************)
EXTENDS Integers

CONSTANTS Clips,     \* lengths of the replies the cloud may send
          Prefill,   \* units the play task waits for before it plays
          LongPlay,  \* units that outlast the time-out of a reply
          Margin,    \* units of room the ring must have beyond the clip (2 s)
          Default,   \* units the ring holds at first (5 s)
          Failures   \* may allocations, the codec or the client fail?

ASSUME ClipAssumption == /\ Prefill \in Nat \ {0} /\ LongPlay \in Nat \ {0}
                         /\ Clips \subseteq Nat
                         /\ Margin \in Nat /\ Default \in Nat \ {0}
ASSUME ModeAssumption == Failures \in BOOLEAN

VARIABLES
  ctl,     \* controller task: its label, where a blocking stop returns, a clip
  turn,    \* s of voice_controller.c: running, state, recording, chunks > 0
  fe,      \* front end: task, s_running, s_paused
  play,    \* label of the play task, "none" when there is none
  player,  \* s_playing, the ring and its capacity (0: none), the work buffers,
           \* s_upstream_complete, units played, the client initialised
  speaker, \* owned: s_external_owner; left: how the last play task ended
  world    \* network_ready, AirPlay active, what net_mon is doing, and (history)
           \* whether its last stop left a controller behind that was not gone

vars == <<ctl, turn, fe, play, player, speaker, world>>

State == {"IDLE", "REQUESTING", "PLAYING"}

Init == /\ ctl = [at |-> "none", ret |-> "none", clip |-> 0]
        /\ turn = [running |-> FALSE, state |-> "IDLE", recording |-> FALSE, heard |-> FALSE]
        /\ fe = [task |-> "none", running |-> FALSE, paused |-> FALSE]
        /\ play = "none"
        /\ player = [playing |-> FALSE, ring |-> 0, cap |-> Default, bufs |-> "none",
                     complete |-> FALSE, played |-> 0, client |-> FALSE]
        /\ speaker = [owned |-> FALSE, left |-> "closed"]
        /\ world = [net |-> FALSE, air |-> FALSE, voice |-> "down", forgot |-> FALSE]

-----------------------------------------------------------------------------
(* Scheduling.  The play task has the higher priority on the core it shares *)
(* with the controller, and does not block before its first poll.  It polls *)
(* every 10 ms in its prefill and with every chunk (20 ms) while it plays:  *)
(* a stop's 100 ms are enough for it to see the flag.  They need not be     *)
(* enough for what it does then: it talks to the codec, and its callback    *)
(* may wait 2 s for AirPlay's worker.                                       *)

Polling == play \in {"boot", "prefill", "play"}

PlayDue == \/ play = "boot"
           \/ play = "prefill" /\ (~player.playing \/ player.ring >= Prefill)
           \/ play = "play" /\ ~player.playing

Continues(label) == ctl.at = label /\ play # "boot"

\* The cloud's answer comes back: a request outlasts the closing of a codec, so
\* that a play task that was stopped before it has closed by now.
Answers == Continues("upload") /\ (play = "close" => player.playing)

Goto(label) == ctl' = [ctl EXCEPT !.at = label]

\* Mutant: a stop that does not wait.
MutStopPlayer(ret) == /\ player' = [player EXCEPT !.playing = FALSE, !.complete = FALSE]
                      /\ Goto(ret)

\* voice_player_stop: the flag, then 100 ms; the cleanup is the play task's.
StopPlayer(ret) ==
    IF player.playing
    THEN /\ player' = [player EXCEPT !.playing = FALSE, !.complete = FALSE]
         /\ ctl' = [ctl EXCEPT !.at = "stopping", !.ret = ret]
    ELSE Goto(ret) /\ UNCHANGED player

Stopped == /\ ctl.at = "stopping" /\ ~Polling
           /\ ctl' = [ctl EXCEPT !.at = ctl.ret, !.ret = "none"]
           /\ UNCHANGED <<turn, fe, play, player, speaker, world>>

PauseFrontend == fe' = [fe EXCEPT !.paused = @ \/ fe.running]

-----------------------------------------------------------------------------
(* The play task.                                                          *)

\* The work buffers are allocated if their recorded sizes are too small.
PlayBoot == /\ play = "boot" /\ player.bufs # "lost"
            /\ play' = "prefill"
            /\ player' = [player EXCEPT !.bufs = "held"]
            /\ UNCHANGED <<ctl, turn, fe, speaker, world>>

\* Without a buffer the task goes at once: the size is recorded all the same,
\* the ERROR event is ignored, the speaker kept and the ring left as it is.
PlayBootFails == /\ play = "boot"
                 /\ player.bufs = "lost" \/ (Failures /\ player.bufs = "none")
                 /\ play' = "none"
                 /\ player' = [player EXCEPT !.playing = FALSE, !.bufs = "lost"]
                 /\ speaker' = [speaker EXCEPT !.left = "memory"]
                 /\ UNCHANGED <<ctl, turn, fe, world>>

PrefillDone == /\ play = "prefill" /\ player.playing /\ player.ring >= Prefill
               /\ play' = "play"
               /\ UNCHANGED <<ctl, turn, fe, player, speaker, world>>

\* A stop before the prefill is complete skips the cleanup.
PrefillAbandoned == /\ play = "prefill" /\ ~player.playing
                    /\ play' = "none"
                    /\ speaker' = [speaker EXCEPT !.left = "prefill"]
                    /\ UNCHANGED <<ctl, turn, fe, player, world>>

PlayChunk == /\ play = "play" /\ player.playing /\ player.ring > 0
             /\ player' = [player EXCEPT !.ring = @ - 1,
                                         !.played = IF @ < LongPlay THEN @ + 1 ELSE @]
             /\ UNCHANGED <<ctl, turn, fe, play, speaker, world>>

\* The stall of 120 s cannot happen: the whole clip is fed before it plays.
PlayEnd == /\ play = "play"
           /\ ~player.playing \/ (player.ring = 0 /\ player.complete)
           /\ play' = "close"
           /\ UNCHANGED <<ctl, turn, fe, player, speaker, world>>

\* Mutant: the speaker is closed and not released.
MutPlayClose == /\ play = "close"
                /\ play' = "notify"
                /\ speaker' = [speaker EXCEPT !.left = "closed"]
                /\ player' = [player EXCEPT !.ring = 0, !.playing = FALSE]
                /\ UNCHANGED <<ctl, turn, fe, world>>

\* Codec closed and released, ring reset, then s_playing cleared.
PlayClose == /\ play = "close"
             /\ play' = "notify"
             /\ speaker' = [owned |-> FALSE, left |-> "closed"]
             /\ player' = [player EXCEPT !.ring = 0, !.playing = FALSE]
             /\ UNCHANGED <<ctl, turn, fe, world>>

\* player_event_cb(STOPPED): the refresh may block, then the state is overwritten.
PlayNotify == /\ play = "notify"
              /\ play' = "none"
              /\ turn' = [turn EXCEPT !.state = "IDLE"]
              /\ UNCHANGED <<ctl, fe, player, speaker, world>>

PlayTask == PlayBoot \/ PlayBootFails \/ PrefillDone \/ PrefillAbandoned \/ PlayChunk \/ PlayEnd
            \/ PlayClose \/ PlayNotify

-----------------------------------------------------------------------------
(* The front end task and the tap.                                         *)

FeReady == /\ fe.task = "boot"
           /\ fe' = [fe EXCEPT !.task = "run"]
           /\ UNCHANGED <<ctl, turn, play, player, speaker, world>>

FeFails == /\ Failures /\ fe.task = "boot"
           /\ fe' = [fe EXCEPT !.task = "none", !.running = FALSE]
           /\ UNCHANGED <<ctl, turn, play, player, speaker, world>>

\* frontend_event_cb(AUDIO): dropped while AirPlay is active.
FeChunk == /\ fe.task = "run" /\ fe.running /\ ~fe.paused
           /\ ~world.air /\ turn.recording
           /\ turn' = [turn EXCEPT !.heard = TRUE]
           /\ UNCHANGED <<ctl, fe, play, player, speaker, world>>

FeExit == /\ fe.task = "run" /\ ~fe.running
          /\ fe' = [fe EXCEPT !.task = "none"]
          /\ UNCHANGED <<ctl, turn, play, player, speaker, world>>

\* voice_controller_notify_user_speech_start, at any time.
Tap == /\ ~world.air /\ turn.running /\ ~turn.recording
       /\ turn' = [turn EXCEPT !.recording = TRUE, !.heard = FALSE]
       /\ UNCHANGED <<ctl, fe, play, player, speaker, world>>

-----------------------------------------------------------------------------
(* The controller task.                                                    *)

\* Record buffer, then player and client; what fails stays unusable.
Boot == /\ Continues("boot")
        /\ \/ /\ Goto("loop")
              /\ turn' = [turn EXCEPT !.state = "IDLE"]
              /\ \E client, ring \in IF Failures THEN BOOLEAN ELSE {TRUE} :
                     player' = [player EXCEPT !.client = client,
                                              !.cap = IF ring THEN Default ELSE 0]
           \/ /\ Failures
              /\ Goto("none")
              /\ turn' = [turn EXCEPT !.running = FALSE]
              /\ UNCHANGED player
        /\ UNCHANGED <<fe, play, speaker, world>>

NoNetwork == /\ Continues("loop") /\ turn.running /\ ~world.net
             /\ PauseFrontend
             /\ UNCHANGED <<ctl, turn, play, player, speaker, world>>

\* AirPlay has the speaker: a reply that plays is stopped, the state left alone.
AirplayGate == /\ Continues("loop") /\ turn.running /\ world.net /\ world.air
               /\ PauseFrontend
               /\ StopPlayer("loop")
               /\ UNCHANGED <<turn, play, speaker, world>>

\* Mutant: a paused front end is never resumed.
MutListen == /\ Continues("loop") /\ turn.running /\ world.net /\ ~world.air
             /\ Goto("turn")
             /\ fe' = IF fe.running THEN fe
                      ELSE [task |-> "boot", running |-> TRUE, paused |-> FALSE]
             /\ UNCHANGED <<turn, play, player, speaker, world>>

\* The front end is started or resumed, whatever paused it.
Listen == /\ Continues("loop") /\ turn.running /\ world.net /\ ~world.air
          /\ Goto("turn")
          /\ \/ fe.running /\ fe' = [fe EXCEPT !.paused = FALSE]
             \/ /\ ~fe.running
                /\ fe.task = "none"
                /\ fe' = [task |-> "boot", running |-> TRUE, paused |-> FALSE]
          /\ UNCHANGED <<turn, play, player, speaker, world>>

\* No stack for the front end: tried again in the next round.
ListenFails == /\ Failures /\ ~fe.running
               /\ Continues("loop") /\ turn.running /\ world.net /\ ~world.air
               /\ Goto("turn")
               /\ UNCHANGED <<turn, fe, play, player, speaker, world>>

\* Six seconds, or 2.5 s and silence, since the tap: the recording is sent.
SendRecording == /\ Continues("turn") /\ turn.recording /\ turn.heard
                 /\ turn' = [turn EXCEPT !.recording = FALSE, !.state = "REQUESTING"]
                 /\ PauseFrontend
                 /\ Goto("upload")
                 /\ UNCHANGED <<play, player, speaker, world>>

KeepRecording == /\ Continues("turn")
                 /\ Goto("after")
                 /\ UNCHANGED <<turn, fe, play, player, speaker, world>>

\* Mutant: nobody looks whether the player has started.
MutTail(state, isPlaying) == turn' = [turn EXCEPT !.heard = FALSE, !.state = state]

\* After the request: the recording is used up, PLAYING needs a player.
Tail(state, isPlaying) ==
    turn' = [turn EXCEPT !.heard = FALSE,
                         !.state = IF state = "PLAYING" /\ ~isPlaying THEN "IDLE" ELSE state]

\* Upload, HTTP or the cloud failed: omni_on_error, then the controller stops
\* whatever plays, and the turn is over.
RequestFails == /\ Answers
                /\ StopPlayer("failed")
                /\ UNCHANGED <<turn, fe, play, speaker, world>>

\* Mutant: the state of a failed request is not reset.
MutFailed == /\ Continues("failed")
             /\ Tail(turn.state, TRUE)
             /\ Goto("after")
             /\ UNCHANGED <<fe, play, player, speaker, world>>

Failed == /\ Continues("failed")
          /\ Tail("IDLE", FALSE)
          /\ Goto("after")
          /\ UNCHANGED <<fe, play, player, speaker, world>>

\* omni_on_response_done with nothing to play, or with a player that is still
\* busy with an earlier reply, or without a ring.
ReplyDropped(clip) == /\ Answers /\ player.client
                      /\ clip = 0 \/ player.playing \/ player.cap = 0
                      /\ Tail("IDLE", FALSE)
                      /\ Goto("after")
                      /\ UNCHANGED <<fe, play, player, speaker, world>>

CanReserve(clip) == clip > 0 /\ player.cap > 0 /\ ~player.playing

\* No memory for a larger ring: one of the first size again, or none.
ReserveFails(clip) == /\ Failures
                      /\ Answers /\ player.client
                      /\ CanReserve(clip) /\ player.cap < clip + Margin
                      /\ \E cap \in {Default, 0} :
                             player' = [player EXCEPT !.ring = 0, !.cap = cap]
                      /\ Tail("IDLE", FALSE)
                      /\ Goto("after")
                      /\ UNCHANGED <<fe, play, speaker, world>>

\* Room for the clip: a ring that has it is used as it is, residue included.
\* Then the speaker is claimed, which may wait for AirPlay's worker.
ReplyReserve(clip) == /\ Answers /\ player.client
                      /\ CanReserve(clip)
                      /\ player' = IF player.cap >= clip + Margin THEN player
                                   ELSE [player EXCEPT !.ring = 0, !.cap = clip + 2 * Margin]
                      /\ speaker' = [speaker EXCEPT !.owned = TRUE]
                      /\ ctl' = [ctl EXCEPT !.at = "acquire", !.clip = clip]
                      /\ UNCHANGED <<turn, fe, play, world>>

Acquired == /\ Continues("acquire")
            /\ Goto("spawn")
            /\ UNCHANGED <<turn, fe, play, player, speaker, world>>

AcquireFails == /\ Failures /\ Continues("acquire")
                /\ speaker' = [speaker EXCEPT !.owned = FALSE]
                /\ Tail("IDLE", FALSE)
                /\ ctl' = [ctl EXCEPT !.at = "after", !.clip = 0]
                /\ UNCHANGED <<fe, play, player, world>>

\* The play task is created in static memory.  Undefined if the last one lives,
\* whose callback may still wait: the model waits for it.
Spawn == /\ Continues("spawn") /\ play = "none"
         /\ play' = "boot"
         /\ player' = [player EXCEPT !.playing = TRUE, !.complete = FALSE, !.played = 0]
         /\ Goto("feed")
         /\ UNCHANGED <<turn, fe, speaker, world>>

\* Mutant: the clip is pushed whether it fits or not.
MutFeedSome == /\ Continues("feed") /\ ctl.clip > 0
               /\ player' = [player EXCEPT !.ring = @ + ctl.clip]
               /\ ctl' = [ctl EXCEPT !.clip = 0]
               /\ UNCHANGED <<turn, fe, play, speaker, world>>

\* voice_player_feed_blocking: what fits, for as long as the clip is not in.
FeedSome == LET n == IF ctl.clip <= player.cap - player.ring
                     THEN ctl.clip ELSE player.cap - player.ring
            IN  /\ Continues("feed")
                /\ n > 0
                /\ player' = [player EXCEPT !.ring = @ + n]
                /\ ctl' = [ctl EXCEPT !.clip = @ - n]
                /\ UNCHANGED <<turn, fe, play, speaker, world>>

Fed == /\ Continues("feed") /\ ctl.clip = 0
       /\ player' = [player EXCEPT !.complete = TRUE]
       /\ Tail("PLAYING", player.playing)
       /\ Goto("after")
       /\ UNCHANGED <<fe, play, speaker, world>>

\* Nothing will ever make room: no play task drains the ring.
Hung == ctl.at = "feed" /\ ctl.clip > 0 /\ player.ring = player.cap /\ play = "none"

\* Mutant: a reply that never began to play has no time-out.
MutTimedOut == turn.state = "PLAYING" /\ play = "play" /\ player.played >= LongPlay

\* A reply may play for 60 s and no longer.  A player that is not playing is
\* waiting in its prefill, or gone.
TimedOut == /\ turn.state = "PLAYING" /\ ~PlayDue
            /\ play \in {"play", "close", "notify"} => player.played >= LongPlay

PlayTimeout == /\ Continues("after") /\ TimedOut
               /\ StopPlayer("timeout")
               /\ UNCHANGED <<turn, fe, play, speaker, world>>

TimeoutDone == /\ Continues("timeout")
               /\ turn' = [turn EXCEPT !.state = "IDLE"]
               /\ Goto("loop")
               /\ UNCHANGED <<fe, play, player, speaker, world>>

NoTimeout == /\ Continues("after")
             /\ Goto("loop")
             /\ UNCHANGED <<turn, fe, play, player, speaker, world>>

\* Told to stop: the front end is given 100 ms, then the player.
Leave == /\ Continues("loop") /\ ~turn.running
         /\ fe' = [fe EXCEPT !.running = FALSE]
         /\ Goto("leave.player")
         /\ UNCHANGED <<turn, play, player, speaker, world>>

LeavePlayer == /\ Continues("leave.player")
               /\ StopPlayer("deinit")
               /\ UNCHANGED <<turn, fe, play, speaker, world>>

\* Ring, buffers and the stack of the play task are freed, the client closed:
\* undefined, too, while it lives.
\* The recorded sizes of the buffers stay: they will not be allocated again.
Deinit == /\ Continues("deinit") /\ play = "none"
          /\ player' = [player EXCEPT !.ring = 0, !.client = FALSE,
                                      !.bufs = IF @ = "held" THEN "lost" ELSE @]
          /\ turn' = [turn EXCEPT !.state = "IDLE"]
          /\ Goto("none")
          /\ UNCHANGED <<fe, play, speaker, world>>

Reply == \E clip \in Clips : ReplyDropped(clip) \/ ReserveFails(clip) \/ ReplyReserve(clip)

Controller == \/ Boot \/ NoNetwork \/ AirplayGate \/ Listen \/ ListenFails
              \/ SendRecording \/ KeepRecording
              \/ RequestFails \/ Failed \/ Reply \/ Acquired \/ AcquireFails \/ Spawn \/ FeedSome \/ Fed
              \/ PlayTimeout \/ TimeoutDone \/ NoTimeout \/ Stopped
              \/ Leave \/ LeavePlayer \/ Deinit

-----------------------------------------------------------------------------
(* The network monitor and AirPlay.                                        *)

NetLost == /\ world.net /\ world.voice \in {"up", "down"}
           /\ world' = [world EXCEPT !.net = FALSE]
           /\ UNCHANGED <<ctl, turn, fe, play, player, speaker>>

\* Mutant: the stop does not wait for the controller.
MutServiceStop == /\ world.voice = "up" /\ ~world.net
                  /\ turn' = [turn EXCEPT !.running = FALSE]
                  /\ world' = [world EXCEPT !.voice = "down"]
                  /\ UNCHANGED <<ctl, fe, play, player, speaker>>

\* voice_controller_stop: the flag, then 100 ms unless it was stopped before,
\* and the handle is forgotten wherever the controller is: in the 60 s of a
\* request, in a sleep of 250 ms, on its way out.
ServiceStop == /\ world.voice = "up" /\ ~world.net
               /\ turn' = [turn EXCEPT !.running = FALSE]
               /\ world' = [world EXCEPT !.voice = IF turn.running THEN "stopping" ELSE "down"]
               /\ UNCHANGED <<ctl, fe, play, player, speaker>>

ServiceStopped == /\ world.voice = "stopping"
                  /\ world' = [world EXCEPT !.voice = "down", !.forgot = ctl.at # "none"]
                  /\ UNCHANGED <<ctl, turn, fe, play, player, speaker>>

NetBack == /\ ~world.net /\ world.voice = "down"
           /\ world' = [world EXCEPT !.net = TRUE, !.voice = "starting"]
           /\ UNCHANGED <<ctl, turn, fe, play, player, speaker>>

\* voice_controller_start, a tick of 2 s later or more.  It raises s.running and
\* makes the task in static memory: undefined if the controller before still
\* runs, for which the model waits.
ServiceStart == /\ world.voice = "starting" /\ ctl.at = "none"
                /\ turn' = [running |-> TRUE, state |-> "IDLE", recording |-> FALSE,
                            heard |-> FALSE]
                /\ Goto("boot")
                /\ world' = [world EXCEPT !.voice = "up", !.forgot = FALSE]
                /\ UNCHANGED <<fe, play, player, speaker>>

\* No stack for the controller: not tried again before the next network.
ServiceStartFails == /\ Failures /\ world.voice = "starting"
                     /\ world' = [world EXCEPT !.voice = "down"]
                     /\ UNCHANGED <<ctl, turn, fe, play, player, speaker>>

Service == ServiceStop \/ ServiceStopped \/ ServiceStart

\* AirPlay's worker does not start under an external owner.
AirplayBegins == /\ ~world.air /\ ~speaker.owned
                 /\ world' = [world EXCEPT !.air = TRUE]
                 /\ UNCHANGED <<ctl, turn, fe, play, player, speaker>>

AirplayEnds == /\ world.air
               /\ world' = [world EXCEPT !.air = FALSE]
               /\ UNCHANGED <<ctl, turn, fe, play, player, speaker>>

Environment == NetLost \/ NetBack \/ ServiceStartFails \/ AirplayBegins \/ AirplayEnds

Next == \/ Controller \/ PlayTask
        \/ FeReady \/ FeFails \/ FeChunk \/ FeExit
        \/ Tap \/ Service \/ Environment

Spec == Init /\ [][Next]_vars

(* Every task with a step to take gets the CPU: all waits are bounded, the *)
(* request by its 60 s.  A front end that fails is started again every     *)
(* 20 ms: memory is not short for ever, and the time a recording or a      *)
(* reply may last has passed in some round of the controller, every one    *)
(* of which is 20 ms.  Taps, AirPlay and the Wi-Fi owe nothing.            *)
FairSpec == /\ Spec
            /\ WF_vars(Controller) /\ WF_vars(PlayTask) /\ WF_vars(Service)
            /\ SF_vars(Listen) /\ SF_vars(FeReady) /\ SF_vars(FeChunk) /\ WF_vars(FeExit)
            /\ SF_vars(SendRecording) /\ SF_vars(PlayTimeout)

-----------------------------------------------------------------------------
(* Properties.                                                             *)

Labels == {"none", "boot", "loop", "turn", "upload", "failed", "acquire", "spawn", "feed",
           "after", "timeout", "stopping", "leave.player", "deinit"}

TypeOK ==
    /\ ctl \in [at : Labels, ret : Labels, clip : Nat]
    /\ turn \in [running : BOOLEAN, state : State, recording : BOOLEAN, heard : BOOLEAN]
    /\ fe \in [task : {"none", "boot", "run"}, running : BOOLEAN, paused : BOOLEAN]
    /\ play \in {"none", "boot", "prefill", "play", "close", "notify"}
    /\ player \in [playing : BOOLEAN, ring : Nat, cap : Nat, bufs : {"none", "held", "lost"},
                   complete : BOOLEAN, played : 0..LongPlay, client : BOOLEAN]
    /\ player.ring <= player.cap
    /\ speaker \in [owned : BOOLEAN, left : {"closed", "prefill", "memory"}]
    /\ world \in [net : BOOLEAN, air : BOOLEAN, voice : {"down", "starting", "up", "stopping"},
                  forgot : BOOLEAN]

\* Which task may be found in static memory that is used again, and where it is
\* then.  voice_player_start finds no play task but one that has cleaned up and
\* waits in its callback; voice_player_deinit, no more than 100 ms after the flag,
\* also one that still closes the codec; neither one that polls, plays or touches
\* the ring.  A start of the service finds no controller but one that was told to
\* leave, had not left when the stop's 100 ms were over, and has not seen the
\* flag raised since.
MemoryFree ==
    /\ ctl.at = "spawn" => play \in {"none", "notify"} /\ ~player.playing
    /\ ctl.at = "deinit" => play \in {"none", "close", "notify"} /\ ~player.playing
    /\ world.voice = "starting" => ctl.at = "none" \/ (world.forgot /\ ~turn.running)

\* Outside a request the controller is never REQUESTING: the time-out of 30 s,
\* which would close the client under the following turns, never strikes.
RequestNeverTimesOut == ctl.at \in {"loop", "turn", "after", "timeout", "none"} =>
                            turn.state # "REQUESTING"

\* A state of PLAYING has a play task behind it, unless the last one went
\* without a word: it was stopped in its prefill.
PlayingHasPlayer == (turn.state = "PLAYING" /\ ctl.at \in {"loop", "turn", "after"}) =>
                        play # "none" \/ speaker.left = "prefill"

\* The voice holds the speaker only for a reply, unless the last play task was
\* stopped in its prefill or had no memory: then it holds it until the next one.
SpeakerReturned == speaker.owned =>
                       \/ play # "none"
                       \/ ctl.at \in {"acquire", "spawn"}
                       \/ speaker.left \in {"prefill", "memory"}

\* A reply ends: it is played, stopped or timed out (60 s).
TurnEnds == turn.state = "PLAYING" ~> (turn.state # "PLAYING" \/ world.air)

\* A recording is sent, whatever the device was doing when the user tapped:
\* unless a play task has died for want of buffers and left its clip in the
\* ring, where it may block the feed of a later one for ever.
TapAnswered == turn.recording ~> \/ ~turn.recording \/ ~turn.running
                                 \/ world.air \/ ~world.net
                                 \/ speaker.left = "memory"

\* docs/voice-interaction.md:27: a turn receives and plays one reply.  A play
\* task never ends before it has begun to play,
ReplySpoken == speaker.left # "prefill"

\* and never for want of buffers when memory is not short (Failures = FALSE).
ReplyHasBuffers == speaker.left # "memory"

\* A reply that could not be played does not lock the player: it is ready again.
PlayerRecovers == player.playing ~> ~player.playing

\* The clip is put into the ring: the controller does not wait in feed for ever.
FeedReturns == ctl.at = "feed" ~> ctl.at # "feed"

=============================================================================
