---------------------------- MODULE SpeakerOwner ----------------------------
(***************************************************************************)
(* Who drives the loudspeaker: the AirPlay playback worker, started and    *)
(* stopped by airplay_service.c through audio_pipeline.c, or the voice     *)
(* player (voice_player.c), which takes external ownership of the output   *)
(* (audio_output_cores3.c) for the length of a reply, stops the worker and *)
(* gives both back.                                                        *)
(*                                                                         *)
(* Four tasks run that code: rtsp (events of the AirPlay session), net_mon *)
(* (refreshes the playback every 2 s), ctrl (the voice controller) and     *)
(* play (the voice play task).  Only the owner flag is under a mutex; the  *)
(* worker's handle, playback_running, s_output_open and                    *)
(* s_playback_running are plain variables, tested and set in different     *)
(* steps, and a stop waits up to 2 s in the middle.  A call is a program   *)
(* whose labels (pc) are the points where another task may come between.   *)
(***************************************************************************)
EXTENDS Integers

CONSTANTS Preemptive, \* may a task be preempted between any two labels, or
                      \* only where it blocks?
          CodecFails, \* may a re-open of the codec for the worker fail?
          AirTasks,   \* rtsp and net_mon: the tasks that only sync playback
          Rtsp,       \* the member of AirTasks that handles session events
          Ctrl,       \* the voice controller task
          Play        \* the voice play task

ASSUME ModeAssumption == Preemptive \in BOOLEAN /\ CodecFails \in BOOLEAN
ASSUME TaskAssumption == /\ Rtsp \in AirTasks
                         /\ Ctrl \notin AirTasks
                         /\ Play \notin AirTasks \cup {Ctrl}

Tasks == AirTasks \cup {Ctrl, Play}

VARIABLES
  external_owner,      \* s_external_owner, tagged "voice_v2"
  worker_was_running,  \* s_worker_was_running
  handle,              \* playback_task_handle # NULL
  playback_running,    \* the flag the worker's loop tests
  output_open,         \* s_output_open: the codec accepts writes
  session,             \* receiver_state: "none", "establishing", "streaming"
  desired,             \* s_playback_desired
  running,             \* s_playback_running
  rm_airplay,          \* the resource manager's owner is AIRPLAY
  playing,             \* s_playing of the voice player
  pc,                  \* task -> label
  late                 \* history: the AirPlay tasks whose start was past its
                       \* test of the owner when the speaker was last acquired

output == <<external_owner, worker_was_running, handle, playback_running, output_open>>
service == <<session, desired, running, rm_airplay>>
vars == <<output, service, playing, pc, late>>

\* audio_output_common_is_active
Active == handle /\ playback_running

\* The labels where a task is blocked or between calls; opening and closing the
\* codec talks to it over I2C.
Blocking == {"idle", "stop.wait", "acquire.wait",
             "start.codec", "resume.codec", "ext.codec", "close.codec", "ext.close",
             "voice.stop", "voice.stop.airplay", "prefill", "play"}

\* The labels of a start of the worker, after its test of the owner.
StartLabel == {"start.open", "start.codec", "start.create", "start.spawn",
               "resume.open", "resume.codec", "resume.create", "resume.spawn"}

\* t may take its next step: no other task of the core is in mid-step.
Scheduled(t) == Preemptive \/ \A u \in Tasks \ {t} : pc[u] \in Blocking

At(t, label) == pc[t] = label /\ Scheduled(t)

Goto(t, label) == pc' = [pc EXCEPT ![t] = label]

Init == /\ external_owner = FALSE
        /\ worker_was_running = FALSE
        /\ handle = FALSE
        /\ playback_running = FALSE
        /\ output_open = TRUE
        /\ session = "none"
        /\ desired = FALSE
        /\ running = FALSE
        /\ rm_airplay = FALSE
        /\ playing = FALSE
        /\ pc = [t \in Tasks |-> "idle"]
        /\ late = {}

-----------------------------------------------------------------------------
(* airplay_service.c: session events, refresh, sync_playback_worker.       *)

\* on_airplay_event: CLIENT_CONNECTED, PLAYING, PAUSED or DISCONNECTED.
Event(s) == /\ At(Rtsp, "idle")
            /\ session' = s
            /\ desired' = (s = "streaming")
            /\ Goto(Rtsp, "sync")
            /\ UNCHANGED <<output, running, rm_airplay, playing>>

\* airplay_service_refresh_playback by t: what receiver_state says.
Refresh(t) == /\ desired' = (session # "none")
              /\ Goto(t, "sync")
              /\ UNCHANGED <<session, running, rm_airplay>>

NetMonitor(t) == /\ t # Rtsp
                 /\ At(t, "idle")
                 /\ Refresh(t)
                 /\ UNCHANGED <<output, playing>>

\* Mutant: a worker found dead stays marked as running.
MutSync(t) == /\ At(t, "sync")
              /\ Goto(t, "sync.desired")
              /\ UNCHANGED <<output, service, playing>>

\* sync_playback_worker first writes off a worker that is not active any more,
Sync(t) == LET dead == running /\ ~Active
           IN  /\ At(t, "sync")
               /\ running' = (running /\ ~dead)
               /\ Goto(t, IF dead THEN "sync.release" ELSE "sync.desired")
               /\ UNCHANGED <<output, session, desired, rm_airplay, playing>>

\* resource_manager_release, also at the end of the stop.
RmRelease(t) == /\ \/ At(t, "sync.release") /\ Goto(t, "sync.desired")
                   \/ At(t, "stopped.release") /\ Goto(t, "idle")
                /\ rm_airplay' = FALSE
                /\ UNCHANGED <<output, session, desired, running, playing>>

\* then stops, keeps or starts: no start while the speaker is owned.
SyncDesired(t) ==
    /\ At(t, "sync.desired")
    /\ Goto(t, IF desired = running THEN "idle"
               ELSE IF running THEN "stop"
               ELSE IF external_owner THEN "idle" ELSE "start")
    /\ UNCHANGED <<output, service, playing>>

\* After the start the pipeline is running if the output is active now,
Started(t) == /\ At(t, "started")
              /\ running' = (running \/ Active)
              /\ Goto(t, IF Active THEN "started.acquire" ELSE "idle")
              /\ UNCHANGED <<output, session, desired, rm_airplay, playing>>

\* and AirPlay takes the resources: nobody else ever does.
RmAcquire(t) == /\ At(t, "started.acquire")
                /\ rm_airplay' = TRUE
                /\ Goto(t, "idle")
                /\ UNCHANGED <<output, session, desired, running, playing>>

\* Mutant: the stop keeps the resources.
MutStopped(t) == /\ At(t, "stopped")
                 /\ running' = FALSE
                 /\ Goto(t, "idle")
                 /\ UNCHANGED <<output, session, desired, rm_airplay, playing>>

Stopped(t) == /\ At(t, "stopped")
              /\ running' = FALSE
              /\ Goto(t, "stopped.release")
              /\ UNCHANGED <<output, session, desired, rm_airplay, playing>>

-----------------------------------------------------------------------------
(* audio_output_cores3.c and audio_output_common.c.                        *)

\* audio_output_start: refused while externally owned.
StartCheck(t) == /\ At(t, "start")
                 /\ Goto(t, IF external_owner THEN "started" ELSE "start.open")
                 /\ UNCHANGED <<output, service, playing>>

\* A closed codec is opened, and refused while externally owned: the start
\* goes on to "failed".
OpenForWorker(t, at, codec, opened, failed) ==
    /\ At(t, at)
    /\ Goto(t, IF output_open THEN opened ELSE IF external_owner THEN failed ELSE codec)
    /\ UNCHANGED <<output, service, playing>>

\* Mutant: a failed start goes on as a resume.
MutOpenCodec(t, at, opened, failed) ==
    /\ At(t, at)
    /\ \E ok \in BOOLEAN :
          /\ ok \/ CodecFails \/ at = "ext.codec"
          /\ output_open' = ok
          /\ Goto(t, IF ok THEN "resume.create" ELSE failed)
    /\ UNCHANGED <<external_owner, worker_was_running, handle, playback_running,
                   service, playing>>

\* The codec answers, or fails, whoever owns the speaker by then.
OpenCodec(t, at, opened, failed) ==
    /\ At(t, at)
    /\ \E ok \in BOOLEAN :
          /\ ok \/ CodecFails \/ at = "ext.codec"
          /\ output_open' = ok
          /\ Goto(t, IF ok THEN opened ELSE failed)
    /\ UNCHANGED <<external_owner, worker_was_running, handle, playback_running,
                   service, playing>>

\* audio_output_common_start: nothing if there is a worker, or else a new one.
CommonStart(t, at, spawn, done) ==
    /\ At(t, at)
    /\ IF handle
       THEN Goto(t, done) /\ UNCHANGED playback_running
       ELSE Goto(t, spawn) /\ playback_running' = TRUE
    /\ UNCHANGED <<external_owner, worker_was_running, handle,
                   output_open, service, playing>>

SpawnWorker(t, at, done) == /\ At(t, at)
                            /\ handle' = TRUE
                            /\ Goto(t, done)
                            /\ UNCHANGED <<external_owner, worker_was_running,
                                           playback_running, output_open,
                                           service, playing>>

\* audio_output_start by the pipeline, and the resume by a release of the
\* ownership, which goes on when the codec fails.
StartWorker(t) ==
    \/ OpenForWorker(t, "start.open", "start.codec", "start.create", "started")
    \/ OpenCodec(t, "start.codec", "start.create", "started")
    \/ CommonStart(t, "start.create", "start.spawn", "started")
    \/ SpawnWorker(t, "start.spawn", "started")

ResumeWorker(t) ==
    \/ OpenForWorker(t, "resume.open", "resume.codec", "resume.create", "resume.create")
    \/ OpenCodec(t, "resume.codec", "resume.create", "resume.create")
    \/ CommonStart(t, "resume.create", "resume.spawn", "released")
    \/ SpawnWorker(t, "resume.spawn", "released")

\* The worker leaves its loop.
WorkerExit == /\ handle
              /\ ~playback_running
              /\ handle' = FALSE
              /\ UNCHANGED <<external_owner, worker_was_running, playback_running,
                             output_open, service, playing, pc, late>>

\* hw_flush: a flush asked for by the RTSP side makes the worker re-open the
\* codec if it is closed and nobody owns it.
WorkerFlush == /\ Active
               /\ ~output_open
               /\ ~external_owner
               /\ output_open' = TRUE
               /\ UNCHANGED <<external_owner, worker_was_running, handle,
                              playback_running, service, playing, pc, late>>

\* audio_output_stop: left to the owner while externally owned.
StopCheck(t) == /\ At(t, "stop")
                /\ Goto(t, IF external_owner THEN "stopped" ELSE "stop.signal")
                /\ UNCHANGED <<output, service, playing>>

\* audio_output_common_stop: ask the worker to stop, if there is one ...
Signal(t, from, wait, done) ==
    /\ At(t, from)
    /\ playback_running' = (playback_running /\ ~handle)
    /\ Goto(t, IF handle THEN wait ELSE done)
    /\ UNCHANGED <<external_owner, worker_was_running, handle, output_open,
                   service, playing>>

\* ... and wait for its end, or for 2 s: either way the call goes on.
Wait(t, at, done) ==
    /\ At(t, at)
    /\ Goto(t, done)
    /\ UNCHANGED <<output, service, playing>>

StopWorker(t) == \/ Signal(t, "stop.signal", "stop.wait", "close")
                 \/ Wait(t, "stop.wait", "close")

\* esp_codec_dev_close: the flag follows when the codec has answered.
CloseCodec(t, at, done) == /\ At(t, at)
                           /\ output_open' = FALSE
                           /\ Goto(t, done)
                           /\ UNCHANGED <<external_owner, worker_was_running, handle,
                                          playback_running, service, playing>>

\* The end of audio_output_stop: a codec that is open is closed.
CloseOutput(t) == \/ /\ At(t, "close")
                     /\ Goto(t, IF output_open THEN "close.codec" ELSE "stopped")
                     /\ UNCHANGED <<output, service, playing>>
                  \/ CloseCodec(t, "close.codec", "stopped")

-----------------------------------------------------------------------------
(* The voice player: voice_player_start and stop by the controller.        *)

\* Mutant: the worker is kept.
MutAcquire == /\ At(Ctrl, "idle")
              /\ pc[Play] = "idle"
              /\ ~playing
              /\ external_owner' = TRUE
              /\ worker_was_running' = (Active \/ (external_owner /\ worker_was_running))
              /\ late' = {t \in AirTasks : pc[t] \in StartLabel}
              /\ Goto(Ctrl, "ext.open")
              /\ UNCHANGED <<handle, playback_running, output_open, service, playing>>

\* audio_output_acquire_external under the mutex.  The play task of an
\* earlier reply is gone by now (voice_player_stop sleeps 100 ms for it).
Acquire == /\ At(Ctrl, "idle")
           /\ pc[Play] = "idle"
           /\ ~playing
           /\ external_owner' = TRUE
           /\ worker_was_running' = (Active \/ (external_owner /\ worker_was_running))
           /\ late' = {t \in AirTasks : pc[t] \in StartLabel}
           /\ Goto(Ctrl, IF external_owner /\ ~Active THEN "ext.open" ELSE "acquire.signal")
           /\ UNCHANGED <<handle, playback_running, output_open, service, playing>>

AcquireStop == \/ Signal(Ctrl, "acquire.signal", "acquire.wait", "ext.open")
               \/ Wait(Ctrl, "acquire.wait", "ext.open")

\* audio_output_external_open, for the owner only, opens a closed codec, which
\* may fail;
ExternalOpen ==
    \/ /\ At(Ctrl, "ext.open")
       /\ Goto(Ctrl, IF ~external_owner THEN "release"
                     ELSE IF output_open THEN "ext.create" ELSE "ext.codec")
       /\ UNCHANGED <<output, service, playing>>
    \/ OpenCodec(Ctrl, "ext.codec", "ext.create", "release")

\* then the play task is created, if there is memory for it.
CreatePlayer == /\ At(Ctrl, "ext.create")
                /\ \/ /\ playing' = TRUE
                      /\ pc' = [pc EXCEPT ![Ctrl] = "idle", ![Play] = "prefill"]
                   \/ /\ Goto(Ctrl, IF output_open THEN "ext.close" ELSE "release")
                      /\ UNCHANGED playing
                /\ UNCHANGED <<output, service>>

\* Mutant: the stop releases the speaker under the running play task.
MutVoiceStop == /\ At(Ctrl, "idle")
                /\ playing
                /\ playing' = FALSE
                /\ external_owner' = FALSE
                /\ Goto(Ctrl, "voice.stop")
                /\ UNCHANGED <<worker_was_running, handle, playback_running, output_open, service>>

\* voice_player_stop: on a timeout or a failed request, or because AirPlay
\* owns the resources, and then with a refresh of the AirPlay playback.
VoiceStop == /\ At(Ctrl, "idle")
             /\ playing
             /\ playing' = FALSE
             /\ \/ Goto(Ctrl, "voice.stop")
                \/ rm_airplay /\ Goto(Ctrl, "voice.stop.airplay")
             /\ UNCHANGED <<output, service>>

\* It returns 100 ms later.
VoiceStopped == /\ \/ At(Ctrl, "voice.stop.airplay") /\ Refresh(Ctrl)
                   \/ At(Ctrl, "voice.stop") /\ Goto(Ctrl, "idle") /\ UNCHANGED service
                /\ UNCHANGED <<output, playing>>

-----------------------------------------------------------------------------
(* The voice play task.                                                    *)

\* Enough audio is buffered.
Prefilled == /\ At(Play, "prefill")
             /\ playing
             /\ Goto(Play, "play")
             /\ UNCHANGED <<output, service, playing>>

\* Stopped before that (or no memory for its buffers): the task just ends.
PrefillExit == /\ At(Play, "prefill")
               /\ ~playing
               /\ Goto(Play, "idle")
               /\ UNCHANGED <<output, service, playing>>

NoMemory == /\ At(Play, "prefill")
            /\ playing
            /\ playing' = FALSE
            /\ Goto(Play, "idle")
            /\ UNCHANGED <<output, service>>

\* The reply is over or was stopped: audio_output_external_close,
EndOfReply == /\ At(Play, "play")
              /\ Goto(Play, IF output_open THEN "ext.close" ELSE "release")
              /\ UNCHANGED <<output, service, playing>>

ExternalClose(t) == /\ t \in {Ctrl, Play}
                    /\ CloseCodec(t, "ext.close", "release")

\* the ownership released and the worker resumed if it ran before,
Release(t) == /\ t \in {Ctrl, Play}
              /\ At(t, "release")
              /\ external_owner' = FALSE
              /\ worker_was_running' = FALSE
              /\ Goto(t, IF external_owner /\ worker_was_running THEN "resume.open" ELSE "released")
              /\ UNCHANGED <<handle, playback_running, output_open, service, playing>>

\* and the STOPPED callback refreshes the AirPlay playback.
Released(t) == /\ t \in {Ctrl, Play}
               /\ At(t, "released")
               /\ IF t = Play
                  THEN playing' = FALSE /\ Refresh(t)
                  ELSE Goto(t, "idle") /\ UNCHANGED <<playing, service>>
               /\ UNCHANGED output

-----------------------------------------------------------------------------

\* What t does once a call has begun.
Step(t) == \/ Sync(t) \/ SyncDesired(t)
           \/ Started(t) \/ RmAcquire(t) \/ Stopped(t) \/ RmRelease(t)
           \/ StartCheck(t) \/ StartWorker(t) \/ ResumeWorker(t)
           \/ StopCheck(t) \/ StopWorker(t) \/ CloseOutput(t)
           \/ ExternalClose(t) \/ Release(t) \/ Released(t)

Voice == AcquireStop \/ ExternalOpen \/ CreatePlayer \/ VoiceStopped \/ PrefillExit

Moves == \/ \E s \in {"none", "establishing", "streaming"} : Event(s)
         \/ \E t \in AirTasks : NetMonitor(t)
         \/ \E t \in Tasks : Step(t)
         \/ Voice \/ VoiceStop
         \/ Prefilled \/ NoMemory \/ EndOfReply

Next == \/ Moves /\ UNCHANGED late
        \/ Acquire \/ WorkerExit \/ WorkerFlush

Spec == Init /\ [][Next]_vars

\* What task t does of its own accord.
Own(t) == /\ \/ Step(t)
             \/ t \in AirTasks /\ NetMonitor(t)
             \/ t = Ctrl /\ (AcquireStop \/ ExternalOpen \/ CreatePlayer \/ VoiceStopped)
             \/ t = Play /\ (Prefilled \/ PrefillExit \/ EndOfReply)
          /\ UNCHANGED late

\* The scheduler is fair: a call that has begun goes on, a worker told to stop
\* does, net_mon comes round every 2 s, and a reply ends: the clip is finite and the controller
\* stops a reply that plays for 60 s.  No session event and no reply has to
\* come.
Fairness == (\A t \in Tasks : SF_vars(Own(t))) /\ WF_vars(WorkerExit)

FairSpec == Spec /\ Fairness

-----------------------------------------------------------------------------
(* Correctness.                                                            *)

\* The labels of the voice player's calls: no AirPlay task gets there.
VoiceLabel ==
    {"acquire.signal", "acquire.wait", "ext.open", "ext.codec", "ext.create",
     "ext.close", "prefill", "play", "release",
     "resume.open", "resume.codec", "resume.create", "resume.spawn", "released",
     "voice.stop", "voice.stop.airplay"}

Label == VoiceLabel \cup
    {"idle", "sync", "sync.release", "sync.desired",
     "start", "start.open", "start.codec", "start.create", "start.spawn",
     "started", "started.acquire", "stop", "stop.signal", "stop.wait",
     "close", "close.codec", "stopped", "stopped.release"}

\* The type of the state: in particular no task crosses into another's calls.
TypeOK == /\ external_owner \in BOOLEAN
          /\ worker_was_running \in BOOLEAN
          /\ handle \in BOOLEAN
          /\ playback_running \in BOOLEAN
          /\ output_open \in BOOLEAN
          /\ session \in {"none", "establishing", "streaming"}
          /\ desired \in BOOLEAN
          /\ running \in BOOLEAN
          /\ rm_airplay \in BOOLEAN
          /\ playing \in BOOLEAN
          /\ pc \in [Tasks -> Label]
          /\ \A t \in AirTasks : pc[t] \notin VoiceLabel
          /\ late \subseteq AirTasks

\* audio_output.h:159: while the speaker is externally owned the AirPlay
\* worker is stopped, or told to by the very next step of the acquisition.  The
\* one worker that runs beside the voice player comes from a start that had
\* passed its test of the owner when the speaker was acquired, and only once
\* that start has gone all its way: nothing else starts, resumes or keeps one.
WorkerStoppedWhileHeld ==
    external_owner /\ Active =>
        \/ pc[Ctrl] = "acquire.signal"
        \/ \E t \in late : pc[t] \notin StartLabel

\* A voice task has the owner's rights from the acquisition to the release:
\* nobody else takes or clears them.
OwnerForWholeReply ==
    pc[Play] \in {"prefill", "play", "ext.close", "release"} => external_owner

\* However a stream, a reply and the refreshes cross, once the session streams
\* on and nobody owns the speaker the worker ends up playing, known to the
\* service and to the resource manager, and into an open codec: only a worker
\* that ran beside the last reply is left with the codec that the reply closed.
PlaybackRecovers ==
    <>[](session = "streaming" /\ ~external_owner)
        => <>[](Active /\ running /\ rm_airplay /\ (output_open \/ late # {}))

\* When the session is over for good the resource manager lets go of AIRPLAY,
\* or the voice assistant would stay locked out.
VoiceNotLockedOut == <>[](session = "none") => <>[]~rm_airplay

-----------------------------------------------------------------------------
(* What the documents promise and the code does not keep; README.md,       *)
(* section 5.                                                              *)

\* voice_player.c:388, "audio_output cleanup ... happens in the play task":
\* with no reply starting, playing or ending, nobody owns the speaker.
OwnershipReturned ==
    pc[Ctrl] = "idle" /\ pc[Play] = "idle" => ~external_owner

\* A reply is played into an open codec.
ReplyAudible == pc[Play] = "play" => output_open

\* audio_output.h:159, "Stops the AirPlay playback worker while held": no worker
\* but the one the acquisition is about to stop.
NoWorkerWhileHeld == external_owner /\ Active => pc[Ctrl] = "acquire.signal"

\* PROJECT.md:81: no playback worker without a session.
NoOrphanWorker ==
    <>[](session = "none" /\ pc[Ctrl] = "idle" /\ pc[Play] = "idle") => <>[]~Active
=============================================================================
