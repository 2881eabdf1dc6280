# A TLA+ model of the M5Stack CoreS3 AirPlay and voice firmware

The repository is the firmware of an M5Stack CoreS3 (ESP32-S3, FreeRTOS, two
cores): an AirPlay-1 receiver, a one-shot voice assistant that shares the
loudspeaker with it, and a temperature reminder. It has no automatic tests.
What is hard in it is not the arithmetic but the crossing of tasks: RTSP
clients, the RTP receiver, the playback worker, the voice controller, the voice
play task and a network monitor call into the same few hundred lines, mostly
without locks, and wait for one another in the middle. This directory models
that core, checks it with TLC and proves the parts that hold for every size.

## 1. The system

| part | source (under `src/components/`) | state | operations | what is hard | modules |
|---|---|---|---|---|---|
| jitter buffer | `audio_core/audio/audio_buffer.c` | slot pool, sorted index, free stack, counting semaphore, lock-free mirror of the count | queue, take, return, flush, peek | semaphore calls outside the lock; a slot held outside the lock; overflow; timestamp wrap | `AudioBuffer`, `FrameQueue`, `SortedInsert`, `RtpOrder` |
| RTP timing | `audio_core/audio/audio_timing.c` | anchor, pending frame, gates, sync mode | set anchor, read, reset | early and late frames; decisions taken while other tasks change the gates | `Playout`, `SyncMode` |
| receiver | `audio_core/audio/audio_receiver.c`, `audio_stream*.c` | sockets, tasks, decoder, sequence, gates | start, stop, flush, seek, resend | life cycle driven by several tasks; static task memory; two sockets | `RtpStream`, `RtpReceive`, `SeekGates` |
| playback worker | `audio_core/audio/audio_output_common.c` | task handle, running flag, rebuffer state | start, stop, flush, loop | 2 s bounded stop, rebuffer thresholds, concealment | `SpeakerOwner`, `Rebuffer` |
| speaker output | `audio_core/audio/audio_output_cores3.c` | external owner, codec open, worker-was-running | start, stop, acquire, release, external open/write/close | check-then-act around a mutex that only covers the flag | `SpeakerOwner` |
| pipeline, resources | `audio_core/audio_pipeline.c`, `resource_manager.c` | running, owner | start, stop, acquire, release | results ignored by the callers | `SpeakerOwner` |
| AirPlay service | `airplay_core/airplay_service.c` | desired, running, started | session events, refresh, start, stop | runs in four tasks without a lock | `SpeakerOwner`, `AirplaySession` |
| receiver state | `airplay_core/receiver_state.c` | seven flags, derived state | setters, snapshot, call-back | two tasks set flags that clear one another | `DeviceState` |
| RTSP | `airplay_core/rtsp/*` | two client slots, a connection and a buffer each | accept, replace, ANNOUNCE ... TEARDOWN, cleanup, framing | the old client's cleanup crosses the new client's session | `AirplaySession`, `RtspFraming` |
| clock | `network_core/network/ntp_clock.c` | offset history, tracking | sample, reject, hold over | outliers, holdover limits | `NtpClock` |
| Wi-Fi | `network_core/network/wifi.c` | retry counter, timer | connect, retry, back-off | retries racing events | `WifiLink` |
| voice controller | `realtime_voice/voice_controller.c` | turn state, recording | push-to-talk, request, reply, interrupt, time-outs | call-backs from other tasks overwrite the state | `VoiceTurn` |
| cloud client | `realtime_voice/omni_client.c` | clients, line buffer, request data | policy, upload, ask, stream the answer | failure exits; lines cut anywhere | `OmniRequest`, `SseStream` |
| voice player | `realtime_voice/voice_player.c` | playing, prefilled, ring | start, feed, stop, play task | prefill exits, memory failures, ring left over | `VoiceTurn`, `SpeakerOwner` |
| voice ring | `realtime_voice/audio_ringbuf.c` | two indices | push, pop, avail, reset | unlocked poll, wrap, full against empty | `AudioRingbuf`, `BoundedFifo` |
| voice frontend | `realtime_voice/voice_frontend_v2.c` | running, paused | start, pause, resume, stop | pause releases the microphone task | `VoiceTurn` |
| environment monitor | `env_monitor/env_monitor.c` | sensors, issues, pending reminder | probe, sample, remind | a unit pulled out in a set-up; a reminder put off | `EnvSensors`, `EnvReminder` |
| boot, network monitor | `app_core/app_core.c`, `app_core/settings.c` | services up, had_network, settings in flash | boot, 2 s loop | starts and stops the services; a boot that ends half-way | `DeviceState`, `Provisioning`, `AirplaySession` |
| screen | `screen_ui/screen_ui.c`, `auto_brightness/*` | voice and receiver state, dirty flag, brightness | set state, tick, poll | writers without the lock, lock time-outs | `ScreenUi`, `AutoBrightness` |
| the rest | decoders, DSP, EQ, resampler, property lists, RSA, board, mDNS, event bus | | | sequential, numerical, hardware or third-party code | none |

How they interact: the RTSP client tasks turn requests into calls of the
receiver (start, flush, stop) and events for the AirPlay service, which starts
and stops the playback worker through the pipeline. The worker takes frames
from the jitter buffer through the timing gates and writes them to the codec.
The voice controller records, uploads, and calls the voice player with the
reply; the player takes external ownership of the codec, which stops the
worker, plays from its ring buffer, gives the codec back and asks the AirPlay
service to refresh its playback. The network monitor refreshes it every 2 s.

What makes each part correct, and what of it is checked, is in section 4 and in
the hazards of `PROJECT.json`.

## 2. Plan

Done, in the order in which it was built: the jitter buffer, the voice ring, the speaker, the
AirPlay session; then the voice turn, the read path of the timing (`Playout`), and the small
state machines around them, which are checked side by side in two composed modules,
`AudioPath` and `Device`; then the proofs, of the parts and of the composed specifications.

Left: the volume, `airplay_get_volume_q15` and the ramp of `audio_output_cores3.c`.

## 3. The models

### `AudioRingbuf` and `BoundedFifo`

`buf`, `w` and `r` are the fields of `audio_ringbuf_t`. `Push` and `Pop` are the critical
sections of `audio_ringbuf_push_impl` and `audio_ringbuf_pop`, each with its two
`memcpy`s (`AfterCopy`, `CopyOut`). `audio_ringbuf_avail` is called by the play task
without the lock: its two reads are two actions (`AvailReadW`, `AvailReadR`), and
`PlayPop` is the use the play loop makes of the result. `Reset` is the play task's on
its way out; `epoch` is a history variable that makes a reset visible, so that a loss of
the contents is no reset. `BoundedFifo` says what a user of the ring expects: push stores the
longest prefix that fits, pop removes the longest prefix that is there.

### `RtpOrder`, `SortedInsert`, `AudioBuffer`, `FrameQueue`

`RtpOrder` is `ts_cmp` with the word size as a parameter. `SortedInsert` is the loop of
`sorted_insert_pos`, one action per probe, started on every sorted index.
`AudioBuffer` uses its result (`IsInsertPos`): any position whose neighbours are
right. The critical sections of queue, take, return and flush are actions; so is
every semaphore call made outside one (`QueueGive`, `TakeToken`, `FlushDrain`), which
is where tokens and frames drift apart. `heldStamp` is a history variable: the
timestamp of the held frame when it was taken. A packet is `MaxChunks` chunks at most.
`FrameQueue` says what a user of the buffer expects, without index, stack, mirror or semaphore: a set
of frames with their timestamps and a hand. `Put` is the critical section of a chunk, with the frame its
overflow loses; `Take`, `GiveBack` and `Clear` are those of take, return and flush. `AudioBuffer`
maps the index to `frames` and the held slot to `hand`, each with the timestamp that is in
the slot's memory, so that a write into a held slot would show as a step `FrameQueue` does not have.

### `SpeakerOwner`

Calls are programs over labels (`pc`), because the flags they test and set are
plain variables and a stop waits in the middle. `sync*`, `started*`, `stopped*` are
`sync_playback_worker`; `start*` and `stop*` are `audio_output_start` and
`audio_output_stop`; `acquire*`, `ext.*`, `release`, `resume*` are the voice player's
calls. `handle` and `playback_running` are the worker. Opening and closing the codec
(`*.codec`, `ext.close`) talks to it over I2C: each is a label of its own, at which any task
may come in, in both of the modes below. The history variable `late` holds the AirPlay tasks
whose start had passed its test of the owner when the speaker was last acquired. The
receiver's part of `audio_pipeline_stop` does not touch this state and belongs to
`AirplaySession`.

Two modes. The tasks `rtsp_client`, `net_mon` and `voice_play` run at priority 5 on
core 0, `voice_ctrl` at 4, the worker on core 1: they may preempt one another
between any two statements (`Preemptive = TRUE`), but between two labels where it blocks a
call is microseconds long. `Preemptive = FALSE` lets another task in only where the
program itself blocks: on the codec, in a bounded stop, between calls. It shows which
failures need no unlucky preemption; the theorems hold in both modes. The owner mutex covers the flag only, so each of its
critical sections is one action; its 200 ms time-out cannot expire in sections
that short and is left out. A play task of an earlier reply is taken to be gone
when the next reply starts: `voice_player_stop` sleeps 100 ms, and a recording and
a cloud request lie between.

Left out: the boot test tone, a sample-rate change, the failure to create a task
(memory is static after the first time). Two workers created at once would
share one static control block; the model keeps one boolean `handle` for them.

### `AirplaySession`

| variable | code |
|---|---|
| `ctl[a].at`, `.ret` | where client task `a` (or `NM`, the network monitor) stands between two blocking calls, and where a blocking stop it is inside returns to |
| `slot` | `s_server.clients[]`: `task` # NULL, the socket, `should_stop`, `is_old` |
| `cur`, `srv`, `up`, `handle` | `current_slot`, the position of `server_task`, `server_running`, `server_task_handle` # NULL |
| `cn` | `rtsp_conn_t` of the slot: `announce_ready`, `stream_paused` |
| `rx` | `audio_receiver`: stream running, decoder, NTP client; `by` is a history variable (whose RECORD started the stream) |
| `svc`, `out` | `s_started`, `s_playback_desired`, `s_playback_running`; the playback worker's existence |
| `st`, `net` | the flags of `receiver_state`; the Wi-Fi, `has_network`, `had_network` |
| `spent`, `forgotten` | the environment's budget (a bound); history: the clients that were alive when a restarted server emptied their slots |

An action is what a task does from one blocking call to the next (`vTaskDelay`, `recv`,
`accept`, the wait for a worker), so a handler is one action unless a stop inside it
blocks: then the stop is `Call`ed, takes the actions `OutputStopped`, `PipelineStopped`,
`ReceiverStopped`, and returns to the label that continues the handler. `Announce` to
`Teardown` are the RTSP handlers; `ClientStart`, `ClientAlloc`, `ClientExit`, `CleanEvent`,
`Release` and `Delete` are the life of `client_task`; `Accept`, `SlotFreed`, `SlotTimeout`,
`Spawn`, `ServerLeaves`, `Drained` that of `server_task`; `Tick` with `Edge*` is one round of
`network_monitor_task`, `ServiceStop*` and `ServiceStart` the calls it makes. `Connected`,
`Playing`, `Paused`, `Disconnected` are the cases of the service's event handler; all end in
`Sync`, `sync_playback_worker`.

The constants choose the circumstances: `Overlap`, a phone may connect while another is
served; `Drops`, the Wi-Fi may go away, at any moment, which has the monitor stop and
restart the service; `Setups`, phones send SETUP; `Failures`, allocations, ports and task
creation may fail. `Budget` bounds them together: each of these costs 3, but a connection
after a stop that has left a client behind only 1. No timing is assumed of the tasks that a
stop leaves behind: a client may be anywhere when the restarted server empties its slot, and the
server itself may still be in its 3 s wait for a slot (that takes a budget of 12, so it is in the
theorems and in `OneServerTask` of section 5, but beyond the bounds of the runs). The one exception
is a server whose `accept` has failed, which ends within 500 ms and is gone when the monitor looks
2 s later.

Two places are undefined in C: creating a task on the static memory of one that still
runs. There the model waits until the memory is free. For a slot, `SlotFreeBeforeReuse` says
exactly which client may be found there, and so which cases are undefined: one that is between
the release of its slot and the deletion of its task, or one that a restart of the service has
forgotten. For the server task `OneServerTask` claims that it never happens, and fails
(section 5). A forgotten client has no connection record, and a request it had buffered would
fault on that: it handles none. Left out: FLUSH (in `Playout` and `SeekGates`), the volume,
metadata and OPTIONS; the resource manager and the external owner, which `SpeakerOwner` has: here a start is granted
or refused.

### `VoiceTurn`

| variable | code |
|---|---|
| `ctl` | where the controller task stands between two blocking calls, and the clip it has |
| `turn` | `s.running`, `s.state`, whether a recording waits, whether a tap was heard |
| `fe` | the front end task, `s_running`, `s_paused` |
| `play`, `player` | the play task; `s_playing`, the ring's content and capacity, the buffers, `s_playback_complete`, time played, the HTTP client |
| `speaker` | external ownership; how the last play task ended |
| `world` | Wi-Fi, AirPlay, and what the network monitor does with the voice service |

A label ends where the code blocks: a 100 ms sleep, the upload, the wait for room in the
ring. A stop sleeps and goes on, wherever the task it stops is then: `ServiceStopped` forgets a
controller in a 60 s request as well as one on its way out (`world.forgot` remembers that it
did), and the play task may still close the codec or wait in its callback. What follows may
use static memory that such a task lives in (`Spawn`, `Deinit`, `ServiceStart`): undefined in C;
the model waits there, and `MemoryFree` says exactly which task may be found, where it may be, and
that it no longer touches what is freed. Two facts of timing are used: a play task polls its flag
every 10 or 20 ms and so has seen it when the 100 ms are over (`Polling`), and the codec is closed
before the cloud has answered a request (`Answers`). The reply is a clip of 0 (nothing), 1 (below
the prefill) or 3 units.

### `Playout`

`audio_timing_read` with everything it calls. Time is relative: a frame is its distance from
the next one the sender will send, `lead` how early that one is, so that no clock has to be
bounded. A read is a sequence of actions, one per frame it looks at; between any two of them the RTSP
task or the control task may flush, pause, or set an anchor. `Jump` is a sender that jumps
in its timestamps without a flush.

### `RtpStream`, `RtpReceive`, `SeekGates`, `NtpClock`, `SyncMode`, `Rebuffer`

The rest of the audio path, a model each. `RtpStream` has the tasks of a stream and the calls that start
and stop them as sequences of steps: a stop sleeps its 200 and 100 ms and goes on whether the tasks
have ended or not (`strLate` remembers which had not), and an ANNOUNCE replaces the decoder at any
time; `RtpReceive` the sequence numbers, the requests for missing
packets and the two sockets; `SeekGates` what a FLUSH arms and what the first frames and sync
packets after it do to it, with the anchor at the timestamp less the latency, `SendAhead` before the
frame being sent; `NtpClock` the measurements; `SyncMode` extends it with the anchors
that are projected with its offset; `Rebuffer` the loop of the playback worker over an
abstract buffer. `Faults`, `Reorders`, `Fails`, `LateDrops`, `Flushes` switch on what the code
is not proof against (section 5).

### `OmniRequest`, `SseStream`, `Provisioning`

A request holds a set of allocations and clients; each action is one step of the code with its failure
exits, and the exit frees what the code frees. The answer is a sequence of lines whose bytes arrive
in any pieces; a line matters by its length, its kind and the samples in it. `Provisioning`
is the flash: a value is the firmware it was compiled into, a boot may end between any two writes,
and the next may run another firmware.

### `DeviceState`, `WifiLink`, `EnvSensors`, `EnvReminder`, `RtspFraming`, `ScreenUi`, `AutoBrightness`

`DeviceState` runs boot, monitor and one client against the flags of `receiver_state.c`; a handler
is the list of setters it has left to call. `WifiLink` has the events of the driver and the retry
timer in units of 5 s. `EnvSensors` plugs the unit in and out during every step of the set-up;
`EnvReminder` takes a reading as the zone it lies in. `RtspFraming` cuts a stream of requests at
every byte. `ScreenUi` has the writers of the shared record and the timer that draws it, with the
eyes that move 3/10 of the way to their target in every drawn frame,
`AutoBrightness` the smoothing and its rounding in integers.

### `AudioPath` and `Device`

Each puts one group of these models side by side: an instance of every part, with the constants
and the variables of all of them declared in one place, an ASSUME that collects what the parts need
of their constants, and a state `job` that the initial state chooses and that says which part moves.
The parts share no state here; the modules put small questions into one run and one theorem.
`AudioSafe`, `AudioSteps`, `AudioLive`, `CloudSafe`, `DeviceSafe`, `RemindersKept` and `DeviceLive`
collect, conjunct by conjunct, the properties stated and explained in the parts' modules; where a
claim needs a fault excluded, the conjunct says so (`Faults = {} => ...`).

`MCAudioPath` and `MCDevice` hold the values TLC needs. Each also has a second instance of the
module, `Faulty`, with every fault switched on and smaller bounds; the initial state chooses a part
of the one or of the other, and `FaultsSafe` states the same properties of the second. `MCAudioPath`
has a third instance, `Loose`, of the clock alone, with starts that overlap and a phone that may
show the receiver's own time; and the jitter buffer as a fourth choice, for `NoStrandedFrame`, which
takes too many states with the bounds of `jitter_buffer`. Liveness is claimed without faults only.
Two strong fairness conditions of `Device` share a conjunct where only one part can enable them,
because TLC's check grows with their number.

## 4. The runs

| run | checks | bounds |
|---|---|---|
| `jitter_buffer` | `SlotsConserved`, `IndexSorted`, `MirrorExact`, `DropOnlyWhileHeld`, `ImplementsQueue` | 3 slots, one producer, one flusher and the playback task, circle of 6 |
| `speaker_coop` | ownership, worker, recovery of the playback, no lock-out | RTSP, net_mon, controller, play task and worker; tasks come in wherever one blocks, in the opening and closing of the codec too; the codec opens |
| `session_safety` | `SlotFreeBeforeReuse`, `OneServingClient`, `StreamWithinConnection` | budget 9: three of connections, Wi-Fi drops and failures, in any order and at any moment, and the connections of phones that come back after a drop while a client is left behind; a third phone needs the slot of the first while the second is being replaced; no SETUP, which decides nothing here |
| `session_live` | `StoppedClientLeaves`, `SettlesIdle`, `NetworkRecovers` | budget 6: two phones that overlap, or one and a drop at any moment; no failures |
| `voice_turn` | `MemoryFree`, `RequestNeverTimesOut`, `PlayingHasPlayer`, `SpeakerReturned`, `TurnEnds`, `TapAnswered` | no clip, one below and one above the prefill of 2; failing allocations; stops at any moment, which leave any task behind; any number of turns |
| `playout` | `SlotsReturned`, `EarlySilenceEnds`, `HeardAgain` | 3 frames; every threshold of the code scaled to one or two frames, so that early, late, stale and implausible frames all occur |
| `audio_path` | `NoStrandedFrame`, `AudioSafe`, `AudioSteps`, `AudioLive` | all sorted indices of up to 5 entries on a circle of 6; a jitter buffer of 2 slots, one of which the playback task may hold; 7 packets over sequence numbers modulo 5; two seeks between three places; stops of a stream that find any task still at work; a history of 2 measurements; 10 frames of buffer for the worker |
| | `FaultsSafe` | overtaken packets, failing requests, every fault of seek and stream, late drops and flushes, a phone that sets its clock by 3 or 20; one seek, 2 packets; the clock also with two tasks on one stack and an offset of 0 |
| `device` | `ImplementsFifo`, `CloudSafe`, `DeviceSafe`, `RemindersKept`, `DeviceLive` | 4 cells of ring, chunks up to 5; answers of 2 lines, below, at and above half of the line buffer; 4 boots of 3 firmwares; 3 losses of the access point, more than the quick retries; 3 moves of the sensor unit; 3 requests below, at and above each buffer |
| | `FaultsSafe` | a flash that fails, a firmware without Wi-Fi, a reminder before the configuration, a connect refused at once, a voice that does not start, a device that is not added, growth that fails, two writers and lock time-outs |
| `reply_silent`, `owner_leak`, `session_gate`, `pause_kills` | one violated claim each | see section 5 |

Fairness. The jitter buffer: a task inside a call finishes it and the playback
task polls for ever; no packet has to come. The drain loop of a flush gets
strong fairness for its end: it is a loop of non-blocking takes, and a receive
task gives once per decoded packet, so it cannot be outrun for ever. The
speaker: the scheduler is fair to every task with a call under way, net_mon comes
round every 2 s, the worker leaves its loop when told, and a reply ends because
the clip is finite and the controller stops it after 60 s. The session: every
task whose wait is over gets the CPU (all waits have a time-out), the monitor
comes round; phones, their requests and the Wi-Fi are free to do nothing.
The voice: a controller, a play task and a front end that can run do, and the cloud answers or
the request times out (60 s). The timing: the playback task reads on and the sender sends.
The small models: tasks that have work do it, timers that are armed fire, the display timer
ticks; strong fairness is used where a loop can be disturbed again and again but not for ever
in step (an answer of the clock with a short way, the end of a drain, a writer that waits for the
display lock). Phones, unit, light, access point and user are never obliged to act, and the
liveness claims say what must stay as it is for them to hold.

## 5. Findings

The four violation runs; `PROJECT.json` quotes the sentence each one contradicts.

* `reply_silent`: `audio_output_stop` closes the codec on an owner test made up to 2 s earlier.
* `owner_leak`: a reply stopped in its prefill keeps the speaker for ever, and AirPlay stays blocked.
* `session_gate`: the late DISCONNECTED of a replaced client opens the gate that keeps voice
  out, in the middle of the new session.
* `pause_kills`: PAUSE stops stream and decoder through the pipeline; the RECORD that resumes
  starts nothing, and the music stays silent.

Further promises the code does not keep have a definition in the module but no run of their
own. Each is reproduced by naming it in a configuration with the constants given:

| definition | constants | what happens |
|---|---|---|
| `NoOrphanWorker` | `MCSpeakerOwnerCoop.cfg` | the release of the speaker resumes a worker whose session is over |
| `NoWorkerWhileHeld` | the same | a start that has passed its test of the owner waits for the codec, the speaker is acquired meanwhile, and its worker runs beside the voice player (`audio_output.h:159` promises that it does not; `WorkerStoppedWhileHeld` says that nothing else starts one) |
| `PlaybackRecovers` | the same, `Preemptive = TRUE` | two unlocked synchronisations leave the playback stuck |
| `CleanupSparesNewSession` | `MCSessionGate.cfg` | the delayed end of the old client's receiver stop destroys the new session's decoder |
| `WorkerOnlyAfterPlaying` | `MCSessionPauseKills.cfg` | the 2 s refresh starts the worker as soon as a session is established |
| `WorkerSettles` | the same, `FairSpec` | a synchronisation that blocked notes "not running" over a start made meanwhile |
| `HandleHasTask` | `MCSessionGate.cfg`, `Failures`, `Budget = 9` | a client whose first allocation fails leaves its handle, and the slot is refused until the service restarts |
| `OneServerTask` | `MCSessionSafety.cfg`, `Budget = 12`, no `Failures` | a second server task is started on the static stack of the first, which still waits for a slot |

Three properties the runs check say which undefined cases there are instead of claiming none:
the static stack of a slot is used while its last task still runs (`SlotFreeBeforeReuse`: a
client that is about to be deleted, `rtsp_server.c:284`, or one that a restart forgot); the memory
of the voice tasks is used or freed under a play task that closes the codec or waits in
its callback, and under a controller that the stop's 100 ms did not see leave (`MemoryFree`,
`voice_controller.c:697-700`); a stream starts on the stack of a receive task that its stop has
not waited long enough for, and an ANNOUNCE destroys the decoder under it (`TakesFreeStack` and
`KeepsDecoder` of `RtpStream`, `audio_stream_realtime.c:526`, `audio_receiver.c:136`).

The same for the later models. The constants are those of `MCAudioPath.cfg`, of `MCDevice.cfg`
or of the model's own configuration, but for the change given:

| definition | change | what happens |
|---|---|---|
| `VoiceTurn!ReplySpoken` | | a reply below the prefill is never played (`voice_player.c:111`) |
| `VoiceTurn!ReplyHasBuffers` | `Failures = FALSE` | after a Wi-Fi drop the player remembers buffers it has freed (`voice_player.c:284`) |
| `VoiceTurn!PlayerRecovers`, `FeedReturns` | | clips of play tasks that died fill the ring, and a feed waits for ever |
| `Playout!PendingAlive` | | a reset frees the pending frame while a read looks at it |
| `Playout!StartsFull` | | after a flush the playback starts below its target |
| `Playout!SlotsReturned` without its guard | `NoMemory = TRUE` | a frame held back without a pending buffer loses its slot (`audio_timing.c:908-927`) |
| `SeekGates!OldPlaceSilent` | any of `Faults` | frames of the old place pass the gates, or stay |
| `SeekGates!NewPlaceHeard` | `Faults` of "late sync" | the gates keep out the new place |
| `RtpReceive!NothingSeenAsked`, `AskedOnce` | `Reorders = TRUE` | a packet that was only overtaken is asked for, and asked for again |
| `RtpReceive!AskedComes` | `Fails = TRUE` | a request that could not be sent is not repeated |
| `RtpStream!StopEnds` | `Faults` of "two callers" | the monitor stops the stream while the RTSP task starts it again |
| `NtpClock!ClockTracks` | `MaxSteps = 1`, or `Delays` of 0 and 12 | an answer beyond the gate is rejected for ever: the phone has set its clock, or the first measurements were poor (`ntp_clock.c:202`) |
| `NtpClock!SaneIsFresh` | | only a rejection looks at the age: without answers the offset counts as sane for ever |
| `NtpClock!NtpMemoryFree` | `Overlap = TRUE` | a client starts on the stack of one that is still stopping |
| `SyncMode!TargetsAgree` | `OneSession = FALSE` | a flush settles on the target of an anchor that has been replaced |
| `Rebuffer!PlaysBetween`, `AudioHeard` | `LateDrops` or `Flushes` | the worker bounces between rebuffering and playing nothing |
| `Rebuffer!AudioHeard` | `Latency` and `Budget` equal, `LateDrops` | the level to resume at is one the buffer seldom has |
| `Rebuffer!NoOldRepeat` | | after a silence the block from before it is repeated |
| `WifiLink!SomethingUnderWay` | `Refuses = TRUE` | an `esp_wifi_connect` that fails at once arms no timer |
| `DeviceState!StateFollows` | `Faults` of "early drop", "late event" | a Wi-Fi lost before the monitor has started, or an event from a session that a drop has ended, stays on the screen |
| `DeviceState!VoiceServed` | "voice fails" | a voice service that failed to start is not started again |
| `DeviceState!VoiceUndisturbed` | | the voice is told that AirPlay is over in the middle of a session |
| `Provisioning!EmptyUsesStored` | a firmware without Wi-Fi name | `Kconfig.projbuild:17` promises the stored one; the boot gives up (`wifi.c:212-220`) |
| `Provisioning!VoicePaired` | | the address of one firmware with the stored key of another |
| `Provisioning!StoredKeyUsed` | `Reminders = TRUE` | a controller started by a reminder takes its configuration before it is loaded |
| `SseStream!OnlyLongLinesLost` | | lines above half of the largest buffer are lost too: the buffer only doubles (`omni_client.c:293`) |
| `SseStream!CommandHeard`, `HeaderNeverPlayed` | | a spoken volume command sets the output to the old volume (`voice_controller.c:286-289`); the header of a WAV is played as sound |
| `OmniRequest!NothingLeaks` | | the exits of a POST that cannot be made or opened free nothing (`omni_client.c:697-714`) |
| `EnvSensors!ReadingFresh`, `PressureAwake` | | readings stay valid after the unit is gone; a unit that was away is asleep |
| `EnvSensors!SamplesResume` | `AddFails = TRUE` | a device that could not be added again is not tried again |
| `EnvReminder!ReminderComes` | `Answers` without "ok" | the controller never returns `ESP_OK` (`voice_controller.c:753-764`): what `docs/env-monitor.md:56` says is spoken later is never spoken |
| `EnvReminder!PressureSilent`, `SpokenStillTrue` | | the pressure does trigger a reminder (`docs/env-monitor.md:26`); what is spoken late may no longer be so |
| `RtspFraming!LargeAnswered` | | a request that fits the buffer but not with 1 KiB to spare is thrown away |
| `RtspFraming!TerminatorInside` | | a message that ends with the buffer has its terminator after it (`rtsp_server.c:146`) |
| `ScreenUi!LookAlwaysAgrees` | two `Writers`, or `Timeouts` | state and colours of two writers mix |
| `ScreenUi!NoStaleFace` | | a new receiver state asks for no frame, and one drawn between the dirty flag and the colours keeps the old ones; the next blink corrects it |
| `ScreenUi!EyesOpenAgain` without its exception | | with an error the eyes open to 30 per cent only, and the one frame drawn after a blink may leave them below the 15 at which pupils are drawn (`screen_ui.c:322-325`) |
| `AutoBrightness!NoJump` | | from 5 to 6 lux the table jumps from 5 to 20 per cent |

## 6. Proofs

`DeviceProofs` proves the refinement of the FIFO by the ring for every capacity and chunk
length from an invariant that relates the unlocked reads to the indices: what the play task
has seen is never more than what is there, because only it removes samples.
`RtpOrderProofs` shows that inside half of the circle the wrapped comparison is the
order of the distances from the start of the arc. `AudioPathProofs` uses it to
turn the bracket invariant of the search into the split of the whole index.
`AudioBufferProofs` proves slot conservation from `PoolInv`: besides the partition
itself it needs the count of the slots (so that the overflow always frees one) and
the fact that the playback task takes only with nothing in its hand. `IndexSorted` is not
inductive by itself either: before and after an insertion the wrapped comparison has to be
transitive, and it is so only within half of the circle. `OrderInv` adds that the frames in the
buffer and the chunks still to come of the packets under way lie on one such arc (`InArc`); the
environment's assumption in `QueueDecoded` says so of a new packet, and the proof shows that
every other step keeps it. `BufferImplementsQueue` puts the three together, for every capacity, number
of tasks and circle: each step of the buffer is one of `FrameQueue` or changes neither `frames` nor
`hand`. `IndexSorted` makes the first entry of the index a frame that no other precedes (`FirstIsOldest`),
`PoolInv` makes a full index one with every slot in it, so that what the overflow drains is the
one frame `Losses` allows (`DrainedIsLoss`), and makes the slot a chunk is written to one that nobody
holds, of which the stability of the held frame is a part.
`SpeakerOwnerProofs` proves, for any number of AirPlay tasks and with preemption
anywhere, that a reply owns the speaker throughout (`OwnerInv`: a play task exists
only while the controller is outside the acquisition, and labels determine the
owner), and where a worker under an external owner can come from (`HeldInv`: whoever is past the
test of the owner while somebody owns the speaker was there when it was acquired).
`HeldMove` is what a step may do to the worker and the owner; every action is such a step but the
acquisition, its stop, and the creation of a worker.

`AirplaySessionProofs` proves, for any number of connections and Wi-Fi drops, one
inductive invariant, `Inv`. Its heart is `Base`, the label a task is at or returns to
when the stop it is inside ends: `StreamHeld` (the client that started the stream
still has the base "loop", so it cannot have passed its cleanup, which stops the
stream first), `CurrentServes` (of the clients that still handle requests only the
current one has not been told to stop, and it has a handle, which is why `Spawn`
tells it), `ForgottenLost` (a client that a restart forgot has no socket, so it serves nobody),
`HandleKept` and `SlotReady` (a task without a handle, and one in the slot the server is about to
use, is about to be deleted or was forgotten). Three lemmas say what a step of a client, of the monitor and
of anything else may do to keep it (`ClientMove`, `MonitorMove`, `QuietMove`); every action is
then shown to be such a step. `StreamBound`, `OneServer` and `SlotReuse` follow from it for every
order of connections, drops, restarts and failures, and need no hypothesis.

`VoiceTurnProofs` holds for replies, rings and margins of any size and with every failure.
`Requests` (a turn is REQUESTING only at the labels of a request, a stop included) needs no
timing. The rest is one invariant, `TaskInv`, since its parts need
each other: a play task lives at least as long as `s_playing` (`Lives`), so a controller
that has slept and finds the flag clear finds no task that polls or plays (`Gone`, the part of
`MemoryFree` on the play task); a
clip is fed to a task that waits or to one that died for want of memory (`Feeds`), and that
is why a turn can only be PLAYING with a task behind it (`Replies`) and why the speaker is
held only for a reply (`Holds`). A controller that is still there when its service starts again
is one that the stop forgot (`Serves`). The stops wait for nothing; the two facts of timing named in
section 3 are part of the model.

`PlayoutProofs` holds for every threshold, depth of the buffer and displacement of the sender,
and whether or not the pending frame gets memory. Its invariant, `PlayInv`, adds three things to
the types. `Fits`: the frames in the buffer and the slot in the reader's hand are never more than
the pool, although the reader gives its slot back only after a flush has refilled the buffer.
`InHand`: a frame that is judged is one of the tries of its read and, unless it is the pending
frame, has a slot out for it; so a read that ends gives back what it took even if a flush moved
the stream meanwhile. `QuietCounted`: the silence
heard is never longer than what `timing.early` counts, since each step that restarts the count
either plays a frame or drops the reason for the silence; so the bound on the counter bounds
the silence.

`DeviceProofs` and `AudioPathProofs` also hold the proofs about the small models, first part by
part, each theorem with what it needs as its hypothesis:

- The cloud: `RequestReleases` (a request gives back what it holds), `AnswerRead` (lines of up to
  half the largest buffer survive any cut, an error is not played) and `ReplyOrdered`. Its
  invariant numbers the samples: what has been collected is rising, what comes next is larger, and
  until something is lost every number up to the last is there.
- Boot and Wi-Fi: `BootReady` and `AlwaysTrying` (a station without a link has a retry, a timer or
  an event under way, if a connect is not refused at once).
- State and screen: `OneSessionState` (for every order of the setters of the two tasks), `LookFits`
  and `LightBounded` (the smoothed brightness lies between those that some light asks for; the
  proof needs that each segment of the table rises).
- Sensors and reminders: `NoDeviceLeaks` and `NoneForgotten`.
- Requests: `RequestsFramed`, with any sizes of the buffers and failing allocations.
- The worker: `NoBouncing`, when no frame is dropped as late and nothing is flushed.
- The stream: `StreamOrderly`, for every fault, slow stops and an ANNOUNCE at any moment included:
  which task may outlive its stop, take whose stack, and lose its decoder.
- The clock: `ClockFollowed`: the bound of the error and what a read follows hold however sessions
  overlap; one task on the stack needs a start that waits for the stop (`~Overlap`), and the target
  of a flush one session at a time and offsets that are not zero (`OneSession`, `NoZeroOffset`). The
  least uncertainty of a history of any length needs a least element of a set of numbers; as
  induction is not available, `LeastNatural` takes it from a minimal element of the finite subsets
  under inclusion.
- A seek: `OldPlaceKeptOut`, without faults. A frame of the old place in any of the queues lies
  outside the gates, since a place and the sender's latency together are no longer than the window.
- Missing packets: `AsksForMissing`, for every modulus, if packets are not reordered.

Then the parts are put together. `DeviceInv` and `PathInv` say of the part that was chosen that its
invariant holds; `PartSteps` that a step of the composed specification is a step of that part or
leaves it alone; the lemmas of the parts do the rest. `CloudSound`, `DeviceSound` and
`RemindersSound` prove the properties of the run `device`, of which `FaultsSafe` is an instance,
from `DeviceAssumption` alone; `PathSound` and `StepsSound` prove those of `audio_path` from
`PathAssumption` alone: no fault is excluded but where the property itself does, such as the overlap
of sessions in `~Overlap => NtpMemoryFree`, conditions under which section 5 shows the claim to
fail. So the two `FaultsSafe` state nothing that is not proved: they are the same properties of
other values of the constants, for which `FaultyAssumption` has TLC evaluate the assumptions. Two
tasks may share the one stack of the clock's client; a third is left out (`Start`). The types of the
clock, the packets and the seek, which no part's theorem stated, needed invariants too: `TaskTyped`,
`AnchorTyped` and `ModeInv`, `PacketsTyped` (what was noted or asked for was sent) and `SeekBounded`
(the buffer makes room before it takes a frame, so it never exceeds its capacity).

The assumptions on the constants are the named ASSUMEs of the modules, which TLC evaluates
in every run, and the hypotheses named above. Only model-checked: everything that is liveness
under fairness, which is out of the prover's reach (`NoStrandedFrame`, `PlaybackRecovers`,
`VoiceNotLockedOut`, `StoppedClientLeaves`, `SettlesIdle`, `NetworkRecovers`, `TurnEnds`, `TapAnswered`,
`HeardAgain`, `AudioLive`, `DeviceLive`).

## 7. Not modelled

Signal processing, codecs, parsers, ciphers, rendering and hardware access are sequential
code whose correctness is numerical or a matter of format; `resampler.c`, a fifth of the
audio core, is third-party. The binary property lists are read only for values that an AirPlay-1
session logs. The buffered AirPlay-2 stream is never started by an AirPlay-1 session. The volume
(`airplay_get_volume_q15` and the ramp at the codec) is read by several tasks and is left for later.
Boot errors of the board, mDNS and the event bus are one-shot or synchronous.
