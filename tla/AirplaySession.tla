--------------------------- MODULE AirplaySession ---------------------------
(* An AirPlay session from the TCP connection to the media it starts:          *)
(*   - the accept loop and the two client slots of rtsp_server.c;              *)
(*   - the RTSP handlers (ANNOUNCE, SETUP, RECORD, PAUSE, TEARDOWN);           *)
(*   - the receiver they drive (stream, decoder, NTP clock);                   *)
(*   - the session events and playback synchronisation of airplay_service.c;   *)
(*   - the network monitor that refreshes, stops and restarts the service.     *)
(* Tasks interleave where they block (vTaskDelay, recv, accept).  Of a task is  *)
(* known where it stands and, inside a blocking stop, where that returns to.   *)
(* Codec, RTP and timing data are abstracted: of the stream only "running" is  *)
(* kept, of the decoder only whether there is one.                             *)
EXTENDS Integers

CONSTANTS
  Budget,     \* what the phones, the Wi-Fi and failures may spend together (bound): 3 for
              \* a connection, a drop or a failure, 1 for a connection after a drop whose stop
              \* has left a client behind
  Overlap,    \* a phone may connect while another one is still served
  Drops,      \* the Wi-Fi may go away
  Setups,     \* phones send SETUP: what it starts, the NTP client, decides nothing here
  Failures    \* allocations, bind and task creation may fail

ASSUME SessionAssumption ==
  /\ Budget \in Nat
  /\ {Overlap, Drops, Setups, Failures} \subseteq BOOLEAN

Slots == {0, 1}
NM == 2                          \* the network monitor task
Tasks == Slots \cup {NM}
None == 2                        \* no slot, as owner of the stream

VARIABLES
  ctl,      \* of every task: the label it is at, and the one a stop returns to
  slot,     \* clients[]: task handle, socket, should_stop, is_old
  cur,      \* current_slot
  srv,      \* where the server task stands
  up,       \* server_running
  handle,   \* server_task_handle # NULL
  cn,       \* per connection: announce_ready, stream_paused
  rx,       \* receiver: stream running, started by whom, decoder, NTP clock
  svc,      \* s_started, s_playback_desired, s_playback_running
  out,      \* audio_output_is_active
  st,       \* receiver_state flags
  net,      \* Wi-Fi: really, as last read, as read before
  spent,    \* of the budget
  forgotten \* history: clients that were alive when a new server emptied their slots

vars == <<ctl, slot, cur, srv, up, handle, cn, rx, svc, out, st, net, spent, forgotten>>

Labels == {"none", "start", "alloc", "loop", "rx_end", "rec_start", "td_end", "clean_evt",
           "clean_conn", "exiting", "out_wait", "pl_end", "idle", "edge", "boot", "stop2", "stop3"}

\* Every field stays in its range, and a slot marked as old is one
\* whose client was told to stop.
TypeOK ==
  /\ ctl \in [Tasks -> [at : Labels, ret : Labels]]
  /\ slot \in [Slots -> [task : BOOLEAN, sock : {"none", "open", "eof"}, stop : BOOLEAN, old : BOOLEAN]]
  /\ \A i \in Slots : slot[i].old => slot[i].stop
  /\ cur \in Slots /\ srv \in {"off", "accept", "waitslot", "spawn", "drain"}
  /\ up \in BOOLEAN /\ handle \in BOOLEAN /\ out \in BOOLEAN
  /\ cn \in [Slots -> [ann : BOOLEAN, paused : BOOLEAN]]
  /\ rx \in [run : BOOLEAN, by : Slots \cup {None}, dec : BOOLEAN, ntp : BOOLEAN]
  /\ svc \in [started : BOOLEAN, desired : BOOLEAN, running : BOOLEAN]
  /\ st \in [net : BOOLEAN, disc : BOOLEAN, est : BOOLEAN, str : BOOLEAN, rec : BOOLEAN]
  /\ net \in [wifi : BOOLEAN, has : BOOLEAN, had : BOOLEAN]
  /\ spent \in 0..Budget
  /\ forgotten \subseteq {i \in Slots : ctl[i].at # "none"}

-----------------------------------------------------------------------------
(* Tasks *)

At(a, label) == ctl[a].at = label
Goto(a, label) == [ctl EXCEPT ![a].at = label]
Call(a, label, then) == [ctl EXCEPT ![a] = [at |-> label, ret |-> then]]
Return(a) == [ctl EXCEPT ![a] = [at |-> ctl[a].ret, ret |-> "none"]]
Alive(i) == ~At(i, "none")

\* The bounds of the environment.
Costs(n) == spent + n <= Budget /\ spent' = spent + n
Fails == Failures /\ Costs(3)

\* A client that handles requests, as opposed to one that was told to stop, cleans up or
\* has lost its socket.
Serving(i) == At(i, "loop") /\ ~slot[i].stop /\ slot[i].sock # "none"

FreeSlot == [task |-> FALSE, sock |-> "none", stop |-> FALSE, old |-> FALSE]
NewConn == [ann |-> FALSE, paused |-> FALSE]
Shut(s) == [s EXCEPT !.stop = TRUE, !.sock = IF @ = "none" THEN @ ELSE "eof"]

Init ==
  /\ ctl = [a \in Tasks |-> [at |-> IF a = NM THEN "idle" ELSE "none", ret |-> "none"]]
  /\ slot = [i \in Slots |-> FreeSlot]
  /\ cur = 0 /\ srv = "accept" /\ up = TRUE /\ handle = TRUE
  /\ cn = [i \in Slots |-> NewConn]
  /\ rx = [run |-> FALSE, by |-> None, dec |-> FALSE, ntp |-> FALSE]
  /\ svc = [started |-> TRUE, desired |-> FALSE, running |-> FALSE]
  /\ out = FALSE
  /\ st = [net |-> TRUE, disc |-> TRUE, est |-> FALSE, str |-> FALSE, rec |-> FALSE]
  /\ net = [wifi |-> TRUE, has |-> TRUE, had |-> TRUE]
  /\ spent = 0
  /\ forgotten = {}

-----------------------------------------------------------------------------
(* receiver_state.c: setting one flag clears others. *)

SetNetworkReady(s, on) ==
  IF on THEN [s EXCEPT !.net = TRUE]
        ELSE [s EXCEPT !.net = FALSE, !.disc = FALSE, !.est = FALSE, !.str = FALSE]
SetDiscoverable(s, on) ==
  IF on THEN [s EXCEPT !.disc = TRUE] ELSE [s EXCEPT !.disc = FALSE, !.est = FALSE, !.str = FALSE]
SetEstablishing(s, on) ==
  IF on THEN [s EXCEPT !.est = TRUE, !.disc = FALSE, !.str = FALSE] ELSE [s EXCEPT !.est = FALSE]
SetStreaming(s, on) ==
  IF on THEN [s EXCEPT !.str = TRUE, !.disc = FALSE, !.est = FALSE, !.rec = FALSE]
        ELSE [s EXCEPT !.str = FALSE]
SetRecovering(s, on) ==
  IF on THEN [s EXCEPT !.rec = TRUE, !.disc = FALSE, !.est = FALSE, !.str = FALSE]
        ELSE [s EXCEPT !.rec = FALSE]

ServiceActive(s) == s.est \/ s.str           \* airplay_service_is_active

-----------------------------------------------------------------------------
(* Receiver and pipeline: both stops block.                                    *)

\* audio_receiver_stop: the stream is stopped at once, its tasks get 300 ms, and only
\* then is the decoder destroyed; with no stream running nothing blocks.
StopReceiver(a, then) ==
  IF rx.run
  THEN rx' = [rx EXCEPT !.run = FALSE, !.by = None] /\ ctl' = Call(a, "rx_end", then)
  ELSE rx' = [rx EXCEPT !.dec = FALSE] /\ ctl' = Goto(a, then)

ReceiverStopped(a) ==
  /\ At(a, "rx_end")
  /\ rx' = [rx EXCEPT !.dec = FALSE]
  /\ ctl' = Return(a)
  /\ UNCHANGED <<slot, cur, srv, up, handle, cn, svc, out, st, net, spent>>

\* audio_pipeline_stop: the output waits for its worker, then the receiver is stopped,
\* and the caller notes that playback does not run.
EndPipelineStop(a) ==
  /\ rx' = [rx EXCEPT !.dec = FALSE]
  /\ svc' = [svc EXCEPT !.running = FALSE]
  /\ ctl' = Return(a)

OutputStopped(a) ==
  /\ At(a, "out_wait")
  /\ out' = FALSE
  /\ IF rx.run
     THEN /\ rx' = [rx EXCEPT !.run = FALSE, !.by = None]
          /\ ctl' = Goto(a, "pl_end")
          /\ UNCHANGED svc
     ELSE EndPipelineStop(a)
  /\ UNCHANGED <<slot, cur, srv, up, handle, cn, st, net, spent>>

PipelineStopped(a) ==
  /\ At(a, "pl_end")
  /\ EndPipelineStop(a)
  /\ UNCHANGED <<slot, cur, srv, up, handle, cn, out, st, net, spent>>

\* sync_playback_worker, on the service record sv: writes off a worker that is gone, stops
\* the pipeline or starts it (a start is refused while voice owns the speaker).
Sync(a, sv, then) ==
  LET seen == [sv EXCEPT !.running = @ /\ (out \/ ~sv.started)]
  IN \/ /\ ~sv.started \/ seen.desired = seen.running
        /\ svc' = seen /\ ctl' = Goto(a, then) /\ UNCHANGED out
     \/ /\ sv.started /\ seen.running /\ ~seen.desired
        /\ svc' = seen /\ ctl' = Call(a, "out_wait", then) /\ UNCHANGED out
     \/ /\ sv.started /\ ~seen.running /\ seen.desired
        /\ \E granted \in BOOLEAN :
             /\ svc' = [seen EXCEPT !.running = granted]
             /\ out' = (out \/ granted)
             /\ ctl' = Goto(a, then)

-----------------------------------------------------------------------------
(* Session events of airplay_service.c: the flags, then the synchronisation.   *)

Connected(a, then) ==
  /\ st' = SetEstablishing(st, TRUE)
  /\ Sync(a, [svc EXCEPT !.desired = FALSE], then)
Playing(a, then) ==
  /\ st' = SetStreaming(st, TRUE)
  /\ Sync(a, [svc EXCEPT !.desired = TRUE], then)
\* Mutant: a pause only ends the streaming.
MutPaused(a, then) ==
  /\ st' = SetStreaming(st, FALSE)
  /\ Sync(a, [svc EXCEPT !.desired = FALSE], then)

Paused(a, then) ==
  /\ st' = SetEstablishing(SetStreaming(st, FALSE), TRUE)
  /\ Sync(a, [svc EXCEPT !.desired = FALSE], then)
\* Mutant: a client that leaves before it streams stays "establishing".
MutDisconnected(a, then) ==
  /\ st' = SetDiscoverable(SetStreaming(st, FALSE), TRUE)
  /\ Sync(a, [svc EXCEPT !.desired = FALSE], then)

Disconnected(a, then) ==
  /\ st' = SetDiscoverable(SetEstablishing(SetStreaming(st, FALSE), FALSE), TRUE)
  /\ Sync(a, [svc EXCEPT !.desired = FALSE], then)

-----------------------------------------------------------------------------
(* rtsp_server.c, client_task *)

\* The connection record is created and the session announced; when the allocation
\* fails the task ends with its handle still in the slot.
ClientStart(i) ==
  /\ At(i, "start")
  /\ cn' = [cn EXCEPT ![i] = NewConn]
  /\ \/ /\ Connected(i, "alloc")
        /\ UNCHANGED <<slot, spent>>
     \/ /\ Fails
        /\ slot' = [slot EXCEPT ![i].sock = "none"]
        /\ ctl' = Goto(i, "none")
        /\ UNCHANGED <<svc, out, st>>
  /\ UNCHANGED <<cur, srv, up, handle, rx, net>>

\* The request buffer is allocated; a failure frees the slot but announces nothing.
ClientAlloc(i) ==
  /\ At(i, "alloc")
  /\ \/ ctl' = Goto(i, "loop") /\ UNCHANGED <<slot, spent>>
     \/ /\ Fails
        /\ slot' = [slot EXCEPT ![i].sock = "none", ![i].task = FALSE]
        /\ ctl' = Goto(i, "exiting")
  /\ UNCHANGED <<cur, srv, up, handle, cn, rx, svc, out, st, net>>

PeerClose(i) ==
  /\ slot[i].sock = "open"
  /\ slot' = [slot EXCEPT ![i].sock = "eof"]
  /\ UNCHANGED <<ctl, cur, srv, up, handle, cn, rx, svc, out, st, net, spent>>

\* Mutant: the loop tests server_running only and takes the end of the socket for a time-out.
MutClientDeaf(i) ==
  /\ At(i, "loop")
  /\ ~up \/ slot[i].sock = "none"
  /\ slot' = [slot EXCEPT ![i].sock = "none"]
  /\ StopReceiver(i, "clean_evt")
  /\ UNCHANGED <<cur, srv, up, handle, cn, svc, out, st, net, spent>>

\* Mutant: the cleanup leaves the receiver alone.
MutClientExit(i) ==
  /\ At(i, "loop")
  /\ slot[i].stop \/ ~up \/ slot[i].sock # "open"
  /\ slot' = [slot EXCEPT ![i].sock = "none"]
  /\ ctl' = Goto(i, "clean_evt")
  /\ UNCHANGED <<cur, srv, up, handle, cn, rx, svc, out, st, net, spent>>

\* The receive loop ends: should_stop, server_running, the end of the socket, or a slot
\* that a new server has emptied under the client, whose next recv fails.  The cleanup
\* stops the receiver of the whole program, whoever uses it.
ClientExit(i) ==
  /\ At(i, "loop")
  /\ slot[i].stop \/ ~up \/ slot[i].sock # "open"
  /\ slot' = [slot EXCEPT ![i].sock = "none"]
  /\ StopReceiver(i, "clean_evt")
  /\ UNCHANGED <<cur, srv, up, handle, cn, svc, out, st, net, spent>>

\* The NTP client is stopped and the disconnection announced.
CleanEvent(i) ==
  /\ At(i, "clean_evt")
  /\ rx' = [rx EXCEPT !.ntp = FALSE]
  /\ Disconnected(i, "clean_conn")
  /\ UNCHANGED <<slot, cur, srv, up, handle, cn, net, spent>>

\* Mutant: is_old survives the release of the slot.
MutRelease(i) ==
  /\ At(i, "clean_conn")
  /\ cn' = [cn EXCEPT ![i] = NewConn]
  /\ slot' = [slot EXCEPT ![i] = [FreeSlot EXCEPT !.old = slot[i].old]]
  /\ ctl' = Goto(i, "exiting")
  /\ UNCHANGED <<cur, srv, up, handle, rx, svc, out, st, net, spent>>

\* The connection record is freed and the slot released; what is left is a log line and
\* the deletion of the task.
Release(i) ==
  /\ At(i, "clean_conn")
  /\ cn' = [cn EXCEPT ![i] = NewConn]
  /\ slot' = [slot EXCEPT ![i] = FreeSlot]
  /\ ctl' = Goto(i, "exiting")
  /\ UNCHANGED <<cur, srv, up, handle, rx, svc, out, st, net, spent>>

Delete(i) ==
  /\ At(i, "exiting")
  /\ ctl' = Goto(i, "none")
  /\ UNCHANGED <<slot, cur, srv, up, handle, cn, rx, svc, out, st, net, spent>>

-----------------------------------------------------------------------------
(* RTSP handlers.  process_rtsp_buffer dispatches until should_stop is seen.   *)
(* A client whose slot was emptied has no connection record: a request that it  *)
(* had buffered would fault on that, and is left out.                          *)

Dispatches(i) == At(i, "loop") /\ ~slot[i].stop /\ slot[i].sock = "open"

\* A body that cannot be parsed leaves the decoder alone; with a bad key the format is
\* set, and the decoder made anew, before the request is rejected.
Announce(i) ==
  /\ Dispatches(i)
  /\ \E result \in {"ok", "invalid_body", "invalid_encryption"}, made \in BOOLEAN :
       /\ IF made THEN UNCHANGED spent ELSE Fails
       /\ cn' = [cn EXCEPT ![i].ann = result = "ok"]
       /\ rx' = [rx EXCEPT !.dec = IF result = "invalid_body" THEN @ ELSE made]
  /\ UNCHANGED <<ctl, slot, cur, srv, up, handle, svc, out, st, net>>

Setup(i) ==
  /\ Dispatches(i)
  /\ cn[i].ann /\ Setups
  /\ rx' = [rx EXCEPT !.ntp = TRUE]
  /\ UNCHANGED <<ctl, slot, cur, srv, up, handle, cn, svc, out, st, net, spent>>

\* RECORD, the three ways: resuming a paused stream only sets the playing flag; a running
\* stream is stopped first, which blocks; otherwise the stream starts.
RecordResume(i) ==
  /\ Dispatches(i)
  /\ cn[i].ann /\ cn[i].paused
  /\ cn' = [cn EXCEPT ![i].paused = FALSE]
  /\ Playing(i, "loop")
  /\ UNCHANGED <<slot, cur, srv, up, handle, rx, net, spent>>

RecordRestart(i) ==
  /\ Dispatches(i)
  /\ cn[i].ann /\ ~cn[i].paused /\ rx.run
  /\ rx' = [rx EXCEPT !.run = FALSE, !.by = None]
  /\ ctl' = Goto(i, "rec_start")
  /\ UNCHANGED <<slot, cur, srv, up, handle, cn, svc, out, st, net, spent>>

\* A stream that cannot bind its ports is not reported: RECORD answers 200 all the same.
StartStream(i) ==
  /\ \/ rx' = [rx EXCEPT !.run = TRUE, !.by = IF rx.run THEN @ ELSE i] /\ UNCHANGED spent
     \/ Fails /\ UNCHANGED rx
  /\ Playing(i, "loop")
  /\ UNCHANGED <<slot, cur, srv, up, handle, cn, net>>

RecordStart(i) == Dispatches(i) /\ cn[i].ann /\ ~cn[i].paused /\ ~rx.run /\ StartStream(i)
RecordRestarted(i) == At(i, "rec_start") /\ StartStream(i)

Pause(i) ==
  /\ Dispatches(i)
  /\ cn' = [cn EXCEPT ![i].paused = TRUE]
  /\ Paused(i, "loop")
  /\ UNCHANGED <<slot, cur, srv, up, handle, rx, net, spent>>

Teardown(i) ==
  /\ Dispatches(i)
  /\ StopReceiver(i, "td_end")
  /\ UNCHANGED <<slot, cur, srv, up, handle, cn, svc, out, st, net, spent>>

TeardownEnd(i) ==
  /\ At(i, "td_end")
  /\ cn' = [cn EXCEPT ![i].paused = FALSE]
  /\ rx' = [rx EXCEPT !.ntp = FALSE]
  /\ ctl' = Goto(i, "loop")
  /\ UNCHANGED <<slot, cur, srv, up, handle, svc, out, st, net, spent>>

Request(i) ==
  \/ Announce(i) \/ Setup(i) \/ RecordResume(i) \/ RecordRestart(i) \/ RecordStart(i)
  \/ Pause(i) \/ Teardown(i)

-----------------------------------------------------------------------------
(* rtsp_server.c, server_task *)

NewSlot == 1 - cur
TaskOf(i) == slot[i].task

Connects == Costs(IF forgotten = {} THEN 3 ELSE 1)

\* Mutant: a task that is still in the slot is told to stop, but not waited for.
MutAccept ==
  /\ srv = "accept" /\ up
  /\ Overlap \/ \A i \in Slots : ~Alive(i)
  /\ Connects
  /\ slot' = [slot EXCEPT ![NewSlot] = IF TaskOf(NewSlot) THEN Shut(@) ELSE @]
  /\ srv' = "spawn"
  /\ UNCHANGED <<ctl, cur, up, handle, cn, rx, svc, out, st, net>>

\* A phone connects: the slot that is not current is taken; a task still in it is told
\* to stop and waited for.
Accept ==
  /\ srv = "accept" /\ up
  /\ Overlap \/ \A i \in Slots : ~Alive(i)
  /\ Connects
  /\ slot' = [slot EXCEPT ![NewSlot] = IF TaskOf(NewSlot) THEN Shut(@) ELSE @]
  /\ srv' = IF TaskOf(NewSlot) THEN "waitslot" ELSE "spawn"
  /\ UNCHANGED <<ctl, cur, up, handle, cn, rx, svc, out, st, net>>

SlotFreed ==
  /\ srv = "waitslot" /\ ~TaskOf(NewSlot)
  /\ srv' = "spawn"
  /\ UNCHANGED <<ctl, slot, cur, up, handle, cn, rx, svc, out, st, net, spent>>

\* After 3 s the new connection is closed instead.
SlotTimeout ==
  /\ srv = "waitslot" /\ TaskOf(NewSlot)
  /\ srv' = "accept"
  /\ UNCHANGED <<ctl, slot, cur, up, handle, cn, rx, svc, out, st, net, spent>>

\* Mutant: the current client is not told to stop.
MutSpawn ==
  /\ srv = "spawn"
  /\ At(NewSlot, "none")
  /\ slot' = [slot EXCEPT ![NewSlot] = [FreeSlot EXCEPT !.task = TRUE, !.sock = "open"]]
  /\ ctl' = Goto(NewSlot, "start")
  /\ cur' = NewSlot
  /\ srv' = "accept"
  /\ UNCHANGED <<up, handle, cn, rx, svc, out, st, net, spent>>

\* The current client is told to stop, in the background, and the new one gets its task.
\* Creating a task on the memory of one that still runs is undefined: the model waits until
\* it is gone, and SlotFreeBeforeReuse says when it has to.
Spawn ==
  /\ srv = "spawn"
  /\ At(NewSlot, "none")
  /\ LET told == IF TaskOf(cur) THEN [Shut(slot[cur]) EXCEPT !.old = TRUE] ELSE slot[cur]
     IN \/ /\ slot' = [slot EXCEPT ![cur] = told,
                                   ![NewSlot] = [FreeSlot EXCEPT !.task = TRUE, !.sock = "open"]]
           /\ ctl' = Goto(NewSlot, "start")
           /\ cur' = NewSlot
           /\ UNCHANGED spent
        \/ /\ Fails
           /\ slot' = [slot EXCEPT ![cur] = told, ![NewSlot] = FreeSlot]
           /\ UNCHANGED <<ctl, cur>>
  /\ srv' = "accept"
  /\ UNCHANGED <<up, handle, cn, rx, svc, out, st, net>>

\* server_running is cleared: all clients are told to stop and get 500 ms.
ServerLeaves ==
  /\ srv = "accept" /\ ~up
  /\ slot' = [i \in Slots |-> IF TaskOf(i) THEN Shut(slot[i]) ELSE slot[i]]
  /\ srv' = "drain"
  /\ UNCHANGED <<ctl, cur, up, handle, cn, rx, svc, out, st, net, spent>>

Drained ==
  /\ srv = "drain"
  /\ srv' = "off" /\ handle' = FALSE
  /\ UNCHANGED <<ctl, slot, cur, up, cn, rx, svc, out, st, net, spent>>

-----------------------------------------------------------------------------
(* app_core.c, network_monitor_task, with the service calls it makes *)

WifiChange ==
  /\ IF net.wifi
     THEN /\ Drops /\ Costs(3)
          /\ net' = [net EXCEPT !.wifi = FALSE]
     ELSE net' = [net EXCEPT !.wifi = TRUE] /\ UNCHANGED spent
  /\ UNCHANGED <<ctl, slot, cur, srv, up, handle, cn, rx, svc, out, st>>

\* Every 2 s: the network flag, then the refresh, which wants playback as soon as a
\* session is being established.  The server of a stopped service is gone by then, 500 ms
\* after its accept failed, unless it waited for a slot; its clients may be anywhere.
Tick ==
  /\ At(NM, "idle")
  /\ svc.started \/ srv \in {"off", "waitslot"}
  /\ net' = [net EXCEPT !.has = net.wifi]
  /\ st' = SetNetworkReady(st, net.wifi)
  /\ Sync(NM, IF svc.started THEN [svc EXCEPT !.desired = ServiceActive(st')] ELSE svc, "edge")
  /\ UNCHANGED <<slot, cur, srv, up, handle, cn, rx, spent>>

\* The network came back, or an earlier start failed: start the service.
EdgeStart ==
  /\ At(NM, "edge")
  /\ net.has /\ (~net.had \/ ~svc.started)
  /\ net' = [net EXCEPT !.had = TRUE]
  /\ st' = IF net.had THEN st ELSE SetRecovering(st, FALSE)
  /\ ctl' = Goto(NM, IF svc.started THEN "idle" ELSE "boot")
  /\ UNCHANGED <<slot, cur, srv, up, handle, cn, rx, svc, out, spent>>

\* The network went away: rtsp_server_stop clears server_running and waits 100 ms.
EdgeStop ==
  /\ At(NM, "edge")
  /\ ~net.has /\ net.had
  /\ net' = [net EXCEPT !.had = FALSE]
  /\ st' = SetRecovering(st, TRUE)
  /\ IF svc.started THEN up' = FALSE /\ ctl' = Goto(NM, "stop2")
                    ELSE UNCHANGED up /\ ctl' = Goto(NM, "idle")
  /\ UNCHANGED <<slot, cur, srv, handle, cn, rx, svc, out, spent>>

EdgeNone ==
  /\ At(NM, "edge")
  /\ net.has = net.had /\ (net.has => svc.started)
  /\ ctl' = Goto(NM, "idle")
  /\ UNCHANGED <<slot, cur, srv, up, handle, cn, rx, svc, out, st, net, spent>>

\* The handle is cleared, whether or not the server task has ended.
ServiceStopPipeline ==
  /\ At(NM, "stop2")
  /\ handle' = FALSE
  /\ ctl' = Call(NM, "out_wait", "stop3")
  /\ UNCHANGED <<slot, cur, srv, up, cn, rx, svc, out, st, net, spent>>

\* Mutant: the stopped service still counts as started.
MutServiceStopped ==
  /\ At(NM, "stop3")
  /\ svc' = [svc EXCEPT !.desired = FALSE, !.running = FALSE]
  /\ st' = SetDiscoverable(st, FALSE)
  /\ ctl' = Goto(NM, "idle")
  /\ UNCHANGED <<slot, cur, srv, up, handle, cn, rx, out, net, spent>>

ServiceStopped ==
  /\ At(NM, "stop3")
  /\ svc' = [started |-> FALSE, desired |-> FALSE, running |-> FALSE]
  /\ st' = SetDiscoverable(st, FALSE)
  /\ ctl' = Goto(NM, "idle")
  /\ UNCHANGED <<slot, cur, srv, up, handle, cn, rx, out, net, spent>>

\* airplay_service_start; a server handle, which would have it refused, is never left.  The
\* new server task sets both slots to empty, whether or not their clients have gone.  Two
\* server tasks on one static stack are undefined: the model waits, and OneServerTask says
\* whether it ever has to.
ServiceStart ==
  /\ At(NM, "boot")
  /\ ~handle /\ srv = "off"
  /\ \/ /\ srv' = "accept" /\ up' = TRUE /\ handle' = TRUE
        /\ slot' = [i \in Slots |-> FreeSlot]
        /\ st' = SetRecovering(SetDiscoverable(st, TRUE), FALSE)
        /\ Sync(NM, [started |-> TRUE, desired |-> ServiceActive(st), running |-> FALSE], "idle")
        /\ UNCHANGED spent
     \/ /\ Fails
        /\ st' = SetRecovering(st, TRUE)
        /\ up' = FALSE
        /\ ctl' = Goto(NM, "idle")
        /\ UNCHANGED <<srv, handle, slot, svc, out>>
  /\ UNCHANGED <<cur, cn, rx, net>>

-----------------------------------------------------------------------------
\* What a task does on its own once it has begun: calls go on, a signalled client leaves.
ClientStep(i) ==
  \/ ClientStart(i) \/ ClientAlloc(i) \/ ClientExit(i) \/ CleanEvent(i) \/ Release(i) \/ Delete(i)
  \/ RecordRestarted(i) \/ TeardownEnd(i)
PipelineStep(a) == ReceiverStopped(a) \/ OutputStopped(a) \/ PipelineStopped(a)
ServerStep == SlotFreed \/ SlotTimeout \/ Spawn \/ ServerLeaves \/ Drained
MonitorStep ==
  \/ Tick \/ EdgeStart \/ EdgeStop \/ EdgeNone
  \/ ServiceStopPipeline \/ ServiceStopped \/ ServiceStart

Step ==
  \/ \E i \in Slots : ClientStep(i) \/ PeerClose(i) \/ Request(i)
  \/ \E a \in Tasks : PipelineStep(a)
  \/ Accept \/ ServerStep
  \/ MonitorStep \/ WifiChange

\* A new server, the only step that sets the handle, forgets the clients that are alive,
\* each until its task is gone.
Forget == forgotten' = {i \in Slots : ctl'[i].at # "none" /\ (i \in forgotten \/ (handle' /\ ~handle))}

Next == Step /\ Forget

Spec == Init /\ [][Next]_vars

\* Every task gets the CPU again; phones, requests and the Wi-Fi are free.
Fairness ==
  /\ \A i \in Slots : WF_vars((ClientStep(i) \/ PipelineStep(i)) /\ Forget)
  /\ WF_vars(ServerStep /\ Forget)
  /\ WF_vars((MonitorStep \/ PipelineStep(NM)) /\ Forget)

FairSpec == Spec /\ Fairness

-----------------------------------------------------------------------------
(* Correctness *)

\* rtsp_server.c:409: the old client is told to stop before the new one is set up, so two
\* phones never have their requests taken at the same time.
OneServingClient == ~(Serving(0) /\ Serving(1))

\* rtsp_server.c:391: the static task memory of a slot is used again only when the task
\* that had it is deleted, but for two cases: a client declares its slot free just before
\* the deletion of its task, and a restart of the service forgets clients still cleaning up.
SlotFreeBeforeReuse ==
  srv = "spawn" /\ Alive(NewSlot) => At(NewSlot, "exiting") \/ NewSlot \in forgotten

\* A stream never outlives the connection whose RECORD started it, whatever other clients,
\* the refresh or a service stop do.
StreamWithinConnection == rx.run => rx.by # None /\ Alive(rx.by)

\* A client told to stop leaves.
StoppedClientLeaves == \A i \in Slots : (Alive(i) /\ slot[i].stop) ~> ~Alive(i)

\* When the last phone has gone, the receiver is discoverable again, voice may speak and
\* no stream is left over.
Idle == (\A i \in Slots : ~Alive(i)) /\ srv = "accept" /\ up /\ net.wifi
SettlesIdle == <>[]Idle => <>[](st.disc /\ ~ServiceActive(st) /\ ~rx.run /\ ~rx.dec)

\* When the Wi-Fi stays, the service is up again and no recovery is shown.
NetworkRecovers == <>[]net.wifi => <>[](svc.started /\ up /\ ~st.rec)

-----------------------------------------------------------------------------
(* What the documents promise and the code does not keep; README.md, section 5. *)

\* rtsp_conn.c:69: the cleanup of a replaced client must not kill "a new session's audio":
\* the decoder of a connection that has announced survives it.
CleanupSparesNewSession ==
  [][\A i, j \in Slots :
       i # j /\ ReceiverStopped(i) /\ Serving(j) /\ cn[j].ann => rx'.dec = rx.dec]_vars

\* PROJECT.md:47: airplay_service_is_active is the one gate that keeps voice out, so it is
\* closed for the whole of a session.
GateClosedInSession == \A i \in Slots : Serving(i) => ServiceActive(st)

\* audio_receiver.c:558: on a pause "the receiver tasks keep running", so that the RECORD
\* that resumes, which starts nothing, finds a stream.
PauseKeepsReceiving ==
  [][\A a \in Tasks, i \in Slots :
       OutputStopped(a) /\ rx.run /\ rx.by = i /\ cn[i].paused => rx'.run]_vars

\* PROJECT.md:81: no playback worker before a session has begun to play.
WorkerOnlyAfterPlaying ==
  [][out' /\ ~out => st'.str]_vars

\* A slot that has a handle has a task behind it.
HandleHasTask == \A i \in Slots : slot[i].task => Alive(i)

\* A server task starts only when the one before it has ended.
OneServerTask == At(NM, "boot") /\ ~handle => srv = "off"

\* PROJECT.md:81: without a session there is no playback worker.
WorkerSettles == <>[]Idle => <>[]~out
=============================================================================
