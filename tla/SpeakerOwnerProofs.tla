------------------------- MODULE SpeakerOwnerProofs -------------------------
(***************************************************************************)
(* The voice player owns the speaker for the whole of a reply, and no      *)
(* AirPlay worker runs beside it but that of a start which the acquisition *)
(* overtook: proofs for every set of AirPlay tasks, with and without       *)
(* preemption, with a codec that may fail and one that does not.           *)
(***************************************************************************)
EXTENDS SpeakerOwner, TLAPS

\* The ownership of the reply alone is not inductive: the controller has taken
\* it before, and a release by the controller, after a failed start, takes it
\* from nobody because no reply plays meanwhile.
StartsAlone ==
    pc[Ctrl] \in {"acquire.signal", "acquire.wait", "ext.open", "ext.codec",
                 "ext.create", "ext.close", "release"}
        => pc[Play] = "idle" /\ external_owner

\* The controller does not run the play task's code.
CtrlLabels == pc[Ctrl] \notin {"prefill", "play"}

OwnerInv == TypeOK /\ StartsAlone /\ CtrlLabels /\ OwnerForWholeReply

\* The tasks are four different ones, or more.
LEMMA TasksDiffer == /\ Ctrl \in Tasks /\ Play \in Tasks /\ Rtsp \in Tasks
                     /\ Ctrl # Play
                     /\ \A t \in AirTasks : t \in Tasks /\ t # Ctrl /\ t # Play
BY TaskAssumption DEF Tasks

\* The invariant holds when nothing has begun.
LEMMA OwnerInit == Init => OwnerInv
BY TasksDiffer DEF Init, OwnerInv, TypeOK, StartsAlone, CtrlLabels,
                   OwnerForWholeReply, Label, VoiceLabel

-----------------------------------------------------------------------------
(* Most steps only move a task between labels the invariant says nothing   *)
(* of: one lemma deals with all of these.                                  *)

\* The state but for pc has its type.
FlagsOK == /\ external_owner \in BOOLEAN
           /\ worker_was_running \in BOOLEAN
           /\ handle \in BOOLEAN
           /\ playback_running \in BOOLEAN
           /\ output_open \in BOOLEAN
           /\ session \in {"none", "establishing", "streaming"}
           /\ desired \in BOOLEAN
           /\ running \in BOOLEAN
           /\ rm_airplay \in BOOLEAN
           /\ playing \in BOOLEAN
           /\ late \subseteq AirTasks

\* The labels between the start of a reply and its end.
ReplyLabel == {"acquire.signal", "acquire.wait", "ext.open", "ext.codec", "ext.create",
               "ext.close", "prefill", "play", "release"}

\* A call has begun, or it goes on or ends, away from the start of a reply
\* and from the reply itself.
Quiet(t) ==
    /\ t = Play => pc[t] # "idle"
    /\ \E label \in Label \ ReplyLabel :
          /\ t \in AirTasks => label \notin VoiceLabel
          /\ pc' = [pc EXCEPT ![t] = label]

\* A quiet step that leaves the owner alone keeps the invariant.
LEMMA QuietStep ==
    ASSUME OwnerInv, NEW t \in Tasks, Quiet(t), FlagsOK',
           external_owner' = external_owner
    PROVE  OwnerInv'
<1>1. PICK label \in Label \ ReplyLabel :
          /\ t \in AirTasks => label \notin VoiceLabel
          /\ pc' = [pc EXCEPT ![t] = label]
  BY DEF Quiet
<1>2. pc \in [Tasks -> Label]
  BY DEF OwnerInv, TypeOK
<1>3. pc' \in [Tasks -> Label] /\ pc'[t] = label /\ \A u \in Tasks : u # t => pc'[u] = pc[u]
  BY <1>1, <1>2
<1>4. TypeOK'
  <2>1. ASSUME NEW u \in AirTasks PROVE pc'[u] \notin VoiceLabel
    BY <1>1, <1>3, TasksDiffer DEF OwnerInv, TypeOK
  <2> QED
    BY <2>1, <1>3 DEF TypeOK, FlagsOK
<1>5. StartsAlone'
  <2>1. CASE t = Ctrl
    BY <2>1, <1>1, <1>3 DEF StartsAlone, ReplyLabel
  <2>2. CASE t = Play
    BY <2>2, <1>3, TasksDiffer DEF StartsAlone, Quiet, OwnerInv
  <2>3. CASE t # Ctrl /\ t # Play
    BY <2>3, <1>3, TasksDiffer DEF StartsAlone, OwnerInv
  <2> QED
    BY <2>1, <2>2, <2>3
<1>6. CtrlLabels'
  <2>1. CASE t = Ctrl
    BY <2>1, <1>1, <1>3 DEF CtrlLabels, ReplyLabel
  <2>2. CASE t # Ctrl
    BY <2>2, <1>3, TasksDiffer DEF CtrlLabels, OwnerInv
  <2> QED
    BY <2>1, <2>2
<1>7. OwnerForWholeReply'
  <2>1. CASE t = Play
    BY <2>1, <1>1, <1>3 DEF OwnerForWholeReply, ReplyLabel
  <2>2. CASE t # Play
    BY <2>2, <1>3, TasksDiffer DEF OwnerForWholeReply, OwnerInv
  <2> QED
    BY <2>1, <2>2
<1> QED
  BY <1>4, <1>5, <1>6, <1>7 DEF OwnerInv

\* sync_playback_worker, by whatever task came to it.
LEMMA SyncKeeps ==
    ASSUME OwnerInv, NEW t \in Tasks, Sync(t), UNCHANGED late
    PROVE  OwnerInv'
<1>0. OwnerInv /\ TypeOK
  BY DEF OwnerInv
<1>1. FlagsOK' /\ external_owner' = external_owner
  BY <1>0 DEF TypeOK, FlagsOK, Sync, output, service
<1>2. Quiet(t)
  BY TasksDiffer DEF Quiet, Label, VoiceLabel, ReplyLabel, At, Goto, Sync
<1> QED
  BY <1>1, <1>2, QuietStep, TasksDiffer

\* SyncDesired keeps the invariant.
LEMMA SyncDesiredKeeps ==
    ASSUME OwnerInv, NEW t \in Tasks, SyncDesired(t), UNCHANGED late
    PROVE  OwnerInv'
<1>0. OwnerInv /\ TypeOK
  BY DEF OwnerInv
<1>1. FlagsOK' /\ external_owner' = external_owner
  BY <1>0 DEF TypeOK, FlagsOK, SyncDesired, output, service
<1>2. Quiet(t)
  BY TasksDiffer DEF Quiet, Label, VoiceLabel, ReplyLabel, At, Goto, SyncDesired
<1> QED
  BY <1>1, <1>2, QuietStep, TasksDiffer

\* Started keeps the invariant.
LEMMA StartedKeeps ==
    ASSUME OwnerInv, NEW t \in Tasks, Started(t), UNCHANGED late
    PROVE  OwnerInv'
<1>0. OwnerInv /\ TypeOK
  BY DEF OwnerInv
<1>1. FlagsOK' /\ external_owner' = external_owner
  BY <1>0 DEF TypeOK, FlagsOK, Started, output, service
<1>2. Quiet(t)
  BY TasksDiffer DEF Quiet, Label, VoiceLabel, ReplyLabel, At, Goto, Started
<1> QED
  BY <1>1, <1>2, QuietStep, TasksDiffer

\* RmAcquire keeps the invariant.
LEMMA RmAcquireKeeps ==
    ASSUME OwnerInv, NEW t \in Tasks, RmAcquire(t), UNCHANGED late
    PROVE  OwnerInv'
<1>0. OwnerInv /\ TypeOK
  BY DEF OwnerInv
<1>1. FlagsOK' /\ external_owner' = external_owner
  BY <1>0 DEF TypeOK, FlagsOK, RmAcquire, output, service
<1>2. Quiet(t)
  BY TasksDiffer DEF Quiet, Label, VoiceLabel, ReplyLabel, At, Goto, RmAcquire
<1> QED
  BY <1>1, <1>2, QuietStep, TasksDiffer

\* Stopped keeps the invariant.
LEMMA StoppedKeeps ==
    ASSUME OwnerInv, NEW t \in Tasks, Stopped(t), UNCHANGED late
    PROVE  OwnerInv'
<1>0. OwnerInv /\ TypeOK
  BY DEF OwnerInv
<1>1. FlagsOK' /\ external_owner' = external_owner
  BY <1>0 DEF TypeOK, FlagsOK, Stopped, output, service
<1>2. Quiet(t)
  BY TasksDiffer DEF Quiet, Label, VoiceLabel, ReplyLabel, At, Goto, Stopped
<1> QED
  BY <1>1, <1>2, QuietStep, TasksDiffer

\* RmRelease keeps the invariant.
LEMMA RmReleaseKeeps ==
    ASSUME OwnerInv, NEW t \in Tasks, RmRelease(t), UNCHANGED late
    PROVE  OwnerInv'
<1>0. OwnerInv /\ TypeOK
  BY DEF OwnerInv
<1>1. FlagsOK' /\ external_owner' = external_owner
  BY <1>0 DEF TypeOK, FlagsOK, RmRelease, output, service
<1>2. Quiet(t)
  BY TasksDiffer DEF Quiet, Label, VoiceLabel, ReplyLabel, At, Goto, RmRelease
<1> QED
  BY <1>1, <1>2, QuietStep, TasksDiffer

\* StartCheck keeps the invariant.
LEMMA StartCheckKeeps ==
    ASSUME OwnerInv, NEW t \in Tasks, StartCheck(t), UNCHANGED late
    PROVE  OwnerInv'
<1>0. OwnerInv /\ TypeOK
  BY DEF OwnerInv
<1>1. FlagsOK' /\ external_owner' = external_owner
  BY <1>0 DEF TypeOK, FlagsOK, StartCheck, output, service
<1>2. Quiet(t)
  BY TasksDiffer DEF Quiet, Label, VoiceLabel, ReplyLabel, At, Goto, StartCheck
<1> QED
  BY <1>1, <1>2, QuietStep, TasksDiffer

\* StopCheck keeps the invariant.
LEMMA StopCheckKeeps ==
    ASSUME OwnerInv, NEW t \in Tasks, StopCheck(t), UNCHANGED late
    PROVE  OwnerInv'
<1>0. OwnerInv /\ TypeOK
  BY DEF OwnerInv
<1>1. FlagsOK' /\ external_owner' = external_owner
  BY <1>0 DEF TypeOK, FlagsOK, StopCheck, output, service
<1>2. Quiet(t)
  BY TasksDiffer DEF Quiet, Label, VoiceLabel, ReplyLabel, At, Goto, StopCheck
<1> QED
  BY <1>1, <1>2, QuietStep, TasksDiffer

\* CloseOutput keeps the invariant.
LEMMA CloseOutputKeeps ==
    ASSUME OwnerInv, NEW t \in Tasks, CloseOutput(t), UNCHANGED late
    PROVE  OwnerInv'
<1>0. OwnerInv /\ TypeOK
  BY DEF OwnerInv
<1>1. FlagsOK' /\ external_owner' = external_owner
  BY <1>0 DEF TypeOK, FlagsOK, CloseOutput, CloseCodec, output, service
<1>2. Quiet(t)
  BY TasksDiffer DEF Quiet, Label, VoiceLabel, ReplyLabel, At, Goto, CloseOutput, CloseCodec
<1> QED
  BY <1>1, <1>2, QuietStep, TasksDiffer

\* The bring-up and the tear-down of the worker.
LEMMA StartWorkerKeeps ==
    ASSUME OwnerInv, NEW t \in Tasks, StartWorker(t), UNCHANGED late
    PROVE  OwnerInv'
<1>0. OwnerInv /\ TypeOK
  BY DEF OwnerInv
<1>1. FlagsOK' /\ external_owner' = external_owner
  <2>1. CASE OpenForWorker(t, "start.open", "start.codec", "start.create", "started")
    BY <1>0, <2>1 DEF TypeOK, FlagsOK, OpenForWorker, output, service
  <2>2. CASE OpenCodec(t, "start.codec", "start.create", "started")
    BY <1>0, <2>2 DEF TypeOK, FlagsOK, OpenCodec, output, service
  <2>3. CASE CommonStart(t, "start.create", "start.spawn", "started")
    BY <1>0, <2>3 DEF TypeOK, FlagsOK, CommonStart, output, service
  <2>4. CASE SpawnWorker(t, "start.spawn", "started")
    BY <1>0, <2>4 DEF TypeOK, FlagsOK, SpawnWorker, output, service
  <2> QED
    BY <2>1, <2>2, <2>3, <2>4 DEF StartWorker
<1>2. Quiet(t)
  BY TasksDiffer DEF Quiet, Label, VoiceLabel, ReplyLabel, At, Goto, StartWorker,
      OpenForWorker, OpenCodec, CommonStart, SpawnWorker
<1> QED
  BY <1>1, <1>2, QuietStep, TasksDiffer

\* ResumeWorker keeps the invariant.
LEMMA ResumeWorkerKeeps ==
    ASSUME OwnerInv, NEW t \in Tasks, ResumeWorker(t), UNCHANGED late
    PROVE  OwnerInv'
<1>0. OwnerInv /\ TypeOK
  BY DEF OwnerInv
<1>1. FlagsOK' /\ external_owner' = external_owner
  <2>1. CASE OpenForWorker(t, "resume.open", "resume.codec", "resume.create", "resume.create")
    BY <1>0, <2>1 DEF TypeOK, FlagsOK, OpenForWorker, output, service
  <2>2. CASE OpenCodec(t, "resume.codec", "resume.create", "resume.create")
    BY <1>0, <2>2 DEF TypeOK, FlagsOK, OpenCodec, output, service
  <2>3. CASE CommonStart(t, "resume.create", "resume.spawn", "released")
    BY <1>0, <2>3 DEF TypeOK, FlagsOK, CommonStart, output, service
  <2>4. CASE SpawnWorker(t, "resume.spawn", "released")
    BY <1>0, <2>4 DEF TypeOK, FlagsOK, SpawnWorker, output, service
  <2> QED
    BY <2>1, <2>2, <2>3, <2>4 DEF ResumeWorker
<1>2. Quiet(t)
  BY <1>0, TasksDiffer DEF TypeOK, Quiet, Label, VoiceLabel, ReplyLabel, At, Goto,
      ResumeWorker, OpenForWorker, OpenCodec, CommonStart, SpawnWorker
<1> QED
  BY <1>1, <1>2, QuietStep, TasksDiffer

\* StopWorker keeps the invariant.
LEMMA StopWorkerKeeps ==
    ASSUME OwnerInv, NEW t \in Tasks, StopWorker(t), UNCHANGED late
    PROVE  OwnerInv'
<1>0. OwnerInv /\ TypeOK
  BY DEF OwnerInv
<1>1. FlagsOK' /\ external_owner' = external_owner
  BY <1>0 DEF TypeOK, FlagsOK, StopWorker, Signal, Wait, output, service
<1>2. Quiet(t)
  BY TasksDiffer DEF Quiet, Label, VoiceLabel, ReplyLabel, At, Goto, StopWorker, Signal, Wait
<1> QED
  BY <1>1, <1>2, QuietStep, TasksDiffer

\* Refreshes, events and stops, which leave the owner alone.
LEMMA ReleasedKeeps ==
    ASSUME OwnerInv, NEW t \in Tasks, Released(t), UNCHANGED late
    PROVE  OwnerInv'
<1>0. OwnerInv /\ TypeOK
  BY DEF OwnerInv
<1>1. FlagsOK' /\ external_owner' = external_owner
  BY <1>0 DEF TypeOK, FlagsOK, Released, Refresh, output, service
<1>2. Quiet(t)
  BY TasksDiffer DEF Quiet, Label, VoiceLabel, ReplyLabel, At, Goto, Released, Refresh
<1> QED
  BY <1>1, <1>2, QuietStep, TasksDiffer

\* NetMonitor keeps the invariant.
LEMMA NetMonitorKeeps ==
    ASSUME OwnerInv, NEW t \in AirTasks, NetMonitor(t), UNCHANGED late
    PROVE  OwnerInv'
<1>0. OwnerInv /\ TypeOK
  BY DEF OwnerInv
<1>1. FlagsOK' /\ external_owner' = external_owner
  BY <1>0 DEF TypeOK, FlagsOK, NetMonitor, Refresh, output, service
<1>2. Quiet(t)
  BY TasksDiffer DEF Quiet, Label, VoiceLabel, ReplyLabel, At, Goto, NetMonitor, Refresh
<1> QED
  BY <1>1, <1>2, QuietStep, TasksDiffer

\* Event keeps the invariant.
LEMMA EventKeeps ==
    ASSUME OwnerInv, NEW s \in {"none", "establishing", "streaming"}, Event(s), UNCHANGED late
    PROVE  OwnerInv'
<1>0. OwnerInv /\ TypeOK
  BY DEF OwnerInv
<1>1. FlagsOK' /\ external_owner' = external_owner
  BY <1>0 DEF TypeOK, FlagsOK, Event, output, service
<1>2. Quiet(Rtsp)
  BY TasksDiffer, TaskAssumption DEF Quiet, Label, VoiceLabel, ReplyLabel, At, Goto, Event
<1> QED
  BY <1>1, <1>2, QuietStep, TasksDiffer

\* VoiceStop keeps the invariant.
LEMMA VoiceStopKeeps ==
    ASSUME OwnerInv, VoiceStop, UNCHANGED late
    PROVE  OwnerInv'
<1>0. OwnerInv /\ TypeOK
  BY DEF OwnerInv
<1>1. FlagsOK' /\ external_owner' = external_owner
  BY <1>0 DEF TypeOK, FlagsOK, VoiceStop, output, service
<1>2. Quiet(Ctrl)
  BY TasksDiffer DEF Quiet, Label, VoiceLabel, ReplyLabel, At, Goto, VoiceStop
<1> QED
  BY <1>1, <1>2, QuietStep, TasksDiffer

\* VoiceStopped keeps the invariant.
LEMMA VoiceStoppedKeeps ==
    ASSUME OwnerInv, VoiceStopped, UNCHANGED late
    PROVE  OwnerInv'
<1>0. OwnerInv /\ TypeOK
  BY DEF OwnerInv
<1>1. FlagsOK' /\ external_owner' = external_owner
  BY <1>0 DEF TypeOK, FlagsOK, VoiceStopped, Refresh, output, service
<1>2. Quiet(Ctrl)
  BY TasksDiffer DEF Quiet, Label, VoiceLabel, ReplyLabel, At, Goto, VoiceStopped, Refresh
<1> QED
  BY <1>1, <1>2, QuietStep, TasksDiffer

\* PrefillExit keeps the invariant.
LEMMA PrefillExitKeeps ==
    ASSUME OwnerInv, PrefillExit, UNCHANGED late
    PROVE  OwnerInv'
<1>0. OwnerInv /\ TypeOK
  BY DEF OwnerInv
<1>1. FlagsOK' /\ external_owner' = external_owner
  BY <1>0 DEF TypeOK, FlagsOK, PrefillExit, output, service
<1>2. Quiet(Play)
  BY TasksDiffer DEF Quiet, Label, VoiceLabel, ReplyLabel, At, Goto, PrefillExit
<1> QED
  BY <1>1, <1>2, QuietStep, TasksDiffer

\* NoMemory keeps the invariant.
LEMMA NoMemoryKeeps ==
    ASSUME OwnerInv, NoMemory, UNCHANGED late
    PROVE  OwnerInv'
<1>0. OwnerInv /\ TypeOK
  BY DEF OwnerInv
<1>1. FlagsOK' /\ external_owner' = external_owner
  BY <1>0 DEF TypeOK, FlagsOK, NoMemory, output, service
<1>2. Quiet(Play)
  BY TasksDiffer DEF Quiet, Label, VoiceLabel, ReplyLabel, At, Goto, NoMemory
<1> QED
  BY <1>1, <1>2, QuietStep, TasksDiffer

-----------------------------------------------------------------------------
(* The other steps.                                                        *)

\* The controller takes the speaker only while no play task is there,
LEMMA AcquireKeeps ==
    ASSUME OwnerInv, Acquire
    PROVE  OwnerInv'
<1>0. OwnerInv /\ TypeOK
  BY DEF OwnerInv
<1>1. FlagsOK'
  BY <1>0 DEF TypeOK, FlagsOK, Acquire, service
<1>2. /\ pc' \in [Tasks -> Label]
      /\ pc'[Ctrl] \in {"acquire.signal", "ext.open"} /\ pc'[Play] = "idle"
      /\ \A u \in AirTasks : pc'[u] = pc[u]
  BY <1>0, TasksDiffer DEF TypeOK, Label, VoiceLabel, At, Goto, Acquire, service
<1> QED
  BY <1>0, <1>1, <1>2, TasksDiffer
  DEF OwnerInv, TypeOK, FlagsOK, StartsAlone, CtrlLabels, OwnerForWholeReply,
      At, Acquire, service

\* stops the worker,
LEMMA AcquireStopKeeps ==
    ASSUME OwnerInv, AcquireStop, UNCHANGED late
    PROVE  OwnerInv'
<1>1. CASE Signal(Ctrl, "acquire.signal", "acquire.wait", "ext.open")
  BY <1>1, TasksDiffer
  DEF OwnerInv, TypeOK, StartsAlone, CtrlLabels, OwnerForWholeReply,
      Label, VoiceLabel, At, Goto, Signal, service
<1>2. CASE Wait(Ctrl, "acquire.wait", "ext.open")
  BY <1>2, TasksDiffer
  DEF OwnerInv, TypeOK, StartsAlone, CtrlLabels, OwnerForWholeReply,
      Label, VoiceLabel, At, Goto, Wait, output, service
<1> QED
  BY <1>1, <1>2 DEF AcquireStop

\* opens the codec,
LEMMA ExternalOpenKeeps ==
    ASSUME OwnerInv, ExternalOpen, UNCHANGED late
    PROVE  OwnerInv'
<1>0. OwnerInv /\ TypeOK
  BY DEF OwnerInv
<1>1. FlagsOK' /\ external_owner' = external_owner
  BY <1>0 DEF TypeOK, FlagsOK, ExternalOpen, OpenCodec, output, service
<1>2. PICK label \in {"ext.codec", "ext.create", "release"} : pc' = [pc EXCEPT ![Ctrl] = label]
  BY DEF ExternalOpen, OpenCodec, Goto
<1>3. pc[Ctrl] \in {"ext.open", "ext.codec"}
  BY DEF ExternalOpen, OpenCodec, At
<1>4. /\ pc' \in [Tasks -> Label] /\ pc'[Ctrl] = label /\ pc'[Play] = pc[Play]
      /\ \A u \in AirTasks : pc'[u] = pc[u]
  BY <1>0, <1>2, TasksDiffer DEF TypeOK, Label, VoiceLabel
<1> QED
  BY <1>0, <1>1, <1>3, <1>4
  DEF OwnerInv, TypeOK, FlagsOK, StartsAlone, CtrlLabels, OwnerForWholeReply

\* and hands over to the play task, or gives up.
LEMMA CreatePlayerKeeps ==
    ASSUME OwnerInv, CreatePlayer, UNCHANGED late
    PROVE  OwnerInv'
<1>0. OwnerInv /\ TypeOK
  BY DEF OwnerInv
<1>1. /\ FlagsOK' /\ external_owner' = external_owner /\ external_owner
      /\ pc[Ctrl] = "ext.create" /\ pc[Play] = "idle"
  BY <1>0 DEF TypeOK, FlagsOK, CreatePlayer, At, output, service, OwnerInv, StartsAlone
<1>2. CASE pc' = [pc EXCEPT ![Ctrl] = "idle", ![Play] = "prefill"]
  <2>1. /\ pc' \in [Tasks -> Label] /\ pc'[Ctrl] = "idle" /\ pc'[Play] = "prefill"
        /\ \A u \in AirTasks : pc'[u] = pc[u]
    BY <1>0, <1>2, TasksDiffer DEF TypeOK, Label, VoiceLabel
  <2> QED
    BY <1>0, <1>1, <2>1
    DEF OwnerInv, TypeOK, FlagsOK, StartsAlone, CtrlLabels, OwnerForWholeReply
<1>3. CASE pc' = [pc EXCEPT ![Ctrl] = IF output_open THEN "ext.close" ELSE "release"]
  <2>1. /\ pc' \in [Tasks -> Label] /\ pc'[Ctrl] \in {"ext.close", "release"}
        /\ pc'[Play] = "idle" /\ \A u \in AirTasks : pc'[u] = pc[u]
    BY <1>0, <1>1, <1>3, TasksDiffer DEF TypeOK, Label, VoiceLabel
  <2> QED
    BY <1>0, <1>1, <2>1
    DEF OwnerInv, TypeOK, FlagsOK, StartsAlone, CtrlLabels, OwnerForWholeReply
<1> QED
  BY <1>2, <1>3 DEF CreatePlayer, Goto

\* The play task keeps the speaker until it gives it back itself.
LEMMA PrefilledKeeps ==
    ASSUME OwnerInv, Prefilled, UNCHANGED late
    PROVE  OwnerInv'
<1>0. OwnerInv /\ TypeOK
  BY DEF OwnerInv
<1>1. FlagsOK'
  BY <1>0 DEF TypeOK, FlagsOK, Prefilled, output, service
<1>2. /\ pc' \in [Tasks -> Label]
      /\ pc'[Play] = "play" /\ pc'[Ctrl] = pc[Ctrl]
      /\ \A u \in AirTasks : pc'[u] = pc[u]
  BY <1>0, TasksDiffer DEF TypeOK, Label, VoiceLabel, At, Goto, Prefilled, output,
      service
<1> QED
  BY <1>0, <1>1, <1>2, TasksDiffer
  DEF OwnerInv, TypeOK, FlagsOK, StartsAlone, CtrlLabels, OwnerForWholeReply,
      At, Prefilled, output, service

\* EndOfReply keeps the invariant.
LEMMA EndOfReplyKeeps ==
    ASSUME OwnerInv, EndOfReply, UNCHANGED late
    PROVE  OwnerInv'
<1>0. OwnerInv /\ TypeOK
  BY DEF OwnerInv
<1>1. FlagsOK' /\ external_owner' = external_owner
  BY <1>0 DEF TypeOK, FlagsOK, EndOfReply, output, service
<1>2. /\ pc' \in [Tasks -> Label]
      /\ pc'[Play] \in {"ext.close", "release"} /\ pc'[Ctrl] = pc[Ctrl]
      /\ \A u \in AirTasks : pc'[u] = pc[u]
  BY <1>0, TasksDiffer DEF TypeOK, Label, VoiceLabel, At, Goto, EndOfReply, service
<1> QED
  BY <1>0, <1>1, <1>2, TasksDiffer
  DEF OwnerInv, TypeOK, FlagsOK, StartsAlone, CtrlLabels, OwnerForWholeReply,
      At, EndOfReply

\* Closing the codec leaves the owner alone.
LEMMA ExternalCloseKeeps ==
    ASSUME OwnerInv, NEW t \in Tasks, ExternalClose(t), UNCHANGED late
    PROVE  OwnerInv'
<1>0. OwnerInv /\ TypeOK
  BY DEF OwnerInv
<1>1. FlagsOK' /\ external_owner' = external_owner
  BY <1>0 DEF TypeOK, FlagsOK, ExternalClose, CloseCodec, output, service
<1>2. /\ t \in {Ctrl, Play} /\ pc[t] = "ext.close"
      /\ pc' = [pc EXCEPT ![t] = "release"]
  BY DEF ExternalClose, CloseCodec, At, Goto
<1>3. /\ pc' \in [Tasks -> Label]
      /\ pc'[t] = "release"
      /\ \A u \in Tasks : u # t => pc'[u] = pc[u]
  BY <1>0, <1>2 DEF TypeOK, Label, VoiceLabel
<1>4. TypeOK'
  BY <1>0, <1>1, <1>2, <1>3, TasksDiffer DEF TypeOK, FlagsOK
<1>5. CASE t = Ctrl
  BY <1>0, <1>1, <1>2, <1>3, <1>4, <1>5, TasksDiffer
  DEF OwnerInv, StartsAlone, CtrlLabels, OwnerForWholeReply
<1>6. CASE t = Play
  BY <1>0, <1>1, <1>2, <1>3, <1>4, <1>6, TasksDiffer
  DEF OwnerInv, StartsAlone, CtrlLabels, OwnerForWholeReply
<1> QED
  BY <1>2, <1>5, <1>6

\* A release clears the owner: by the play task as it leaves the reply, or by
\* the controller when there is none.
LEMMA ReleaseKeeps ==
    ASSUME OwnerInv, NEW t \in Tasks, Release(t), UNCHANGED late
    PROVE  OwnerInv'
<1>0. OwnerInv /\ TypeOK
  BY DEF OwnerInv
<1>1. FlagsOK'
  BY <1>0 DEF TypeOK, FlagsOK, Release, service
<1>2. PICK label \in {"resume.open", "released"} : pc' = [pc EXCEPT ![t] = label]
  BY DEF Release, Goto
<1>3. label \in Label /\ t \notin AirTasks /\ pc[t] = "release" /\ t \in {Ctrl, Play}
  BY TasksDiffer DEF Label, VoiceLabel, Release, At
<1>4. /\ pc' \in [Tasks -> Label]
      /\ pc'[t] = label
      /\ \A u \in Tasks : u # t => pc'[u] = pc[u]
  BY <1>0, <1>2, <1>3 DEF TypeOK
<1>5. TypeOK'
  BY <1>0, <1>1, <1>3, <1>4, TasksDiffer DEF TypeOK, FlagsOK
<1>6. CASE t = Ctrl
  BY <1>0, <1>2, <1>3, <1>4, <1>5, <1>6, TasksDiffer
  DEF OwnerInv, StartsAlone, CtrlLabels, OwnerForWholeReply
<1>7. CASE t = Play
  BY <1>0, <1>2, <1>3, <1>4, <1>5, <1>7, TasksDiffer
  DEF OwnerInv, StartsAlone, CtrlLabels, OwnerForWholeReply
<1> QED
  BY <1>3, <1>6, <1>7

\* The worker has no label.
LEMMA WorkerExitKeeps ==
    ASSUME OwnerInv, WorkerExit
    PROVE  OwnerInv'
<1>0. OwnerInv /\ TypeOK
  BY DEF OwnerInv
<1>1. FlagsOK'
  BY <1>0 DEF TypeOK, FlagsOK, WorkerExit, service
<1>2. UNCHANGED <<pc, external_owner>>
  BY DEF WorkerExit, service
<1> QED
  BY <1>0, <1>1, <1>2, TasksDiffer
  DEF OwnerInv, TypeOK, FlagsOK, StartsAlone, CtrlLabels, OwnerForWholeReply

\* WorkerFlush keeps the invariant.
LEMMA WorkerFlushKeeps ==
    ASSUME OwnerInv, WorkerFlush
    PROVE  OwnerInv'
<1>0. OwnerInv /\ TypeOK
  BY DEF OwnerInv
<1>1. FlagsOK'
  BY <1>0 DEF TypeOK, FlagsOK, WorkerFlush, service
<1>2. UNCHANGED <<pc, external_owner>>
  BY DEF WorkerFlush, service
<1> QED
  BY <1>0, <1>1, <1>2, TasksDiffer
  DEF OwnerInv, TypeOK, FlagsOK, StartsAlone, CtrlLabels, OwnerForWholeReply

-----------------------------------------------------------------------------

\* Every step keeps the invariant.
LEMMA OwnerNext == OwnerInv /\ [Next]_vars => OwnerInv'
<1> SUFFICES ASSUME OwnerInv, [Next]_vars
             PROVE  OwnerInv'
  OBVIOUS
<1>1. ASSUME Moves, UNCHANGED late PROVE OwnerInv'
  <2>1. ASSUME NEW s \in {"none", "establishing", "streaming"}, Event(s) PROVE OwnerInv'
    BY <1>1, <2>1, EventKeeps
  <2>2. ASSUME NEW t \in AirTasks, NetMonitor(t) PROVE OwnerInv'
    BY <1>1, <2>2, NetMonitorKeeps
  <2>3. ASSUME NEW t \in Tasks, Step(t) PROVE OwnerInv'
    BY <1>1, <2>3, SyncKeeps, SyncDesiredKeeps, StartedKeeps, RmAcquireKeeps,
       StoppedKeeps, RmReleaseKeeps, StartCheckKeeps, StartWorkerKeeps,
       ResumeWorkerKeeps, StopCheckKeeps, StopWorkerKeeps, CloseOutputKeeps,
       ExternalCloseKeeps, ReleaseKeeps, ReleasedKeeps
    DEF Step
  <2>4. CASE Voice
    BY <1>1, <2>4, AcquireStopKeeps, ExternalOpenKeeps, CreatePlayerKeeps,
       VoiceStoppedKeeps, PrefillExitKeeps
    DEF Voice
  <2> QED
    BY <1>1, <2>1, <2>2, <2>3, <2>4, VoiceStopKeeps, PrefilledKeeps, NoMemoryKeeps,
       EndOfReplyKeeps
    DEF Moves
<1>2. CASE UNCHANGED vars
  BY <1>2 DEF OwnerInv, TypeOK, StartsAlone, CtrlLabels, OwnerForWholeReply,
              vars, output, service
<1> QED
  BY <1>1, <1>2, WorkerExitKeeps, WorkerFlushKeeps, AcquireKeeps DEF Next

\* The invariant holds in every state.
LEMMA OwnerInvariant == Spec => []OwnerInv
BY OwnerInit, OwnerNext, PTL DEF Spec

\* In every state the labels and flags are the calls' own: no task runs a step
\* of a call that only another task makes.
THEOREM TypeCorrect == Spec => []TypeOK
<1>1. OwnerInv => TypeOK
  BY DEF OwnerInv
<1> QED
  BY <1>1, OwnerInvariant, PTL

\* From voice_player_start's acquisition to the play task's release the voice
\* player owns the speaker (audio_output_cores3.c), whatever the other tasks
\* do and wherever they are preempted.
THEOREM OwnerHolds == Spec => []OwnerForWholeReply
<1>1. OwnerInv => OwnerForWholeReply
  BY DEF OwnerInv
<1> QED
  BY <1>1, OwnerInvariant, PTL
-----------------------------------------------------------------------------
(* No worker runs beside the voice player but one that was overtaken.      *)

\* A start past its test of the owner, while the speaker is owned, is one that
\* the acquisition overtook: never a resume, never one that began later.
LateStarts == \A t \in Tasks : external_owner /\ pc[t] \in StartLabel => t \in late

HeldInv == LateStarts /\ WorkerStoppedWhileHeld

\* t moves, and a start of t makes the worker active only if it was overtaken,
\* at its end; the acquisition's signal stops the worker.
HeldMove(t) ==
    /\ \A u \in Tasks \ {t} : pc'[u] = pc[u]
    /\ external_owner' => external_owner
    /\ external_owner' /\ pc'[t] \in StartLabel => pc[t] \in StartLabel
    /\ external_owner' /\ Active' => Active \/ (t \in late /\ pc'[t] \notin StartLabel)
    /\ t = Ctrl /\ pc[t] = "acquire.signal" => ~Active'

\* Such a move keeps the invariant.
LEMMA HeldMoveKeeps ==
    ASSUME HeldInv, NEW t \in Tasks, HeldMove(t), UNCHANGED late, late \subseteq Tasks
    PROVE  HeldInv'
<1>1. LateStarts'
  <2> SUFFICES ASSUME NEW u \in Tasks, external_owner', pc'[u] \in StartLabel
               PROVE  u \in late
    BY DEF LateStarts
  <2>1. external_owner /\ pc[u] \in StartLabel
    BY DEF HeldMove
  <2> QED
    BY <2>1 DEF HeldInv, LateStarts
<1>2. WorkerStoppedWhileHeld'
  <2> SUFFICES ASSUME external_owner', Active'
               PROVE  \/ pc'[Ctrl] = "acquire.signal"
                      \/ \E u \in late : pc'[u] \notin StartLabel
    BY DEF WorkerStoppedWhileHeld
  <2>1. CASE t \in late /\ pc'[t] \notin StartLabel
    BY <2>1
  <2>2. CASE Active /\ pc[Ctrl] = "acquire.signal"
    BY <2>2, TasksDiffer DEF HeldMove
  <2>3. CASE \E u \in late : pc[u] \notin StartLabel
    BY <2>3 DEF HeldMove
  <2> QED
    BY <2>1, <2>2, <2>3 DEF HeldMove, HeldInv, WorkerStoppedWhileHeld
<1> QED
  BY <1>1, <1>2 DEF HeldInv

\* The overtaken tasks are tasks.
LEMMA LateAreTasks == TypeOK => late \subseteq Tasks
BY TasksDiffer DEF TypeOK

\* No worker begins in sync_playback_worker.
LEMMA SyncHeld ==
    ASSUME TypeOK, HeldInv, NEW t \in Tasks, Sync(t), UNCHANGED late
    PROVE  HeldInv'
<1>1. HeldMove(t)
  BY TasksDiffer DEF HeldMove, StartLabel, At, Goto, TypeOK, Active,
     Sync, output, service
<1> QED
  BY <1>1, HeldMoveKeeps, TasksDiffer, LateAreTasks

\* SyncDesired starts no worker.
LEMMA SyncDesiredHeld ==
    ASSUME TypeOK, HeldInv, NEW t \in Tasks, SyncDesired(t), UNCHANGED late
    PROVE  HeldInv'
<1>1. HeldMove(t)
  BY TasksDiffer DEF HeldMove, StartLabel, At, Goto, TypeOK, Active,
     SyncDesired, output, service
<1> QED
  BY <1>1, HeldMoveKeeps, TasksDiffer, LateAreTasks

\* Started starts no worker.
LEMMA StartedHeld ==
    ASSUME TypeOK, HeldInv, NEW t \in Tasks, Started(t), UNCHANGED late
    PROVE  HeldInv'
<1>1. HeldMove(t)
  BY TasksDiffer DEF HeldMove, StartLabel, At, Goto, TypeOK, Active,
     Started, output, service
<1> QED
  BY <1>1, HeldMoveKeeps, TasksDiffer, LateAreTasks

\* RmAcquire starts no worker.
LEMMA RmAcquireHeld ==
    ASSUME TypeOK, HeldInv, NEW t \in Tasks, RmAcquire(t), UNCHANGED late
    PROVE  HeldInv'
<1>1. HeldMove(t)
  BY TasksDiffer DEF HeldMove, StartLabel, At, Goto, TypeOK, Active,
     RmAcquire, output, service
<1> QED
  BY <1>1, HeldMoveKeeps, TasksDiffer, LateAreTasks

\* Stopped starts no worker.
LEMMA StoppedHeld ==
    ASSUME TypeOK, HeldInv, NEW t \in Tasks, Stopped(t), UNCHANGED late
    PROVE  HeldInv'
<1>1. HeldMove(t)
  BY TasksDiffer DEF HeldMove, StartLabel, At, Goto, TypeOK, Active,
     Stopped, output, service
<1> QED
  BY <1>1, HeldMoveKeeps, TasksDiffer, LateAreTasks

\* RmRelease starts no worker.
LEMMA RmReleaseHeld ==
    ASSUME TypeOK, HeldInv, NEW t \in Tasks, RmRelease(t), UNCHANGED late
    PROVE  HeldInv'
<1>1. HeldMove(t)
  BY TasksDiffer DEF HeldMove, StartLabel, At, Goto, TypeOK, Active,
     RmRelease, output, service
<1> QED
  BY <1>1, HeldMoveKeeps, TasksDiffer, LateAreTasks

\* StartCheck starts no worker.
LEMMA StartCheckHeld ==
    ASSUME TypeOK, HeldInv, NEW t \in Tasks, StartCheck(t), UNCHANGED late
    PROVE  HeldInv'
<1>1. HeldMove(t)
  BY TasksDiffer DEF HeldMove, StartLabel, At, Goto, TypeOK, Active,
     StartCheck, output, service
<1> QED
  BY <1>1, HeldMoveKeeps, TasksDiffer, LateAreTasks

\* StopCheck starts no worker.
LEMMA StopCheckHeld ==
    ASSUME TypeOK, HeldInv, NEW t \in Tasks, StopCheck(t), UNCHANGED late
    PROVE  HeldInv'
<1>1. HeldMove(t)
  BY TasksDiffer DEF HeldMove, StartLabel, At, Goto, TypeOK, Active,
     StopCheck, output, service
<1> QED
  BY <1>1, HeldMoveKeeps, TasksDiffer, LateAreTasks

\* CloseOutput starts no worker.
LEMMA CloseOutputHeld ==
    ASSUME TypeOK, HeldInv, NEW t \in Tasks, CloseOutput(t), UNCHANGED late
    PROVE  HeldInv'
<1>1. HeldMove(t)
  BY TasksDiffer DEF HeldMove, StartLabel, At, Goto, TypeOK, Active,
     CloseOutput, CloseCodec, output, service
<1> QED
  BY <1>1, HeldMoveKeeps, TasksDiffer, LateAreTasks

\* ExternalClose starts no worker.
LEMMA ExternalCloseHeld ==
    ASSUME TypeOK, HeldInv, NEW t \in Tasks, ExternalClose(t), UNCHANGED late
    PROVE  HeldInv'
<1>1. HeldMove(t)
  BY TasksDiffer DEF HeldMove, StartLabel, At, Goto, TypeOK, Active,
     ExternalClose, CloseCodec, output, service
<1> QED
  BY <1>1, HeldMoveKeeps, TasksDiffer, LateAreTasks

\* Released starts no worker.
LEMMA ReleasedHeld ==
    ASSUME TypeOK, HeldInv, NEW t \in Tasks, Released(t), UNCHANGED late
    PROVE  HeldInv'
<1>1. HeldMove(t)
  BY TasksDiffer DEF HeldMove, StartLabel, At, Goto, TypeOK, Active,
     Released, Refresh, output, service
<1> QED
  BY <1>1, HeldMoveKeeps, TasksDiffer, LateAreTasks

\* Release starts no worker.
LEMMA ReleaseHeld ==
    ASSUME TypeOK, HeldInv, NEW t \in Tasks, Release(t), UNCHANGED late
    PROVE  HeldInv'
<1>1. HeldMove(t)
  BY TasksDiffer DEF HeldMove, StartLabel, At, Goto, TypeOK, Active,
     Release, output, service
<1> QED
  BY <1>1, HeldMoveKeeps, TasksDiffer, LateAreTasks

\* StopWorker starts no worker.
LEMMA StopWorkerHeld ==
    ASSUME TypeOK, HeldInv, NEW t \in Tasks, StopWorker(t), UNCHANGED late
    PROVE  HeldInv'
<1>1. HeldMove(t)
  BY TasksDiffer DEF HeldMove, StartLabel, At, Goto, TypeOK, Active,
     StopWorker, Signal, Wait, output, service
<1> QED
  BY <1>1, HeldMoveKeeps, TasksDiffer, LateAreTasks

\* An overtaken start ends with a worker, any other has no owner beside it.
LEMMA StartWorkerHeld ==
    ASSUME TypeOK, HeldInv, NEW t \in Tasks, StartWorker(t), UNCHANGED late
    PROVE  HeldInv'
<1>1. HeldMove(t)
  BY TasksDiffer DEF HeldMove, StartLabel, At, Goto, TypeOK, Active,
     HeldInv, LateStarts, StartWorker, OpenForWorker, OpenCodec,
     CommonStart, SpawnWorker, output, service
<1> QED
  BY <1>1, HeldMoveKeeps, TasksDiffer, LateAreTasks

\* A resume follows the release: it has no owner beside it.
LEMMA ResumeWorkerHeld ==
    ASSUME TypeOK, HeldInv, NEW t \in Tasks, ResumeWorker(t), UNCHANGED late
    PROVE  HeldInv'
<1>1. HeldMove(t)
  BY TasksDiffer DEF HeldMove, StartLabel, At, Goto, TypeOK, Active,
     HeldInv, LateStarts, ResumeWorker, OpenForWorker, OpenCodec,
     CommonStart, SpawnWorker, output, service
<1> QED
  BY <1>1, HeldMoveKeeps, TasksDiffer, LateAreTasks

\* NetMonitor starts no worker.
LEMMA NetMonitorHeld ==
    ASSUME TypeOK, HeldInv, NEW t \in AirTasks, NetMonitor(t), UNCHANGED late
    PROVE  HeldInv'
<1>1. HeldMove(t)
  BY TasksDiffer DEF HeldMove, StartLabel, At, Goto, TypeOK, Active,
     NetMonitor, Refresh, output, service
<1> QED
  BY <1>1, HeldMoveKeeps, TasksDiffer, LateAreTasks

\* Event starts no worker.
LEMMA EventHeld ==
    ASSUME TypeOK, HeldInv, NEW s \in {"none", "establishing", "streaming"}, Event(s), UNCHANGED late
    PROVE  HeldInv'
<1>1. HeldMove(Rtsp)
  BY TasksDiffer DEF HeldMove, StartLabel, At, Goto, TypeOK, Active,
     Event, output, service
<1> QED
  BY <1>1, HeldMoveKeeps, TasksDiffer, LateAreTasks

\* The acquisition's stop.
LEMMA AcquireStopHeld ==
    ASSUME TypeOK, HeldInv, AcquireStop, UNCHANGED late
    PROVE  HeldInv'
<1>1. CASE Signal(Ctrl, "acquire.signal", "acquire.wait", "ext.open")
  <2>1. ~Active' /\ external_owner' = external_owner
    BY <1>1 DEF Signal, Active, TypeOK
  <2>2. /\ \A u \in Tasks \ {Ctrl} : pc'[u] = pc[u]
        /\ pc'[Ctrl] \in {"acquire.wait", "ext.open"}
    BY <1>1, TasksDiffer DEF Signal, Goto, TypeOK
  <2>3. HeldMove(Ctrl)
    BY <2>1, <2>2 DEF HeldMove, StartLabel
  <2> QED
    BY <2>3, HeldMoveKeeps, TasksDiffer, LateAreTasks
<1>2. CASE Wait(Ctrl, "acquire.wait", "ext.open")
  <2>1. HeldMove(Ctrl)
    BY <1>2, TasksDiffer
    DEF HeldMove, StartLabel, At, Goto, TypeOK, Active, Wait, output, service
  <2> QED
    BY <2>1, HeldMoveKeeps, TasksDiffer, LateAreTasks
<1> QED
  BY <1>1, <1>2 DEF AcquireStop

\* ExternalOpen starts no worker.
LEMMA ExternalOpenHeld ==
    ASSUME TypeOK, HeldInv, ExternalOpen, UNCHANGED late
    PROVE  HeldInv'
<1>1. HeldMove(Ctrl)
  BY TasksDiffer DEF HeldMove, StartLabel, At, Goto, TypeOK, Active,
     ExternalOpen, OpenCodec, output, service
<1> QED
  BY <1>1, HeldMoveKeeps, TasksDiffer, LateAreTasks

\* VoiceStop starts no worker.
LEMMA VoiceStopHeld ==
    ASSUME TypeOK, HeldInv, VoiceStop, UNCHANGED late
    PROVE  HeldInv'
<1>1. HeldMove(Ctrl)
  BY TasksDiffer DEF HeldMove, StartLabel, At, Goto, TypeOK, Active,
     VoiceStop, output, service
<1> QED
  BY <1>1, HeldMoveKeeps, TasksDiffer, LateAreTasks

\* VoiceStopped starts no worker.
LEMMA VoiceStoppedHeld ==
    ASSUME TypeOK, HeldInv, VoiceStopped, UNCHANGED late
    PROVE  HeldInv'
<1>1. HeldMove(Ctrl)
  BY TasksDiffer DEF HeldMove, StartLabel, At, Goto, TypeOK, Active,
     VoiceStopped, Refresh, output, service
<1> QED
  BY <1>1, HeldMoveKeeps, TasksDiffer, LateAreTasks

\* PrefillExit starts no worker.
LEMMA PrefillExitHeld ==
    ASSUME TypeOK, HeldInv, PrefillExit, UNCHANGED late
    PROVE  HeldInv'
<1>1. HeldMove(Play)
  BY TasksDiffer DEF HeldMove, StartLabel, At, Goto, TypeOK, Active,
     PrefillExit, output, service
<1> QED
  BY <1>1, HeldMoveKeeps, TasksDiffer, LateAreTasks

\* Prefilled starts no worker.
LEMMA PrefilledHeld ==
    ASSUME TypeOK, HeldInv, Prefilled, UNCHANGED late
    PROVE  HeldInv'
<1>1. HeldMove(Play)
  BY TasksDiffer DEF HeldMove, StartLabel, At, Goto, TypeOK, Active,
     Prefilled, output, service
<1> QED
  BY <1>1, HeldMoveKeeps, TasksDiffer, LateAreTasks

\* NoMemory starts no worker.
LEMMA NoMemoryHeld ==
    ASSUME TypeOK, HeldInv, NoMemory, UNCHANGED late
    PROVE  HeldInv'
<1>1. HeldMove(Play)
  BY TasksDiffer DEF HeldMove, StartLabel, At, Goto, TypeOK, Active,
     NoMemory, output, service
<1> QED
  BY <1>1, HeldMoveKeeps, TasksDiffer, LateAreTasks

\* EndOfReply starts no worker.
LEMMA EndOfReplyHeld ==
    ASSUME TypeOK, HeldInv, EndOfReply, UNCHANGED late
    PROVE  HeldInv'
<1>1. HeldMove(Play)
  BY TasksDiffer DEF HeldMove, StartLabel, At, Goto, TypeOK, Active,
     EndOfReply, output, service
<1> QED
  BY <1>1, HeldMoveKeeps, TasksDiffer, LateAreTasks

\* The hand-over to the play task moves both.
LEMMA CreatePlayerHeld ==
    ASSUME TypeOK, HeldInv, CreatePlayer, UNCHANGED late
    PROVE  HeldInv'
<1>1. UNCHANGED <<external_owner, handle, playback_running>> /\ pc[Ctrl] = "ext.create"
  BY DEF CreatePlayer, At, output
<1>2. CASE pc' = [pc EXCEPT ![Ctrl] = "idle", ![Play] = "prefill"]
  <2>1. /\ \A u \in Tasks \ {Ctrl, Play} : pc'[u] = pc[u]
        /\ pc'[Ctrl] \notin StartLabel /\ pc'[Play] \notin StartLabel
    BY <1>2, TasksDiffer DEF TypeOK, StartLabel
  <2>2. LateStarts'
    BY <1>1, <2>1 DEF HeldInv, LateStarts
  <2>3. WorkerStoppedWhileHeld'
    BY <1>1, <2>1, LateAreTasks DEF HeldInv, WorkerStoppedWhileHeld, Active
  <2> QED
    BY <2>2, <2>3 DEF HeldInv
<1>3. CASE Goto(Ctrl, IF output_open THEN "ext.close" ELSE "release")
  <2>1. HeldMove(Ctrl)
    BY <1>1, <1>3, TasksDiffer DEF HeldMove, StartLabel, Goto, TypeOK, Active
  <2> QED
    BY <2>1, HeldMoveKeeps, TasksDiffer, LateAreTasks
<1> QED
  BY <1>2, <1>3 DEF CreatePlayer

\* The acquisition takes note of the starts it overtakes, and goes to the
\* signal if the worker runs.
LEMMA AcquireHeld ==
    ASSUME TypeOK, HeldInv, Acquire
    PROVE  HeldInv'
<1>1. /\ \A u \in Tasks \ {Ctrl} : pc'[u] = pc[u]
      /\ pc[Play] = "idle"
      /\ late' = {u \in AirTasks : pc[u] \in StartLabel}
      /\ pc'[Ctrl] \in {"acquire.signal", "ext.open"}
      /\ pc'[Ctrl] = "ext.open" => ~Active
      /\ UNCHANGED <<handle, playback_running>>
  BY TasksDiffer DEF Acquire, At, Goto, TypeOK
<1>2. LateStarts'
  BY <1>1 DEF LateStarts, StartLabel, Tasks
<1>3. WorkerStoppedWhileHeld'
  BY <1>1 DEF WorkerStoppedWhileHeld, Active
<1> QED
  BY <1>2, <1>3 DEF HeldInv

\* Every step keeps the invariant.
LEMMA HeldNext == TypeOK /\ HeldInv /\ [Next]_vars => HeldInv'
<1> SUFFICES ASSUME TypeOK, HeldInv, [Next]_vars
             PROVE  HeldInv'
  OBVIOUS
<1>1. ASSUME Moves, UNCHANGED late PROVE HeldInv'
  <2>1. ASSUME NEW s \in {"none", "establishing", "streaming"}, Event(s) PROVE HeldInv'
    BY <1>1, <2>1, EventHeld
  <2>2. ASSUME NEW t \in AirTasks, NetMonitor(t) PROVE HeldInv'
    BY <1>1, <2>2, NetMonitorHeld
  <2>3. ASSUME NEW t \in Tasks, Step(t) PROVE HeldInv'
    BY <1>1, <2>3, SyncHeld, SyncDesiredHeld, StartedHeld, RmAcquireHeld,
       StoppedHeld, RmReleaseHeld, StartCheckHeld, StartWorkerHeld,
       ResumeWorkerHeld, StopCheckHeld, StopWorkerHeld, CloseOutputHeld,
       ExternalCloseHeld, ReleaseHeld, ReleasedHeld
    DEF Step
  <2>4. CASE Voice
    BY <1>1, <2>4, AcquireStopHeld, ExternalOpenHeld, CreatePlayerHeld,
       VoiceStoppedHeld, PrefillExitHeld
    DEF Voice
  <2> QED
    BY <1>1, <2>1, <2>2, <2>3, <2>4, VoiceStopHeld, PrefilledHeld, NoMemoryHeld,
       EndOfReplyHeld
    DEF Moves
<1>2. CASE WorkerExit \/ WorkerFlush \/ UNCHANGED vars
  BY <1>2 DEF HeldInv, LateStarts, WorkerStoppedWhileHeld, Active,
              WorkerExit, WorkerFlush, vars, output, service
<1> QED
  BY <1>1, <1>2, AcquireHeld DEF Next

\* The contract of audio_output.h:159 is broken in one way only, wherever tasks
\* are preempted or block: by a start of the worker that had passed its test of
\* the owner when the speaker was acquired and has run to its end since.  No
\* start that begins under the owner, no resume and no worker that ran before
\* the acquisition breaks it.
THEOREM WorkerStaysDown == Spec => []WorkerStoppedWhileHeld
<1>1. Init => HeldInv
  BY DEF Init, HeldInv, LateStarts, StartLabel, WorkerStoppedWhileHeld
<1>2. TypeOK /\ HeldInv /\ [Next]_vars => HeldInv'
  BY HeldNext
<1>3. HeldInv => WorkerStoppedWhileHeld
  BY DEF HeldInv
<1> QED
  BY <1>1, <1>2, <1>3, TypeCorrect, PTL DEF Spec
=============================================================================
