------------------------ MODULE AirplaySessionProofs ------------------------
(* Proofs about AirplaySession, for any number of connections, drops of the    *)
(* Wi-Fi and failures, with clients that overlap and outlive a restart.        *)
EXTENDS AirplaySession, TLAPS

Waits == {"rx_end", "out_wait", "pl_end"}    \* where a task is inside a stop

CtlRec == [at : Labels, ret : Labels]
SlotRec == [task : BOOLEAN, sock : {"none", "open", "eof"}, stop : BOOLEAN, old : BOOLEAN]
ConnRec == [ann : BOOLEAN, paused : BOOLEAN]
RxRec == [run : BOOLEAN, by : Slots \cup {None}, dec : BOOLEAN, ntp : BOOLEAN]
SvcRec == [started : BOOLEAN, desired : BOOLEAN, running : BOOLEAN]
StRec == [net : BOOLEAN, disc : BOOLEAN, est : BOOLEAN, str : BOOLEAN, rec : BOOLEAN]
NetRec == [wifi : BOOLEAN, has : BOOLEAN, had : BOOLEAN]

\* A stop has a label to return to, which is no stop itself and not the end of the task.
Shaped(c) == IF c.at \in Waits THEN c.ret \notin Waits \cup {"none", "exiting"} ELSE c.ret = "none"

\* The label a task is at, or comes back to when its stop ends.
Base(c) == IF c.at \in Waits THEN c.ret ELSE c.at

\* Only a moves, and it gets to l, perhaps after a stop.
Moves(a, l) ==
  /\ ctl' = [ctl EXCEPT ![a] = ctl'[a]]
  /\ ctl'[a] \in CtlRec /\ Shaped(ctl'[a]) /\ Base(ctl'[a]) = l

-----------------------------------------------------------------------------
(* The ways a task moves *)

LEMMA GotoMoves ==
  ASSUME NEW a \in Tasks, ctl \in [Tasks -> CtlRec], Shaped(ctl[a]), ctl[a].at \notin Waits,
         NEW l \in Labels \ Waits, ctl' = Goto(a, l)
  PROVE  Moves(a, l)
BY DEF Goto, Moves, Shaped, Base, CtlRec

LEMMA CallMoves ==
  ASSUME NEW a \in Tasks, ctl \in [Tasks -> CtlRec],
         NEW w \in Waits, NEW l \in Labels \ (Waits \cup {"none", "exiting"}), ctl' = Call(a, w, l)
  PROVE  Moves(a, l)
BY DEF Call, Moves, Shaped, Base, CtlRec, Waits, Labels

LEMMA ReturnMoves ==
  ASSUME NEW a \in Tasks, ctl \in [Tasks -> CtlRec], Shaped(ctl[a]), ctl[a].at \in Waits,
         ctl' = Return(a)
  PROVE  Moves(a, Base(ctl[a]))
BY DEF Return, Moves, Shaped, Base, CtlRec, Waits, Labels

\* From the wait for the output a stop goes on to the wait for the receiver.
LEMMA GoOnMoves ==
  ASSUME NEW a \in Tasks, ctl \in [Tasks -> CtlRec], Shaped(ctl[a]), ctl[a].at \in Waits,
         NEW w \in Waits, ctl' = Goto(a, w)
  PROVE  Moves(a, Base(ctl[a]))
BY DEF Goto, Moves, Shaped, Base, CtlRec, Waits, Labels

LEMMA SyncMoves ==
  ASSUME NEW a \in Tasks, ctl \in [Tasks -> CtlRec], Shaped(ctl[a]), ctl[a].at \notin Waits,
         NEW l \in Labels \ (Waits \cup {"none", "exiting"}),
         NEW sv \in SvcRec, out \in BOOLEAN, Sync(a, sv, l)
  PROVE  /\ Moves(a, l)
         /\ svc' \in SvcRec /\ svc'.started = sv.started /\ out' \in BOOLEAN
<1>1. /\ svc' \in SvcRec /\ svc'.started = sv.started /\ out' \in BOOLEAN
      /\ ctl' = Goto(a, l) \/ ctl' = Call(a, "out_wait", l)
  BY DEF Sync, SvcRec
<1>2. "out_wait" \in Waits
  BY DEF Waits
<1>3. QED
  BY <1>1, <1>2, GotoMoves, CallMoves

LEMMA SetterTypes ==
  ASSUME NEW s \in StRec, NEW on \in BOOLEAN
  PROVE  /\ SetNetworkReady(s, on) \in StRec /\ SetDiscoverable(s, on) \in StRec
         /\ SetEstablishing(s, on) \in StRec /\ SetStreaming(s, on) \in StRec
         /\ SetRecovering(s, on) \in StRec
BY DEF StRec, SetNetworkReady, SetDiscoverable, SetEstablishing, SetStreaming, SetRecovering

LEMMA EventMoves ==
  ASSUME NEW a \in Tasks, ctl \in [Tasks -> CtlRec], Shaped(ctl[a]), ctl[a].at \notin Waits,
         NEW l \in Labels \ (Waits \cup {"none", "exiting"}),
         svc \in SvcRec, st \in StRec, out \in BOOLEAN,
         Connected(a, l) \/ Playing(a, l) \/ Paused(a, l) \/ Disconnected(a, l)
  PROVE  /\ Moves(a, l)
         /\ svc' \in SvcRec /\ svc'.started = svc.started /\ out' \in BOOLEAN /\ st' \in StRec
<1>1. st' \in StRec
  BY SetterTypes DEF Connected, Playing, Paused, Disconnected
<1>2. PICK d \in BOOLEAN : Sync(a, [svc EXCEPT !.desired = d], l)
  BY DEF Connected, Playing, Paused, Disconnected
<1>3. [svc EXCEPT !.desired = d] \in SvcRec /\ [svc EXCEPT !.desired = d].started = svc.started
  BY DEF SvcRec
<1>4. QED
  BY <1>1, <1>2, <1>3, SyncMoves

LEMMA StopReceiverMoves ==
  ASSUME NEW a \in Tasks, ctl \in [Tasks -> CtlRec], Shaped(ctl[a]), ctl[a].at \notin Waits,
         NEW l \in Labels \ (Waits \cup {"none", "exiting"}), rx \in RxRec, StopReceiver(a, l)
  PROVE  Moves(a, l) /\ rx' \in RxRec /\ ~rx'.run
<1>1. rx' \in RxRec /\ ~rx'.run
  BY DEF StopReceiver, RxRec
<1>2. ctl' = Goto(a, l) \/ ctl' = Call(a, "rx_end", l)
  BY DEF StopReceiver
<1>3. "rx_end" \in Waits
  BY DEF Waits
<1>4. QED
  BY <1>1, <1>2, <1>3, GotoMoves, CallMoves

-----------------------------------------------------------------------------
(* The invariant.  A client that is not on its way out is engaged.             *)

Engaged == {"start", "alloc", "loop", "rec_start", "td_end"}

\* The client that started the stream has not left its request loop since.
StreamHeld == rx.run => rx.by \in Slots /\ Base(ctl[rx.by]) = "loop"

\* Of the engaged clients that no restart has forgotten only the current one has not been
\* told to stop.
CurrentServes ==
  \A i \in Slots : Base(ctl[i]) \in Engaged /\ ~slot[i].stop /\ i \notin forgotten => i = cur /\ slot[i].task

\* A forgotten client has lost its socket.
ForgottenLost == \A i \in forgotten : slot[i].sock = "none"

\* A slot without a handle has no task, but for one at its deletion or a forgotten one.
HandleKept == \A i \in Slots : slot[i].task \/ ctl[i].at \in {"none", "exiting"} \/ i \in forgotten

SlotReady == srv = "spawn" => ctl[1 - cur].at \in {"none", "exiting"} \/ 1 - cur \in forgotten

\* What a step of a client or of the monitor has to preserve besides the types.
Control ==
  /\ \A a \in Tasks : Shaped(ctl[a])
  /\ StreamHeld /\ CurrentServes /\ ForgottenLost /\ HandleKept /\ SlotReady

Inv == TypeOK /\ Control

\* TypeOK with a name for each kind of record.
Types ==
  /\ ctl \in [Tasks -> CtlRec]
  /\ slot \in [Slots -> SlotRec] /\ \A i \in Slots : slot[i].old => slot[i].stop
  /\ cur \in Slots /\ srv \in {"off", "accept", "waitslot", "spawn", "drain"}
  /\ up \in BOOLEAN /\ handle \in BOOLEAN /\ out \in BOOLEAN
  /\ cn \in [Slots -> ConnRec] /\ rx \in RxRec /\ svc \in SvcRec
  /\ st \in StRec /\ net \in NetRec /\ spent \in 0..Budget
  /\ forgotten \subseteq {i \in Slots : ctl[i].at # "none"}

LEMMA Typed == (TypeOK <=> Types) /\ (TypeOK' <=> Types')
BY DEF TypeOK, Types, CtlRec, SlotRec, ConnRec, RxRec, SvcRec, StRec, NetRec

\* The budget is kept.
LEMMA Spending ==
  ASSUME spent \in 0..Budget, UNCHANGED spent \/ Fails \/ Costs(1) \/ Costs(3)
  PROVE  spent' \in 0..Budget
BY SessionAssumption DEF Fails, Costs

\* Without a new server nobody is forgotten, and who is stays so until its task is gone.
LEMMA Remembered ==
  ASSUME Forget, Types, handle' => handle
  PROVE  /\ forgotten' = {i \in forgotten : ctl'[i].at # "none"}
         /\ forgotten' \subseteq {i \in Slots : ctl'[i].at # "none"}
BY DEF Forget, Types

\* What a step of client i leaves alone, and what it may do when it gets to l: it keeps to
\* its own slot, becomes engaged only if it was, gets no socket, gives its handle up at the
\* end only, and holds the stream only inside the request loop.
ClientEffect(i, l) ==
  /\ Moves(i, l) /\ ctl[i].at # "none"
  /\ UNCHANGED <<cur, srv, up, handle, net>> /\ spent' \in 0..Budget
  /\ slot' \in [Slots -> SlotRec] /\ (slot'[i].old => slot'[i].stop)
  /\ \A j \in Slots \ {i} : slot'[j] = slot[j]
  /\ l \in Engaged => /\ Base(ctl[i]) \in Engaged
                      /\ slot'[i].stop = slot[i].stop /\ slot'[i].task = slot[i].task
  /\ slot[i].sock = "none" => slot'[i].sock = "none"
  /\ slot'[i].task \/ ~slot[i].task \/ l \in {"none", "exiting"}
  /\ ctl[i].at = "exiting" => l = "none"
  /\ cn' \in [Slots -> ConnRec] /\ out' \in BOOLEAN /\ st' \in StRec
  /\ svc' \in SvcRec /\ svc'.started = svc.started
  /\ rx' \in RxRec
  /\ rx'.run => \/ rx.run /\ rx'.by = rx.by /\ (l = "loop" \/ Base(ctl[i]) # "loop" \/ rx.by # i)
                \/ rx'.by = i /\ l = "loop"

LEMMA ClientMove ==
  ASSUME Inv, Forget, NEW i \in Slots, NEW l, ClientEffect(i, l)
  PROVE  Inv'
<1> USE Typed DEF Types, Inv, ClientEffect
<1>13. /\ forgotten' = {j \in forgotten : ctl'[j].at # "none"}
       /\ forgotten' \subseteq {j \in Slots : ctl'[j].at # "none"}
       /\ forgotten \subseteq Slots
  BY Remembered
<1>1. ctl \in [Tasks -> CtlRec] /\ i \in Tasks /\ NM \in Tasks /\ i # NM /\ Slots \subseteq Tasks
  BY DEF Tasks, Slots, NM
<1>2. \A b \in Tasks \ {i} : ctl'[b] = ctl[b]
  BY <1>1 DEF Moves
<1>3. \A a \in Tasks : Shaped(ctl[a])'
  BY <1>1, <1>2 DEF Control, Moves, Shaped
<1>4. StreamHeld'
  BY <1>1, <1>2 DEF Control, StreamHeld, Moves, Base
<1>5. CurrentServes'
  <2> SUFFICES ASSUME NEW j \in Slots, Base(ctl'[j]) \in Engaged, ~slot'[j].stop, j \notin forgotten'
               PROVE  j = cur' /\ slot'[j].task
    BY DEF CurrentServes, Base
  <2>1. ctl'[j].at # "none" /\ j \notin forgotten
    BY <1>13 DEF Base, Engaged, Waits
  <2>2. CASE j = i
    BY <2>1, <2>2 DEF Control, CurrentServes, Moves, Base
  <2>3. CASE j # i
    BY <1>1, <1>2, <2>1, <2>3 DEF Control, CurrentServes
  <2>4. QED
    BY <2>2, <2>3
<1>6. ForgottenLost'
  BY <1>13 DEF Control, ForgottenLost
<1>7. l \in {"none", "exiting"} => ctl'[i].at = l
  BY DEF Moves, Shaped, Base, Waits
<1>8. HandleKept'
  <2> SUFFICES ASSUME NEW j \in Slots
               PROVE  slot'[j].task \/ ctl'[j].at \in {"none", "exiting"} \/ j \in forgotten'
    BY DEF HandleKept
  <2>1. CASE j = i
    BY <1>7, <1>13, <2>1 DEF Control, HandleKept
  <2>2. CASE j # i
    BY <1>1, <1>2, <1>13, <2>2 DEF Control, HandleKept
  <2>3. QED
    BY <2>1, <2>2
<1>9. SlotReady'
  <2>1. 1 - cur \in Slots
    BY DEF Slots
  <2>2. CASE 1 - cur = i
    BY <1>7, <1>13, <2>1, <2>2 DEF Control, SlotReady
  <2>3. CASE 1 - cur # i
    BY <1>1, <1>2, <1>13, <2>1, <2>3 DEF Control, SlotReady
  <2>4. QED
    BY <2>2, <2>3
<1>10. TypeOK'
  <2>1. ctl' \in [Tasks -> CtlRec]
    BY <1>1 DEF Moves
  <2>2. \A j \in Slots : slot'[j].old => slot'[j].stop
    OBVIOUS
  <2>3. QED
    BY <1>13, <2>1, <2>2
<1>11. QED
  BY <1>3, <1>4, <1>5, <1>6, <1>8, <1>9, <1>10 DEF Control

\* What a step of the monitor, or of a stop it is inside, may do when it gets to l.
MonitorEffect(l) ==
  /\ Moves(NM, l)
  /\ UNCHANGED <<slot, cur, srv, cn>> /\ spent' \in 0..Budget
  /\ up' \in BOOLEAN /\ handle' \in BOOLEAN /\ (handle' => handle) /\ out' \in BOOLEAN
  /\ svc' \in SvcRec /\ st' \in StRec /\ net' \in NetRec
  /\ rx' \in RxRec /\ (rx'.run => rx.run /\ rx'.by = rx.by)

LEMMA MonitorMove ==
  ASSUME Inv, Forget, NEW l, MonitorEffect(l)
  PROVE  Inv'
<1> USE Typed DEF Types, Inv, MonitorEffect
<1>1. ctl \in [Tasks -> CtlRec] /\ NM \in Tasks /\ NM \notin Slots /\ Slots \subseteq Tasks
  BY DEF Tasks, Slots, NM
<1>2. \A b \in Tasks \ {NM} : ctl'[b] = ctl[b]
  BY <1>1 DEF Moves
<1>3. \A a \in Tasks : Shaped(ctl[a])'
  BY <1>1, <1>2 DEF Control, Moves, Shaped
<1>4. StreamHeld'
  BY <1>1, <1>2 DEF Control, StreamHeld, Base
<1>5. forgotten' = forgotten
  BY <1>1, <1>2, Remembered
<1>6. CurrentServes'
  BY <1>1, <1>2, <1>5 DEF Control, CurrentServes, Base
<1>7. HandleKept' /\ ForgottenLost'
  BY <1>1, <1>2, <1>5 DEF Control, HandleKept, ForgottenLost
<1>8. SlotReady'
  BY <1>1, <1>2, <1>5 DEF Control, SlotReady, Slots
<1>9. TypeOK'
  <2>1. ctl' \in [Tasks -> CtlRec]
    BY <1>1 DEF Moves
  <2>2. forgotten' \subseteq {i \in Slots : ctl'[i].at # "none"}
    BY Remembered
  <2>3. QED
    BY <2>1, <2>2
<1>10. QED
  BY <1>3, <1>4, <1>5, <1>6, <1>7, <1>8, <1>9 DEF Control

\* What a step that moves neither a client nor the monitor may do: clients are told to stop,
\* and the server goes on to spawn only when the other slot has no handle.
QuietEffect ==
  /\ UNCHANGED <<ctl, cur, up, cn, rx, svc, out, st>>
  /\ slot' \in [Slots -> SlotRec] /\ \A i \in Slots : slot'[i].old => slot'[i].stop
  /\ \A i \in Slots : slot'[i].task = slot[i].task
  /\ \A i \in Slots : slot[i].sock = "none" => slot'[i].sock = "none"
  /\ \A i \in Slots : slot[i].stop => slot'[i].stop
  /\ srv' \in {"off", "accept", "waitslot", "spawn", "drain"}
  /\ handle' \in BOOLEAN /\ (handle' => handle)
  /\ srv' = "spawn" => srv = "spawn" \/ ~slot[1 - cur].task
  /\ net' \in NetRec /\ spent' \in 0..Budget

LEMMA QuietMove ==
  ASSUME Inv, Forget, QuietEffect
  PROVE  Inv'
<1> USE Typed DEF Types, Inv, QuietEffect
<1>1. forgotten' = forgotten
  BY Remembered
<1>2. 1 - cur \in Slots
  BY DEF Slots
<1>3. SlotReady'
  BY <1>1, <1>2 DEF Control, SlotReady, HandleKept
<1>4. CurrentServes'
  BY <1>1 DEF Control, CurrentServes, Base
<1>5. HandleKept' /\ ForgottenLost'
  BY <1>1 DEF Control, HandleKept, ForgottenLost
<1>6. StreamHeld' /\ \A a \in Tasks : Shaped(ctl[a])'
  BY DEF Control, StreamHeld, Shaped, Base
<1>7. TypeOK'
  BY <1>1
<1>8. QED
  BY <1>3, <1>4, <1>5, <1>6, <1>7 DEF Control

-----------------------------------------------------------------------------
(* The client tasks *)

LEMMA StopStep ==
  ASSUME Inv, Forget, NEW a \in Tasks, PipelineStep(a)
  PROVE  Inv'
<1> USE Typed DEF Inv, Types
<1>1. ctl \in [Tasks -> CtlRec] /\ Shaped(ctl[a]) /\ rx \in RxRec /\ svc \in SvcRec
  BY DEF Control
<1>2. ctl[a].at \in Waits
  BY DEF PipelineStep, ReceiverStopped, OutputStopped, PipelineStopped, At, Waits
<1>3. Moves(a, Base(ctl[a]))
  <2>1. ctl' = Return(a) \/ ctl' = Goto(a, "pl_end")
    BY DEF PipelineStep, ReceiverStopped, OutputStopped, PipelineStopped, EndPipelineStop
  <2>2. QED
    BY <1>1, <1>2, <2>1, ReturnMoves, GoOnMoves DEF Waits
<1>4. /\ rx' \in RxRec /\ (rx'.run => rx.run /\ rx'.by = rx.by)
      /\ svc' \in SvcRec /\ svc'.started = svc.started
      /\ out' \in BOOLEAN
  BY <1>1 DEF PipelineStep, ReceiverStopped, OutputStopped, PipelineStopped, EndPipelineStop,
              RxRec, SvcRec
<1>5. UNCHANGED <<slot, cur, srv, up, handle, cn, st, net, spent>>
  BY DEF PipelineStep, ReceiverStopped, OutputStopped, PipelineStopped
<1>8. CASE a \in Slots
  <2>1. ctl[a].at # "none"
    BY <1>2 DEF Waits
  <2>2. ClientEffect(a, Base(ctl[a]))
    BY <1>1, <1>2, <1>3, <1>4, <1>5, <1>8, <2>1 DEF ClientEffect, Waits
  <2>3. QED
    BY <1>8, <2>2, ClientMove
<1>9. CASE a = NM
  <2>1. MonitorEffect(Base(ctl[a]))
    BY <1>1, <1>3, <1>4, <1>5, <1>9 DEF MonitorEffect
  <2>2. QED
    BY <2>1, MonitorMove
<1>10. QED
  BY <1>8, <1>9 DEF Tasks

\* A task that stays in its request loop.
LEMMA StayMoves ==
  ASSUME NEW a \in Tasks, ctl \in [Tasks -> CtlRec], Shaped(ctl[a]), ctl[a].at \notin Waits,
         ctl' = ctl
  PROVE  Moves(a, ctl[a].at)
BY DEF Moves, Base

LEMMA ClientStepInv ==
  ASSUME Inv, Forget, NEW i \in Slots, ClientStep(i)
  PROVE  Inv'
<1> USE Typed DEF Inv, Types
<1> DEFINE Here(l) == ctl[i].at = l /\ l \notin Waits
<1>1. /\ ctl \in [Tasks -> CtlRec] /\ i \in Tasks /\ Shaped(ctl[i])
      /\ slot \in [Slots -> SlotRec] /\ (slot[i].old => slot[i].stop)
      /\ cn \in [Slots -> ConnRec] /\ rx \in RxRec /\ svc \in SvcRec /\ st \in StRec
      /\ out \in BOOLEAN
  BY DEF Control, Tasks
<1>2. \A l \in Labels \ Waits : l = ctl[i].at => Base(ctl[i]) = l
  BY DEF Base
<1>3. \A l \in {"none", "start", "alloc", "loop", "rec_start", "td_end", "clean_evt", "clean_conn",
                "exiting"} : l \in Labels \ Waits
  BY DEF Labels, Waits
<1>4. CASE ClientStart(i)
  <2>1. Here("start")
    BY <1>3, <1>4 DEF ClientStart, At
  <2>2. CASE Connected(i, "alloc") /\ UNCHANGED <<slot, spent>>
    <3>1. /\ Moves(i, "alloc")
          /\ svc' \in SvcRec /\ svc'.started = svc.started /\ out' \in BOOLEAN /\ st' \in StRec
      BY <1>1, <1>3, <2>1, <2>2, EventMoves
    <3>2. ClientEffect(i, "alloc")
      BY <1>1, <1>2, <1>3, <1>4, <2>1, <2>2, <3>1 DEF ClientStart, ClientEffect, Engaged, ConnRec, NewConn
    <3>3. QED
      BY <3>2, ClientMove
  <2>3. CASE /\ Fails /\ slot' = [slot EXCEPT ![i].sock = "none"]
             /\ ctl' = Goto(i, "none")
             /\ UNCHANGED <<svc, out, st>>
    <3>1. Moves(i, "none")
      BY <1>1, <1>3, <2>1, <2>3, GotoMoves
    <3>2. ClientEffect(i, "none")
      BY <1>1, <1>2, <1>3, <1>4, <2>1, <2>3, <3>1, Spending
         DEF ClientStart, ClientEffect, Engaged, ConnRec, NewConn, SlotRec
    <3>3. QED
      BY <3>2, ClientMove
  <2>4. QED
    BY <1>4, <2>2, <2>3 DEF ClientStart
<1>5. CASE ClientAlloc(i)
  <2>1. Here("alloc")
    BY <1>3, <1>5 DEF ClientAlloc, At
  <2>2. \E l \in {"loop", "exiting"} : ClientEffect(i, l)
    <3>1. \A l \in {"loop", "exiting"} : ctl' = Goto(i, l) => Moves(i, l)
      BY <1>1, <1>3, <2>1, GotoMoves
    <3>2. spent' \in 0..Budget
      BY <1>5, Spending DEF ClientAlloc
    <3>3. QED
      BY <1>1, <1>2, <1>3, <1>5, <2>1, <3>1, <3>2 DEF ClientAlloc, ClientEffect, Engaged, SlotRec
  <2>3. QED
    BY <2>2, ClientMove
<1>6. CASE ClientExit(i)
  <2>1. Here("loop")
    BY <1>3, <1>6 DEF ClientExit, At
  <2>2. Moves(i, "clean_evt") /\ rx' \in RxRec /\ ~rx'.run
    BY <1>1, <1>3, <1>6, <2>1, StopReceiverMoves DEF ClientExit
  <2>3. ClientEffect(i, "clean_evt")
    BY <1>1, <1>6, <2>1, <2>2 DEF ClientExit, ClientEffect, Engaged, SlotRec
  <2>4. QED
    BY <2>3, ClientMove
<1>7. CASE CleanEvent(i)
  <2>1. Here("clean_evt")
    BY <1>3, <1>7 DEF CleanEvent, At
  <2>2. /\ Moves(i, "clean_conn")
        /\ svc' \in SvcRec /\ svc'.started = svc.started /\ out' \in BOOLEAN /\ st' \in StRec
    BY <1>1, <1>3, <1>7, <2>1, EventMoves DEF CleanEvent
  <2>3. ClientEffect(i, "clean_conn")
    BY <1>1, <1>2, <1>3, <1>7, <2>1, <2>2 DEF CleanEvent, ClientEffect, Engaged, RxRec
  <2>4. QED
    BY <2>3, ClientMove
<1>8. CASE Release(i)
  <2>1. Here("clean_conn")
    BY <1>3, <1>8 DEF Release, At
  <2>2. Moves(i, "exiting")
    BY <1>1, <1>3, <1>8, <2>1, GotoMoves DEF Release
  <2>3. ClientEffect(i, "exiting")
    BY <1>1, <1>2, <1>3, <1>8, <2>1, <2>2
       DEF Release, ClientEffect, Engaged, ConnRec, NewConn, FreeSlot, SlotRec
  <2>4. QED
    BY <2>3, ClientMove
<1>9. CASE Delete(i)
  <2>1. Here("exiting")
    BY <1>3, <1>9 DEF Delete, At
  <2>2. Moves(i, "none")
    BY <1>1, <1>3, <1>9, <2>1, GotoMoves DEF Delete
  <2>3. ClientEffect(i, "none")
    BY <1>1, <1>2, <1>3, <1>9, <2>1, <2>2 DEF Delete, ClientEffect, Engaged
  <2>4. QED
    BY <2>3, ClientMove
<1>10. CASE RecordRestarted(i)
  <2>1. Here("rec_start")
    BY <1>3, <1>10 DEF RecordRestarted, At
  <2>2. /\ Moves(i, "loop")
        /\ svc' \in SvcRec /\ svc'.started = svc.started /\ out' \in BOOLEAN /\ st' \in StRec
    BY <1>1, <1>3, <1>10, <2>1, EventMoves DEF RecordRestarted, StartStream
  <2>3. ClientEffect(i, "loop")
    BY <1>1, <1>2, <1>3, <1>10, <2>1, <2>2, Spending
       DEF RecordRestarted, StartStream, ClientEffect, Engaged, ConnRec, RxRec
  <2>4. QED
    BY <2>3, ClientMove
<1>11. CASE TeardownEnd(i)
  <2>1. Here("td_end")
    BY <1>3, <1>11 DEF TeardownEnd, At
  <2>2. Moves(i, "loop")
    BY <1>1, <1>3, <1>11, <2>1, GotoMoves DEF TeardownEnd
  <2>3. ClientEffect(i, "loop")
    BY <1>1, <1>2, <1>3, <1>11, <2>1, <2>2
       DEF TeardownEnd, ClientEffect, Engaged, ConnRec, RxRec
  <2>4. QED
    BY <2>3, ClientMove
<1>12. QED
  BY <1>4, <1>5, <1>6, <1>7, <1>8, <1>9, <1>10, <1>11 DEF ClientStep

LEMMA RequestInv ==
  ASSUME Inv, Forget, NEW i \in Slots, Request(i)
  PROVE  Inv'
<1> USE Typed DEF Inv, Types
<1>1. /\ ctl \in [Tasks -> CtlRec] /\ i \in Tasks /\ Shaped(ctl[i])
      /\ slot \in [Slots -> SlotRec] /\ (slot[i].old => slot[i].stop)
      /\ cn \in [Slots -> ConnRec] /\ rx \in RxRec /\ svc \in SvcRec /\ st \in StRec
      /\ out \in BOOLEAN
  BY DEF Control, Tasks
<1>2. ctl[i].at = "loop" /\ Base(ctl[i]) = "loop"
  BY DEF Request, Announce, Setup, RecordResume, RecordRestart, RecordStart, Pause, Teardown,
         Dispatches, At, Base, Waits
<1>3. \A l \in {"loop", "rec_start", "td_end"} : l \in Labels \ Waits
  BY DEF Labels, Waits
<1>4. CASE Announce(i) \/ Setup(i)
  <2>1. Moves(i, "loop")
    BY <1>1, <1>2, <1>3, <1>4, StayMoves DEF Announce, Setup
  <2>2. /\ UNCHANGED <<slot, cur, srv, up, handle, svc, out, st, net>> /\ spent' \in 0..Budget
        /\ cn' \in [Slots -> ConnRec]
        /\ rx' \in RxRec /\ rx'.run = rx.run /\ rx'.by = rx.by
    <3>1. CASE Announce(i)
      <4>1. PICK result \in {"ok", "invalid_body", "invalid_encryption"}, made \in BOOLEAN :
              /\ IF made THEN UNCHANGED spent ELSE Fails
              /\ cn' = [cn EXCEPT ![i].ann = result = "ok"]
              /\ rx' = [rx EXCEPT !.dec = IF result = "invalid_body" THEN @ ELSE made]
        BY <3>1 DEF Announce
      <4>2. cn' \in [Slots -> ConnRec]
        BY <1>1, <4>1 DEF ConnRec
      <4>3. rx' \in RxRec /\ rx'.run = rx.run /\ rx'.by = rx.by
        BY <1>1, <4>1 DEF RxRec
      <4>4. spent' \in 0..Budget
        BY <4>1, Spending
      <4>5. QED
        BY <3>1, <4>2, <4>3, <4>4 DEF Announce
    <3>2. CASE Setup(i)
      BY <1>1, <3>2 DEF Setup, RxRec
    <3>3. QED
      BY <1>4, <3>1, <3>2
  <2>3. ClientEffect(i, "loop")
    BY <1>1, <1>2, <2>1, <2>2 DEF ClientEffect, Engaged
  <2>4. QED
    BY <2>3, ClientMove
<1>5. CASE RecordResume(i) \/ RecordStart(i) \/ Pause(i)
  <2>1. /\ Moves(i, "loop")
        /\ svc' \in SvcRec /\ svc'.started = svc.started /\ out' \in BOOLEAN /\ st' \in StRec
    BY <1>1, <1>2, <1>3, <1>5, EventMoves DEF RecordResume, RecordStart, StartStream, Pause
  <2>2. /\ UNCHANGED <<slot, cur, srv, up, handle, net>> /\ spent' \in 0..Budget
        /\ cn' \in [Slots -> ConnRec] /\ rx' \in RxRec
        /\ rx'.run => (rx.run /\ rx'.by = rx.by) \/ rx'.by = i
    <3>1. CASE RecordResume(i)
      BY <1>1, <3>1 DEF RecordResume, ConnRec
    <3>2. CASE RecordStart(i)
      BY <1>1, <3>2, Spending DEF RecordStart, StartStream, ConnRec, RxRec
    <3>3. CASE Pause(i)
      BY <1>1, <3>3 DEF Pause, ConnRec
    <3>4. QED
      BY <1>5, <3>1, <3>2, <3>3
  <2>3. ClientEffect(i, "loop")
    BY <1>1, <1>2, <2>1, <2>2 DEF ClientEffect, Engaged
  <2>4. QED
    BY <2>3, ClientMove
<1>6. CASE RecordRestart(i)
  <2>1. Moves(i, "rec_start")
    BY <1>1, <1>2, <1>3, <1>6, GotoMoves DEF RecordRestart
  <2>2. ClientEffect(i, "rec_start")
    BY <1>1, <1>2, <1>6, <2>1 DEF RecordRestart, ClientEffect, Engaged, RxRec
  <2>3. QED
    BY <2>2, ClientMove
<1>7. CASE Teardown(i)
  <2>1. Moves(i, "td_end") /\ rx' \in RxRec /\ ~rx'.run
    BY <1>1, <1>2, <1>3, <1>7, StopReceiverMoves DEF Teardown
  <2>2. ClientEffect(i, "td_end")
    BY <1>1, <1>2, <1>7, <2>1 DEF Teardown, ClientEffect, Engaged
  <2>3. QED
    BY <2>2, ClientMove
<1>8. QED
  BY <1>4, <1>5, <1>6, <1>7 DEF Request

-----------------------------------------------------------------------------
(* The network monitor *)

LEMMA MonitorStepInv ==
  ASSUME Inv, Forget, MonitorStep
  PROVE  Inv'
<1> USE Typed DEF Inv, Types
<1>1. /\ ctl \in [Tasks -> CtlRec] /\ NM \in Tasks /\ NM \notin Slots /\ Shaped(ctl[NM])
      /\ rx \in RxRec /\ svc \in SvcRec /\ st \in StRec /\ net \in NetRec
      /\ out \in BOOLEAN /\ handle \in BOOLEAN /\ up \in BOOLEAN
  BY DEF Control, Tasks, Slots, NM
<1>2. \A l \in Labels \ Waits : l = ctl[NM].at => Base(ctl[NM]) = l
  BY DEF Base
<1>3. \A l \in {"idle", "edge", "boot", "stop2", "stop3"} : l \in Labels \ (Waits \cup {"none", "exiting"})
  BY DEF Labels, Waits
<1>4. CASE Tick
  <2>1. ctl[NM].at = "idle"
    BY <1>4 DEF Tick, At
  <2>2. PICK sv \in SvcRec : sv.started = svc.started /\ Sync(NM, sv, "edge")
    <3>1. ServiceActive(st') \in BOOLEAN /\ st' \in StRec
      BY <1>1, <1>4, SetterTypes DEF Tick, ServiceActive, StRec, NetRec
    <3>2. [svc EXCEPT !.desired = ServiceActive(st')] \in SvcRec
      BY <1>1, <3>1 DEF SvcRec
    <3>3. [svc EXCEPT !.desired = ServiceActive(st')].started = svc.started
      BY <1>1 DEF SvcRec
    <3>4. QED
      BY <1>1, <1>4, <3>2, <3>3 DEF Tick
  <2>3. /\ Moves(NM, "edge")
        /\ svc' \in SvcRec /\ svc'.started = svc.started /\ out' \in BOOLEAN
    BY <1>1, <1>3, <2>1, <2>2, SyncMoves
  <2>4. st' \in StRec /\ net' \in NetRec
    BY <1>1, <1>4, SetterTypes DEF Tick, NetRec
  <2>5. MonitorEffect("edge")
    BY <1>1, <1>4, <2>1, <2>3, <2>4 DEF Tick, MonitorEffect
  <2>6. QED
    BY <2>5, MonitorMove
<1>5. CASE EdgeStart
  <2>1. PICK l \in {"idle", "boot"} : ctl' = Goto(NM, l)
    BY <1>5 DEF EdgeStart
  <2>2. ctl[NM].at = "edge" /\ Base(ctl[NM]) = "edge"
    BY <1>2, <1>3, <1>5 DEF EdgeStart, At
  <2>3. Moves(NM, l)
    BY <1>1, <1>3, <2>1, <2>2, GotoMoves
  <2>4. st' \in StRec /\ net' \in NetRec
    BY <1>1, <1>5, SetterTypes DEF EdgeStart, NetRec
  <2>5. MonitorEffect(l)
    BY <1>1, <1>5, <2>1, <2>2, <2>3, <2>4 DEF EdgeStart, MonitorEffect
  <2>6. QED
    BY <2>5, MonitorMove
<1>6. CASE EdgeStop
  <2>1. PICK l \in {"idle", "stop2"} : ctl' = Goto(NM, l)
    BY <1>6 DEF EdgeStop
  <2>2. ctl[NM].at = "edge"
    BY <1>6 DEF EdgeStop, At
  <2>3. Moves(NM, l)
    BY <1>1, <1>3, <2>1, <2>2, GotoMoves
  <2>4. st' \in StRec /\ net' \in NetRec /\ up' \in BOOLEAN
    BY <1>1, <1>6, SetterTypes DEF EdgeStop, NetRec
  <2>5. MonitorEffect(l)
    BY <1>1, <1>6, <2>1, <2>3, <2>4 DEF EdgeStop, MonitorEffect
  <2>6. QED
    BY <2>5, MonitorMove
<1>7. CASE EdgeNone
  <2>1. Moves(NM, "idle")
    BY <1>1, <1>3, <1>7, GotoMoves DEF EdgeNone, At
  <2>2. MonitorEffect("idle")
    BY <1>1, <1>7, <2>1 DEF EdgeNone, MonitorEffect
  <2>3. QED
    BY <2>2, MonitorMove
<1>8. CASE ServiceStopPipeline
  <2>1. Moves(NM, "stop3")
    BY <1>1, <1>3, <1>8, CallMoves DEF ServiceStopPipeline, Waits
  <2>2. MonitorEffect("stop3")
    BY <1>1, <1>8, <2>1 DEF ServiceStopPipeline, MonitorEffect
  <2>3. QED
    BY <2>2, MonitorMove
<1>9. CASE ServiceStopped
  <2>1. Moves(NM, "idle")
    BY <1>1, <1>3, <1>9, GotoMoves DEF ServiceStopped, At
  <2>2. svc' \in SvcRec /\ st' \in StRec
    BY <1>1, <1>9, SetterTypes DEF ServiceStopped, SvcRec
  <2>3. MonitorEffect("idle")
    BY <1>1, <1>9, <2>1, <2>2 DEF ServiceStopped, MonitorEffect
  <2>4. QED
    BY <2>3, MonitorMove
<1>10. CASE ServiceStart
  <2>1. ctl[NM].at = "boot" /\ Base(ctl[NM]) = "boot"
    BY <1>2, <1>3, <1>10 DEF ServiceStart, At
  <2>2. /\ UNCHANGED <<cur, cn, rx, net>> /\ ~handle
        /\ st' \in StRec
    BY <1>1, <1>10, SetterTypes DEF ServiceStart
  <2>3. CASE /\ srv' = "accept" /\ up' = TRUE /\ handle' = TRUE
             /\ slot' = [i \in Slots |-> FreeSlot]
             /\ Sync(NM, [started |-> TRUE, desired |-> ServiceActive(st), running |-> FALSE], "idle")
             /\ UNCHANGED spent
    <3>1. [started |-> TRUE, desired |-> ServiceActive(st), running |-> FALSE] \in SvcRec
      BY <1>1 DEF SvcRec, ServiceActive, StRec
    <3>2. Moves(NM, "idle") /\ svc' \in SvcRec /\ out' \in BOOLEAN
      BY <1>1, <1>3, <2>1, <2>3, <3>1, SyncMoves
    <3>3. Slots \subseteq Tasks /\ \A b \in Tasks \ {NM} : ctl'[b] = ctl[b]
      BY <1>1, <3>2 DEF Moves, Tasks
    <3>4. \A i \in Slots : slot'[i] \in SlotRec /\ ~slot'[i].old /\ slot'[i].sock = "none"
      BY <2>3 DEF FreeSlot, SlotRec
    <3>5. forgotten' = {i \in Slots : ctl'[i].at # "none"}
      BY <2>2, <2>3 DEF Forget
    <3>6. TypeOK'
      <4>1. ctl' \in [Tasks -> CtlRec]
        BY <1>1, <3>2 DEF Moves
      <4>2. slot' \in [Slots -> SlotRec] /\ \A i \in Slots : slot'[i].old => slot'[i].stop
        BY <2>3, <3>4
      <4>3. QED
        BY <2>2, <2>3, <3>2, <3>5, <4>1, <4>2
    <3>7. \A a \in Tasks : Shaped(ctl[a])'
      BY <1>1, <3>2, <3>3 DEF Control, Moves, Shaped
    <3>8. StreamHeld'
      BY <1>1, <2>2, <3>3 DEF Control, StreamHeld, Base
    <3>9. CurrentServes' /\ HandleKept'
      BY <3>5 DEF CurrentServes, HandleKept, Base, Engaged, Waits
    <3>10. ForgottenLost' /\ SlotReady'
      BY <2>3, <3>4, <3>5 DEF ForgottenLost, SlotReady
    <3>11. QED
      BY <3>6, <3>7, <3>8, <3>9, <3>10 DEF Control
  <2>4. CASE Fails /\ up' = FALSE /\ ctl' = Goto(NM, "idle") /\ UNCHANGED <<srv, handle, slot, svc, out>>
    <3>1. Moves(NM, "idle")
      BY <1>1, <1>3, <2>1, <2>4, GotoMoves
    <3>2. MonitorEffect("idle")
      BY <1>1, <2>2, <2>4, <3>1, Spending DEF MonitorEffect
    <3>3. QED
      BY <3>2, MonitorMove
  <2>5. QED
    BY <1>10, <2>3, <2>4 DEF ServiceStart
<1>11. QED
  BY <1>4, <1>5, <1>6, <1>7, <1>8, <1>9, <1>10 DEF MonitorStep

-----------------------------------------------------------------------------
(* The server task and what comes from outside *)

LEMMA SpawnInv ==
  ASSUME Inv, Forget, Spawn
  PROVE  Inv'
<1> USE Typed DEF Inv, Types
<1> DEFINE told == IF TaskOf(cur) THEN [Shut(slot[cur]) EXCEPT !.old = TRUE] ELSE slot[cur]
<1>1. /\ ctl \in [Tasks -> CtlRec] /\ slot \in [Slots -> SlotRec] /\ NM \in Tasks /\ NM \notin Slots
      /\ cur \in Slots /\ NewSlot \in Slots /\ NewSlot # cur /\ Slots = {cur, NewSlot}
      /\ Slots \subseteq Tasks
  BY DEF NewSlot, Slots, Tasks, NM
<1>2. /\ srv = "spawn" /\ srv' = "accept" /\ ctl[NewSlot].at = "none"
      /\ UNCHANGED <<up, handle, cn, rx, svc, out, st, net>> /\ spent' \in 0..Budget
      /\ NewSlot \notin forgotten
  BY Spending DEF Spawn, At
<1>3. /\ told \in SlotRec /\ told.task = slot[cur].task /\ (slot[cur].task => told.stop)
      /\ (slot[cur].stop => told.stop) /\ (told.old => told.stop)
      /\ (slot[cur].sock = "none" => told.sock = "none")
  <2>1. slot[cur] \in SlotRec
    BY <1>1
  <2>2. CASE TaskOf(cur)
    <3>1. Shut(slot[cur]) \in SlotRec /\ Shut(slot[cur]).task = slot[cur].task /\ Shut(slot[cur]).stop
          /\ (slot[cur].sock = "none" => Shut(slot[cur]).sock = "none")
      BY <2>1 DEF Shut, SlotRec
    <3>2. told = [Shut(slot[cur]) EXCEPT !.old = TRUE]
      BY <2>2
    <3>3. QED
      BY <3>1, <3>2 DEF SlotRec
  <2>3. CASE ~TaskOf(cur)
    <3>1. told = slot[cur]
      BY <2>3
    <3>2. QED
      BY <2>1, <2>3, <3>1 DEF TaskOf
  <2>4. QED
    BY <2>2, <2>3
<1>4. PICK new \in SlotRec :
        /\ slot' = [slot EXCEPT ![cur] = told, ![NewSlot] = new]
        /\ ~new.old /\ ~new.stop
        /\ \/ new.task /\ ctl' = Goto(NewSlot, "start") /\ cur' = NewSlot
           \/ UNCHANGED <<ctl, cur>>
  <2>1. FreeSlot \in SlotRec /\ ~FreeSlot.old /\ ~FreeSlot.stop
    BY DEF FreeSlot, SlotRec
  <2>2. [FreeSlot EXCEPT !.task = TRUE, !.sock = "open"] \in SlotRec
    BY DEF FreeSlot, SlotRec
  <2>3. /\ ~[FreeSlot EXCEPT !.task = TRUE, !.sock = "open"].old
        /\ ~[FreeSlot EXCEPT !.task = TRUE, !.sock = "open"].stop
        /\ [FreeSlot EXCEPT !.task = TRUE, !.sock = "open"].task
    BY DEF FreeSlot
  <2>4. QED
    BY <2>1, <2>2, <2>3, Zenon DEF Spawn
<1>5. slot'[cur] = told /\ slot'[NewSlot] = new /\ slot' \in [Slots -> SlotRec]
  BY <1>1, <1>3, <1>4
<1>6. /\ ctl' \in [Tasks -> CtlRec]
      /\ \A a \in Tasks \ {NewSlot} : ctl'[a] = ctl[a]
      /\ Shaped(ctl[NewSlot]) /\ Shaped(ctl'[NewSlot])
      /\ ctl'[NewSlot].at = "none" \/ (new.task /\ cur' = NewSlot)
      /\ cur' \in Slots
  <2>1. Shaped(ctl[NewSlot]) /\ ctl[NewSlot].ret = "none"
    BY <1>1, <1>2 DEF Control, Shaped, Waits
  <2>2. CASE new.task /\ ctl' = Goto(NewSlot, "start") /\ cur' = NewSlot
    <3>1. ctl'[NewSlot] = [at |-> "start", ret |-> "none"]
      BY <1>1, <2>1, <2>2 DEF Goto, CtlRec
    <3>2. ctl' \in [Tasks -> CtlRec] /\ \A a \in Tasks \ {NewSlot} : ctl'[a] = ctl[a]
      BY <1>1, <2>2 DEF Goto, CtlRec, Labels
    <3>3. QED
      BY <1>1, <2>1, <2>2, <3>1, <3>2 DEF Shaped, Waits
  <2>3. CASE UNCHANGED <<ctl, cur>>
    <3>1. ctl' = ctl /\ cur' = cur
      BY <2>3
    <3>2. /\ ctl \in [Tasks -> CtlRec] /\ cur \in Slots /\ NewSlot \in Slots
          /\ ctl[NewSlot].at = "none"
      BY <1>1, <1>2
    <3>3. QED
      BY <2>1, <3>1, <3>2, Zenon
  <2>4. QED
    BY <1>4, <2>2, <2>3
<1>15. forgotten' = forgotten /\ forgotten \subseteq {cur}
  <2>1. forgotten \subseteq {cur} /\ (cur \in forgotten => ctl[cur].at # "none")
    BY <1>1, <1>2
  <2>2. ctl'[cur] = ctl[cur]
    BY <1>1, <1>6
  <2>3. forgotten' = {i \in forgotten : ctl'[i].at # "none"}
    BY <1>2, Remembered
  <2>4. QED
    BY <2>1, <2>2, <2>3
<1>16. NewSlot # cur /\ (cur \in forgotten => ctl'[cur].at # "none")
  BY <1>1, <1>6
<1>7. TypeOK'
  BY <1>1, <1>2, <1>3, <1>4, <1>5, <1>6, <1>15, <1>16
<1>8. \A a \in Tasks : Shaped(ctl[a])'
  BY <1>6 DEF Control, Shaped
<1>9. StreamHeld'
  BY <1>1, <1>2, <1>6 DEF Control, StreamHeld, Base, Waits
<1>10. CurrentServes'
  <2>1. ASSUME Base(ctl'[cur]) \in Engaged, ~told.stop, cur \notin forgotten
        PROVE  FALSE
    BY <1>1, <1>3, <1>6, <2>1 DEF Control, CurrentServes
  <2>2. ASSUME Base(ctl'[NewSlot]) \in Engaged
        PROVE  cur' = NewSlot /\ new.task
    BY <1>6, <2>2 DEF Base, Engaged, Waits
  <2>3. QED
    BY <1>1, <1>5, <1>15, <2>1, <2>2 DEF CurrentServes
<1>11. ForgottenLost'
  BY <1>1, <1>3, <1>5, <1>15 DEF Control, ForgottenLost
<1>12. HandleKept'
  BY <1>1, <1>3, <1>5, <1>6, <1>15 DEF Control, HandleKept
<1>13. SlotReady'
  BY <1>2 DEF SlotReady
<1>14. QED
  BY <1>7, <1>8, <1>9, <1>10, <1>11, <1>12, <1>13 DEF Control

LEMMA ServerStepInv ==
  ASSUME Inv, Forget, ServerStep \/ Accept \/ WifiChange \/ \E i \in Slots : PeerClose(i)
  PROVE  Inv'
<1> USE Typed DEF Inv, Types
<1>1. /\ slot \in [Slots -> SlotRec] /\ \A i \in Slots : slot[i].old => slot[i].stop
      /\ NewSlot = 1 - cur /\ NewSlot \in Slots
  BY DEF NewSlot, Slots
<1>2. \A s \in SlotRec : /\ Shut(s) \in SlotRec /\ Shut(s).stop /\ Shut(s).task = s.task
                         /\ Shut(s).old = s.old /\ (s.sock = "none" => Shut(s).sock = "none")
  BY DEF Shut, SlotRec
<1>3. CASE Accept
  <2>1. /\ spent' \in 0..Budget
        /\ srv' \in {"waitslot", "spawn"} /\ (srv' = "spawn" => ~slot[1 - cur].task)
    BY <1>1, <1>3, Spending DEF Accept, Connects, TaskOf
  <2>2. QuietEffect
    BY <1>1, <1>2, <1>3, <2>1 DEF Accept, QuietEffect
  <2>3. QED
    BY <2>2, QuietMove
<1>4. CASE SlotFreed \/ SlotTimeout \/ Drained
  <2>1. QuietEffect
    BY <1>1, <1>4 DEF SlotFreed, SlotTimeout, Drained, QuietEffect, TaskOf
  <2>2. QED
    BY <2>1, QuietMove
<1>5. CASE ServerLeaves
  <2>1. QuietEffect
    BY <1>1, <1>2, <1>5 DEF ServerLeaves, QuietEffect
  <2>2. QED
    BY <2>1, QuietMove
<1>6. CASE WifiChange
  <2>1. net' \in NetRec /\ spent' \in 0..Budget
    BY <1>6, Spending DEF WifiChange, NetRec
  <2>2. QuietEffect
    BY <1>1, <1>6, <2>1 DEF WifiChange, QuietEffect
  <2>3. QED
    BY <2>2, QuietMove
<1>7. ASSUME NEW i \in Slots, PeerClose(i)
      PROVE  Inv'
  <2>1. QuietEffect
    BY <1>1, <1>7 DEF PeerClose, QuietEffect, SlotRec
  <2>2. QED
    BY <2>1, QuietMove
<1>8. QED
  BY <1>3, <1>4, <1>5, <1>6, <1>7, SpawnInv DEF ServerStep

-----------------------------------------------------------------------------
(* The theorems *)

LEMMA InitInv == Init => Inv
<1> SUFFICES ASSUME Init
             PROVE  Inv
  OBVIOUS
<1> USE SessionAssumption DEF Init
<1>1. TypeOK
  <2>1. ctl \in [Tasks -> [at : Labels, ret : Labels]]
    BY DEF Labels
  <2>2. /\ slot \in [Slots -> [task : BOOLEAN, sock : {"none", "open", "eof"},
                              stop : BOOLEAN, old : BOOLEAN]]
        /\ \A i \in Slots : slot[i].old => slot[i].stop
    BY DEF FreeSlot
  <2>3. cn \in [Slots -> [ann : BOOLEAN, paused : BOOLEAN]]
    BY DEF NewConn
  <2>4. /\ rx \in [run : BOOLEAN, by : Slots \cup {None}, dec : BOOLEAN, ntp : BOOLEAN]
        /\ svc \in [started : BOOLEAN, desired : BOOLEAN, running : BOOLEAN]
        /\ st \in [net : BOOLEAN, disc : BOOLEAN, est : BOOLEAN, str : BOOLEAN, rec : BOOLEAN]
    OBVIOUS
  <2>5. net \in [wifi : BOOLEAN, has : BOOLEAN, had : BOOLEAN]
    OBVIOUS
  <2>6. /\ cur \in Slots /\ srv \in {"off", "accept", "waitslot", "spawn", "drain"}
        /\ up \in BOOLEAN /\ handle \in BOOLEAN /\ out \in BOOLEAN /\ spent \in 0..Budget
        /\ forgotten \subseteq {i \in Slots : ctl[i].at # "none"}
    <3>1. cur = 0 /\ srv = "accept" /\ up = TRUE /\ handle = TRUE /\ out = FALSE /\ spent = 0 /\ forgotten = {}
      OBVIOUS
    <3>2. 0 \in Slots /\ 0 \in 0..Budget
      BY DEF Slots
    <3>3. QED
      BY <3>1, <3>2, Zenon
  <2>7. QED
    BY <2>1, <2>2, <2>3, <2>4, <2>5, <2>6, Zenon DEF TypeOK
<1>2. \A a \in Tasks : ctl[a].at \in {"idle", "none"} /\ ctl[a].ret = "none"
  OBVIOUS
<1>3. \A i \in Slots : ctl[i].at = "none"
  BY DEF Slots, Tasks, NM
<1>4. NM \in Tasks
  BY DEF Tasks
<1>5. \A a \in Tasks : Shaped(ctl[a]) /\ Base(ctl[a]) = ctl[a].at
  BY <1>2 DEF Shaped, Base, Waits
<1>6. StreamHeld /\ CurrentServes /\ HandleKept /\ SlotReady
  BY <1>3, <1>5 DEF StreamHeld, CurrentServes, HandleKept, SlotReady, Engaged, Tasks
<1>7. ForgottenLost
  BY DEF ForgottenLost
<1>8. QED
  BY <1>1, <1>5, <1>6, <1>7 DEF Inv, Control

LEMMA StepInv == Inv /\ [Next]_vars => Inv'
<1> SUFFICES ASSUME Inv, [Next]_vars
             PROVE  Inv'
  OBVIOUS
<1>1. CASE Next
  BY <1>1, ClientStepInv, RequestInv, StopStep, MonitorStepInv, ServerStepInv DEF Next, Step
<1>2. CASE UNCHANGED vars
  BY <1>2 DEF vars, Inv, TypeOK, Control, StreamHeld, CurrentServes, ForgottenLost,
              HandleKept, SlotReady, Base, Shaped
<1>3. QED
  BY <1>1, <1>2

\* The invariant of the session, whatever Budget, Overlap, Drops and Failures are.
THEOREM Invariance == Spec => []Inv
BY InitInv, StepInv, PTL DEF Spec

\* Every state of a session is of the declared type.
THEOREM TypeCorrect == Spec => []TypeOK
<1>1. Inv => TypeOK
  BY DEF Inv
<1>2. QED
  BY <1>1, Invariance, PTL

\* A stream never outlives the connection whose RECORD started it, with any number of phones
\* that replace each other, any number of network losses and any failure, even if clients
\* outlive the restart of the service.
THEOREM StreamBound == Spec => []StreamWithinConnection
<1>1. Inv => StreamWithinConnection
  BY Typed DEF Inv, Types, Control, StreamHeld, StreamWithinConnection, Base, Waits, Alive, At,
               Slots, None, Tasks, Labels, CtlRec
<1>2. QED
  BY <1>1, Invariance, PTL

\* Two phones never have their requests taken at the same time, not even when clients of a
\* stopped service are still at work under the new one.
THEOREM OneServer == Spec => []OneServingClient
<1>1. Inv => OneServingClient
  BY Typed DEF Inv, Types, Control, CurrentServes, ForgottenLost, OneServingClient, Serving, At, Base,
               Waits, Engaged, Slots, Tasks
<1>2. QED
  BY <1>1, Invariance, PTL

\* The static task memory of a slot that is about to be used again is free, or still used by a
\* client at the very end of its cleanup, or by one that a restart of the service forgot: there
\* is no third way.
THEOREM SlotReuse == Spec => []SlotFreeBeforeReuse
<1>1. Inv => SlotFreeBeforeReuse
  BY DEF Inv, Control, SlotReady, SlotFreeBeforeReuse, Alive, At, NewSlot
<1>2. QED
  BY <1>1, Invariance, PTL
=============================================================================
