--------------------------- MODULE VoiceTurnProofs ---------------------------
(* Proofs about VoiceTurn, for replies of any length, rings and margins of any *)
(* size, and with allocations, codec and client that may fail: no stop is taken *)
(* to find its task gone.                                                       *)
EXTENDS VoiceTurn, TLAPS

CtlRec == [at : Labels, ret : Labels, clip : Nat]
TurnRec == [running : BOOLEAN, state : State, recording : BOOLEAN, heard : BOOLEAN]
FeRec == [task : {"none", "boot", "run"}, running : BOOLEAN, paused : BOOLEAN]
Plays == {"none", "boot", "prefill", "play", "close", "notify"}
PlayerRec == [playing : BOOLEAN, ring : Nat, cap : Nat, bufs : {"none", "held", "lost"},
              complete : BOOLEAN, played : 0..LongPlay, client : BOOLEAN]
SpeakerRec == [owned : BOOLEAN, left : {"closed", "prefill", "memory"}]
WorldRec == [net : BOOLEAN, air : BOOLEAN, voice : {"down", "starting", "up", "stopping"},
             forgot : BOOLEAN]

\* The callers a stop that sleeps comes back to.
Returns == {"loop", "failed", "timeout", "deinit"}

\* The ring of a service that is not started is empty, so that booting may resize it.
Ring(c, p) == /\ p.ring <= p.cap
              /\ c.at \in {"none", "boot"} => p.ring = 0

Stops(c) == c.at = "stopping" => c.ret \in Returns

Types == /\ ctl \in CtlRec /\ Stops(ctl)
         /\ turn \in TurnRec /\ fe \in FeRec /\ play \in Plays
         /\ player \in PlayerRec /\ Ring(ctl, player)
         /\ speaker \in SpeakerRec /\ world \in WorldRec

-----------------------------------------------------------------------------
(* Types.                                                                  *)

LEMMA Typed == Types => TypeOK
BY DEF Types, TypeOK, CtlRec, TurnRec, FeRec, Plays, PlayerRec, SpeakerRec, WorldRec, Ring

LEMMA TypeInit == Init => Types
<1> SUFFICES ASSUME Init PROVE Types
  OBVIOUS
<1>1. 0 \in 0..LongPlay /\ Default \in Nat
  BY ClipAssumption
<1>2. ctl \in CtlRec /\ turn \in TurnRec /\ fe \in FeRec /\ play \in Plays
  BY DEF Init, CtlRec, Labels, TurnRec, State, FeRec, Plays
<1>3. player \in PlayerRec
  BY <1>1 DEF Init, PlayerRec
<1>4. speaker \in SpeakerRec /\ world \in WorldRec
  BY DEF Init, SpeakerRec, WorldRec
<1>5. Stops(ctl) /\ Ring(ctl, player)
  BY <1>1 DEF Init, Stops, Ring
<1> QED
  BY <1>2, <1>3, <1>4, <1>5 DEF Types

LEMMA TypeStep == Types /\ [Next]_vars => Types'
<1> SUFFICES ASSUME Types, [Next]_vars PROVE Types'
  OBVIOUS
<1> USE ClipAssumption DEF Types
<1>1. CASE Boot
  <2>1. CASE Goto("none") /\ turn' = [turn EXCEPT !.running = FALSE] /\ UNCHANGED player
    <3>1. ctl.at = "boot" /\ UNCHANGED <<fe, play, speaker, world>>
      BY <1>1 DEF Boot, Continues
    <3>2. ctl' \in CtlRec /\ Stops(ctl') /\ Ring(ctl', player')
      BY <2>1, <3>1 DEF Goto, CtlRec, Labels, Stops, Ring
    <3>3. turn' \in TurnRec
      BY <2>1 DEF TurnRec
    <3> QED
      BY <2>1, <3>1, <3>2, <3>3
  <2>2. ASSUME NEW client \in BOOLEAN, NEW ring \in BOOLEAN,
               Goto("loop"), turn' = [turn EXCEPT !.state = "IDLE"],
               player' = [player EXCEPT !.client = client, !.cap = IF ring THEN Default ELSE 0]
        PROVE  Types'
    <3>1. ctl.at = "boot" /\ UNCHANGED <<fe, play, speaker, world>>
      BY <1>1 DEF Boot, Continues
    <3>2. player.ring = 0
      BY <3>1 DEF Ring
    <3>3. player' \in PlayerRec /\ player'.ring = 0
      BY <2>2, <3>2 DEF PlayerRec
    <3>4. ctl' \in CtlRec /\ ctl'.at = "loop"
      BY <2>2 DEF Goto, CtlRec, Labels
    <3>5. Stops(ctl') /\ Ring(ctl', player')
      BY <3>3, <3>4 DEF Stops, Ring, PlayerRec
    <3>6. turn' \in TurnRec
      BY <2>2 DEF TurnRec, State
    <3> QED
      BY <3>1, <3>3, <3>4, <3>5, <3>6
  <2> QED
    BY <1>1, <2>1, <2>2, ModeAssumption DEF Boot
<1>2. CASE NoNetwork
  BY <1>2 DEF NoNetwork, PauseFrontend, FeRec
<1>3. CASE AirplayGate
  <2>1. ctl' \in CtlRec
    BY <1>3 DEF AirplayGate, PauseFrontend, Continues, StopPlayer, CtlRec, Labels, Goto,
       Returns
  <2>2. fe' \in FeRec
    BY <1>3 DEF AirplayGate, PauseFrontend, Continues, StopPlayer, FeRec
  <2>3. player' \in PlayerRec
    BY <1>3 DEF AirplayGate, PauseFrontend, Continues, StopPlayer, PlayerRec, Ring
  <2>4. Stops(ctl)' /\ Ring(ctl, player)'
    BY <1>3, <2>1, <2>2, <2>3 DEF AirplayGate, PauseFrontend, Continues, StopPlayer, CtlRec,
       PlayerRec, Ring, Stops, Goto, Returns, Labels
  <2> QED
    BY <1>3, <2>1, <2>2, <2>3, <2>4 DEF AirplayGate, PauseFrontend, Continues, StopPlayer
<1>4. CASE Listen
  <2>1. ctl' \in CtlRec /\ ctl'.at = "turn" /\ UNCHANGED <<turn, play, player, speaker, world>>
    BY <1>4 DEF Listen, Goto, CtlRec, Labels
  <2>2. CASE fe' = [fe EXCEPT !.paused = FALSE]
    BY <2>1, <2>2 DEF FeRec, Stops, Ring
  <2>3. CASE fe' = [task |-> "boot", running |-> TRUE, paused |-> FALSE]
    BY <2>1, <2>3 DEF FeRec, Stops, Ring
  <2> QED
    BY <1>4, <2>2, <2>3 DEF Listen
<1>5. CASE ListenFails
  BY <1>5 DEF ListenFails, Continues, CtlRec, Labels, Goto, Stops, Ring, Returns
<1>6. CASE SendRecording
  <2>1. ctl' \in CtlRec
    BY <1>6 DEF SendRecording, Continues, PauseFrontend, CtlRec, Labels, Goto
  <2>2. turn' \in TurnRec
    BY <1>6 DEF SendRecording, Continues, PauseFrontend, TurnRec, State
  <2>3. fe' \in FeRec
    BY <1>6 DEF SendRecording, Continues, PauseFrontend, FeRec
  <2>4. Stops(ctl)' /\ Ring(ctl, player)'
    BY <1>6, <2>1, <2>2, <2>3 DEF SendRecording, Continues, PauseFrontend, CtlRec,
       PlayerRec, Ring, Stops, Goto, Returns, Labels
  <2> QED
    BY <1>6, <2>1, <2>2, <2>3, <2>4 DEF SendRecording, Continues, PauseFrontend
<1>7. CASE KeepRecording
  BY <1>7 DEF KeepRecording, Continues, CtlRec, Labels, Goto, Stops, Ring, Returns
<1>8. CASE RequestFails
  <2>1. ctl' \in CtlRec
    BY <1>8 DEF RequestFails, Answers, Continues, StopPlayer, CtlRec, Labels, Goto, Returns
  <2>2. player' \in PlayerRec
    BY <1>8 DEF RequestFails, Answers, Continues, StopPlayer, PlayerRec, Ring
  <2>3. Stops(ctl)' /\ Ring(ctl, player)'
    BY <1>8, <2>1, <2>2 DEF RequestFails, Answers, Continues, StopPlayer, CtlRec, PlayerRec, Ring,
       Stops, Goto, Returns, Labels
  <2> QED
    BY <1>8, <2>1, <2>2, <2>3 DEF RequestFails, Answers, Continues, StopPlayer
<1>9. CASE Failed
  <2>1. ctl' \in CtlRec
    BY <1>9 DEF Failed, Continues, Tail, CtlRec, Labels, Goto
  <2>2. turn' \in TurnRec
    BY <1>9 DEF Failed, Continues, Tail, TurnRec, State
  <2>3. Stops(ctl)' /\ Ring(ctl, player)'
    BY <1>9, <2>1, <2>2 DEF Failed, Continues, Tail, CtlRec, PlayerRec, Ring, Stops,
       Goto, Returns, Labels
  <2> QED
    BY <1>9, <2>1, <2>2, <2>3 DEF Failed, Continues, Tail
<1>10. ASSUME NEW clip \in Clips, ReplyDropped(clip) PROVE Types'
  <2>1. ctl' \in CtlRec
    BY <1>10 DEF ReplyDropped, Answers, Continues, Tail, CtlRec, Labels, Goto
  <2>2. turn' \in TurnRec
    BY <1>10 DEF ReplyDropped, Answers, Continues, Tail, TurnRec, State
  <2>3. Stops(ctl)' /\ Ring(ctl, player)'
    BY <1>10, <2>1, <2>2 DEF ReplyDropped, Answers, Continues, Tail, CtlRec, PlayerRec, Ring, Stops,
       Goto, Returns, Labels
  <2> QED
    BY <1>10, <2>1, <2>2, <2>3 DEF ReplyDropped, Answers, Continues, Tail
<1>11. ASSUME NEW clip \in Clips, ReserveFails(clip) PROVE Types'
  <2>1. ctl' \in CtlRec /\ ctl'.at = "after" /\ UNCHANGED <<fe, play, speaker, world>>
    BY <1>11 DEF ReserveFails, Goto, CtlRec, Labels
  <2>2. turn' \in TurnRec
    BY <1>11 DEF ReserveFails, Tail, TurnRec, State
  <2>3. PICK cap \in {Default, 0} : player' = [player EXCEPT !.ring = 0, !.cap = cap]
    BY <1>11 DEF ReserveFails
  <2> cap \in Nat
    OBVIOUS
  <2>4. player' \in PlayerRec
    BY <2>3 DEF PlayerRec
  <2>5. player'.ring <= player'.cap
    BY <2>3 DEF PlayerRec
  <2> QED
    BY <2>1, <2>2, <2>4, <2>5 DEF Stops, Ring
<1>12. ASSUME NEW clip \in Clips, ReplyReserve(clip) PROVE Types'
  <2>1. ctl' \in CtlRec /\ ctl'.at = "acquire" /\ UNCHANGED <<turn, fe, play, world>>
    BY <1>12 DEF ReplyReserve, CtlRec, Labels
  <2>2. speaker' \in SpeakerRec
    BY <1>12 DEF ReplyReserve, SpeakerRec
  <2>3. clip + 2 * Margin \in Nat
    OBVIOUS
  <2>4. CASE player' = player
    BY <2>1, <2>2, <2>4 DEF Stops, Ring
  <2>5. CASE player' = [player EXCEPT !.ring = 0, !.cap = clip + 2 * Margin]
    <3>1. player' \in PlayerRec
      BY <2>3, <2>5 DEF PlayerRec
    <3>2. player'.ring <= player'.cap
      BY <2>3, <2>5 DEF PlayerRec
    <3> QED
      BY <2>1, <2>2, <3>1, <3>2 DEF Stops, Ring
  <2> QED
    BY <1>12, <2>4, <2>5 DEF ReplyReserve
<1>13. CASE Acquired
  BY <1>13 DEF Acquired, Continues, CtlRec, Labels, Goto, Stops, Ring, Returns
<1>14. CASE AcquireFails
  <2>1. ctl' \in CtlRec
    BY <1>14 DEF AcquireFails, Continues, Tail, CtlRec, Labels, Goto
  <2>2. turn' \in TurnRec
    BY <1>14 DEF AcquireFails, Continues, Tail, TurnRec, State
  <2>3. speaker' \in SpeakerRec
    BY <1>14 DEF AcquireFails, Continues, Tail, SpeakerRec
  <2>4. Stops(ctl)' /\ Ring(ctl, player)'
    BY <1>14, <2>1, <2>2, <2>3 DEF AcquireFails, Continues, Tail, CtlRec, PlayerRec, Ring,
       Stops, Goto, Returns, Labels
  <2> QED
    BY <1>14, <2>1, <2>2, <2>3, <2>4 DEF AcquireFails, Continues, Tail
<1>15. CASE Spawn
  <2>1. ctl' \in CtlRec /\ ctl'.at = "feed" /\ UNCHANGED <<turn, fe, speaker, world>>
    BY <1>15 DEF Spawn, Goto, CtlRec, Labels
  <2>2. play' \in Plays
    BY <1>15 DEF Spawn, Plays
  <2>3. 0 \in 0..LongPlay
    OBVIOUS
  <2>4. player' \in PlayerRec /\ player'.ring <= player'.cap
    BY <1>15, <2>3 DEF Spawn, PlayerRec, Ring
  <2> QED
    BY <2>1, <2>2, <2>4 DEF Stops, Ring
<1>16. CASE FeedSome
  <2> DEFINE n == IF ctl.clip <= player.cap - player.ring
                  THEN ctl.clip ELSE player.cap - player.ring
  <2>1. ctl.clip \in Nat /\ player.ring \in Nat /\ player.cap \in Nat /\ player.ring <= player.cap
    BY DEF CtlRec, PlayerRec, Ring
  <2>2. ctl.clip - n \in Nat /\ player.ring + n \in Nat /\ player.ring + n <= player.cap
    BY <2>1
  <2>3. /\ player' = [player EXCEPT !.ring = @ + n] /\ ctl' = [ctl EXCEPT !.clip = @ - n]
        /\ ctl.at = "feed" /\ UNCHANGED <<turn, fe, play, speaker, world>>
    BY <1>16 DEF FeedSome, Continues
  <2> HIDE DEF n
  <2>4. player' \in PlayerRec /\ player'.ring <= player'.cap
    BY <2>2, <2>3 DEF PlayerRec
  <2>5. ctl' \in CtlRec /\ ctl'.at = "feed"
    BY <2>2, <2>3 DEF CtlRec
  <2> QED
    BY <2>3, <2>4, <2>5 DEF Stops, Ring
<1>17. CASE Fed
  <2>1. ctl' \in CtlRec
    BY <1>17 DEF Fed, Continues, Tail, CtlRec, Labels, Goto
  <2>2. turn' \in TurnRec
    BY <1>17 DEF Fed, Continues, Tail, TurnRec, State
  <2>3. player' \in PlayerRec
    BY <1>17 DEF Fed, Continues, Tail, PlayerRec, Ring
  <2>4. Stops(ctl)' /\ Ring(ctl, player)'
    BY <1>17, <2>1, <2>2, <2>3 DEF Fed, Continues, Tail, CtlRec, PlayerRec, Ring, Stops,
       Goto, Returns, Labels
  <2> QED
    BY <1>17, <2>1, <2>2, <2>3, <2>4 DEF Fed, Continues, Tail
<1>18. CASE PlayTimeout
  <2>1. ctl' \in CtlRec
    BY <1>18 DEF PlayTimeout, Continues, StopPlayer, CtlRec, Labels, Goto, Returns
  <2>2. player' \in PlayerRec
    BY <1>18 DEF PlayTimeout, Continues, StopPlayer, PlayerRec, Ring
  <2>3. Stops(ctl)' /\ Ring(ctl, player)'
    BY <1>18, <2>1, <2>2 DEF PlayTimeout, Continues, StopPlayer, CtlRec, PlayerRec,
       Ring, Stops, Goto, Returns, Labels
  <2> QED
    BY <1>18, <2>1, <2>2, <2>3 DEF PlayTimeout, Continues, StopPlayer
<1>19. CASE TimeoutDone
  <2>1. ctl' \in CtlRec
    BY <1>19 DEF TimeoutDone, Continues, CtlRec, Labels, Goto
  <2>2. turn' \in TurnRec
    BY <1>19 DEF TimeoutDone, Continues, TurnRec, State
  <2>3. Stops(ctl)' /\ Ring(ctl, player)'
    BY <1>19, <2>1, <2>2 DEF TimeoutDone, Continues, CtlRec, PlayerRec, Ring, Stops,
       Goto, Returns, Labels
  <2> QED
    BY <1>19, <2>1, <2>2, <2>3 DEF TimeoutDone, Continues
<1>20. CASE NoTimeout
  BY <1>20 DEF NoTimeout, Continues, CtlRec, Labels, Goto, Stops, Ring, Returns
<1>21. CASE Stopped
  BY <1>21 DEF Stopped, Continues, CtlRec, Labels, Goto, Stops, Ring, Returns
<1>22. CASE Leave
  <2>1. ctl' \in CtlRec
    BY <1>22 DEF Leave, Continues, CtlRec, Labels, Goto
  <2>2. fe' \in FeRec
    BY <1>22 DEF Leave, Continues, FeRec
  <2>3. Stops(ctl)' /\ Ring(ctl, player)'
    BY <1>22, <2>1, <2>2 DEF Leave, Continues, CtlRec, PlayerRec, Ring, Stops, Goto,
       Returns, Labels
  <2> QED
    BY <1>22, <2>1, <2>2, <2>3 DEF Leave, Continues
<1>23. CASE LeavePlayer
  <2>1. ctl' \in CtlRec
    BY <1>23 DEF LeavePlayer, Continues, StopPlayer, CtlRec, Labels, Goto, Returns
  <2>2. player' \in PlayerRec
    BY <1>23 DEF LeavePlayer, Continues, StopPlayer, PlayerRec, Ring
  <2>3. Stops(ctl)' /\ Ring(ctl, player)'
    BY <1>23, <2>1, <2>2 DEF LeavePlayer, Continues, StopPlayer, CtlRec, PlayerRec, Ring,
       Stops, Goto, Returns, Labels
  <2> QED
    BY <1>23, <2>1, <2>2, <2>3 DEF LeavePlayer, Continues, StopPlayer
<1>24. CASE Deinit
  <2>1. ctl' \in CtlRec
    BY <1>24 DEF Deinit, Continues, CtlRec, Labels, Goto
  <2>2. turn' \in TurnRec
    BY <1>24 DEF Deinit, Continues, TurnRec, State
  <2>3. player' \in PlayerRec
    BY <1>24 DEF Deinit, Continues, PlayerRec, Ring
  <2>4. Stops(ctl)' /\ Ring(ctl, player)'
    BY <1>24, <2>1, <2>2, <2>3 DEF Deinit, Continues, CtlRec, PlayerRec, Ring, Stops,
       Goto, Returns, Labels
  <2> QED
    BY <1>24, <2>1, <2>2, <2>3, <2>4 DEF Deinit, Continues
<1>25. CASE PlayBoot
  <2>1. play' \in Plays
    BY <1>25 DEF PlayBoot, Plays
  <2>2. player' \in PlayerRec
    BY <1>25 DEF PlayBoot, PlayerRec, Ring
  <2>3. Stops(ctl)' /\ Ring(ctl, player)'
    BY <1>25, <2>1, <2>2 DEF PlayBoot, CtlRec, PlayerRec, Ring, Stops, Goto, Returns,
       Labels
  <2> QED
    BY <1>25, <2>1, <2>2, <2>3 DEF PlayBoot
<1>26. CASE PlayBootFails
  <2>1. play' \in Plays
    BY <1>26 DEF PlayBootFails, Plays
  <2>2. player' \in PlayerRec
    BY <1>26 DEF PlayBootFails, PlayerRec, Ring
  <2>3. speaker' \in SpeakerRec
    BY <1>26 DEF PlayBootFails, SpeakerRec
  <2>4. Stops(ctl)' /\ Ring(ctl, player)'
    BY <1>26, <2>1, <2>2, <2>3 DEF PlayBootFails, CtlRec, PlayerRec, Ring, Stops, Goto,
       Returns, Labels
  <2> QED
    BY <1>26, <2>1, <2>2, <2>3, <2>4 DEF PlayBootFails
<1>27. CASE PrefillDone
  BY <1>27 DEF PrefillDone, Plays
<1>28. CASE PrefillAbandoned
  <2>1. play' \in Plays
    BY <1>28 DEF PrefillAbandoned, Plays
  <2>2. speaker' \in SpeakerRec
    BY <1>28 DEF PrefillAbandoned, SpeakerRec
  <2> QED
    BY <1>28, <2>1, <2>2 DEF PrefillAbandoned
<1>29. CASE PlayChunk
  <2>1. player.ring \in Nat /\ player.cap \in Nat /\ player.ring <= player.cap /\ player.ring > 0
    BY <1>29 DEF PlayChunk, PlayerRec, Ring
  <2>2. player.ring - 1 \in Nat /\ player.ring - 1 <= player.cap
    BY <2>1
  <2>3. (IF player.played < LongPlay THEN player.played + 1 ELSE player.played) \in 0..LongPlay
    BY DEF PlayerRec
  <2>4. player' = [player EXCEPT !.ring = player.ring - 1,
              !.played = IF player.played < LongPlay THEN player.played + 1 ELSE player.played]
    BY <1>29 DEF PlayChunk
  <2>5. player' \in PlayerRec
    BY <2>2, <2>3, <2>4 DEF PlayerRec
  <2>6. player'.ring = player.ring - 1 /\ player'.cap = player.cap
    BY <2>4 DEF PlayerRec
  <2> QED
    BY <1>29, <2>1, <2>2, <2>5, <2>6 DEF PlayChunk, Stops, Ring
<1>30. CASE PlayEnd
  BY <1>30 DEF PlayEnd, Plays
<1>31. CASE PlayClose
  <2>1. play' \in Plays
    BY <1>31 DEF PlayClose, Plays
  <2>2. player' \in PlayerRec
    BY <1>31 DEF PlayClose, PlayerRec, Ring
  <2>3. speaker' \in SpeakerRec
    BY <1>31 DEF PlayClose, SpeakerRec
  <2>4. Stops(ctl)' /\ Ring(ctl, player)'
    BY <1>31, <2>1, <2>2, <2>3 DEF PlayClose, CtlRec, PlayerRec, Ring, Stops, Goto,
       Returns, Labels
  <2> QED
    BY <1>31, <2>1, <2>2, <2>3, <2>4 DEF PlayClose
<1>32. CASE PlayNotify
  <2>1. play' \in Plays
    BY <1>32 DEF PlayNotify, Plays
  <2>2. turn' \in TurnRec
    BY <1>32 DEF PlayNotify, TurnRec, State
  <2> QED
    BY <1>32, <2>1, <2>2 DEF PlayNotify
<1>33. CASE FeReady
  BY <1>33 DEF FeReady, FeRec
<1>34. CASE FeFails
  BY <1>34 DEF FeFails, FeRec
<1>35. CASE FeChunk
  BY <1>35 DEF FeChunk, TurnRec, State
<1>36. CASE FeExit
  BY <1>36 DEF FeExit, FeRec
<1>37. CASE Tap
  BY <1>37 DEF Tap, TurnRec, State
<1>38. CASE ServiceStop
  <2>1. turn' \in TurnRec
    BY <1>38 DEF ServiceStop, TurnRec, State
  <2>2. world' \in WorldRec
    BY <1>38 DEF ServiceStop, WorldRec
  <2> QED
    BY <1>38, <2>1, <2>2 DEF ServiceStop
<1>39. CASE ServiceStopped
  BY <1>39 DEF ServiceStopped, WorldRec
<1>40. CASE ServiceStart
  <2>1. ctl' \in CtlRec
    BY <1>40 DEF ServiceStart, CtlRec, Labels, Goto
  <2>2. turn' \in TurnRec
    BY <1>40 DEF ServiceStart, TurnRec, State
  <2>3. world' \in WorldRec
    BY <1>40 DEF ServiceStart, WorldRec
  <2>4. Stops(ctl)' /\ Ring(ctl, player)'
    BY <1>40, <2>1, <2>2, <2>3 DEF ServiceStart, CtlRec, PlayerRec, Ring, Stops, Goto,
       Returns, Labels
  <2> QED
    BY <1>40, <2>1, <2>2, <2>3, <2>4 DEF ServiceStart
<1>41. CASE NetLost
  BY <1>41 DEF NetLost, WorldRec
<1>42. CASE NetBack
  BY <1>42 DEF NetBack, WorldRec
<1>43. CASE ServiceStartFails
  BY <1>43 DEF ServiceStartFails, WorldRec
<1>44. CASE AirplayBegins
  BY <1>44 DEF AirplayBegins, WorldRec
<1>45. CASE AirplayEnds
  BY <1>45 DEF AirplayEnds, WorldRec
<1>46. CASE UNCHANGED vars
  BY <1>46 DEF vars
<1> QED
  BY <1>1, <1>2, <1>3, <1>4, <1>5, <1>6, <1>7, <1>8, <1>9, <1>10, <1>11, <1>12, <1>13,
     <1>14, <1>15, <1>16, <1>17, <1>18, <1>19, <1>20, <1>21, <1>22, <1>23, <1>24, <1>25,
     <1>26, <1>27, <1>28, <1>29, <1>30, <1>31, <1>32, <1>33, <1>34, <1>35, <1>36, <1>37,
     <1>38, <1>39, <1>40, <1>41, <1>42, <1>43, <1>44, <1>45, <1>46 DEF Next, Controller,
     Reply, PlayTask, Service, Environment

LEMMA TypeInvariant == Spec => []Types
BY TypeInit, TypeStep, PTL DEF Spec

-----------------------------------------------------------------------------
(* Requests.                                                               *)

\* The labels of a request.
Asking == \/ ctl.at \in {"upload", "failed", "acquire", "spawn", "feed"}
          \/ ctl.at = "stopping" /\ ctl.ret = "failed"

Requests == turn.state = "REQUESTING" => Asking

LEMMA RequestInit == Init => Requests
BY DEF Init, Requests

LEMMA RequestStep == Types /\ Requests /\ [Next]_vars => Requests'
<1> SUFFICES ASSUME Types, Requests, [Next]_vars PROVE Requests'
  OBVIOUS
<1> USE DEF Types, Requests, Asking
<1>1. CASE Boot
  BY <1>1 DEF Boot, Continues, CtlRec, TurnRec, Stops, Returns, Goto
<1>2. CASE AirplayGate
  BY <1>2 DEF AirplayGate, PauseFrontend, Continues, StopPlayer, CtlRec, Stops, Returns,
     Goto
<1>3. CASE Listen
  BY <1>3 DEF Listen, Continues, CtlRec, Stops, Returns, Goto
<1>4. CASE ListenFails
  BY <1>4 DEF ListenFails, Continues, CtlRec, Stops, Returns, Goto
<1>5. CASE SendRecording
  BY <1>5 DEF SendRecording, Continues, PauseFrontend, CtlRec, TurnRec, Stops, Returns,
     Goto
<1>6. CASE KeepRecording
  BY <1>6 DEF KeepRecording, Continues, CtlRec, Stops, Returns, Goto
<1>7. CASE RequestFails
  BY <1>7 DEF RequestFails, Answers, Continues, StopPlayer, CtlRec, Stops, Returns, Goto
<1>8. CASE Failed
  BY <1>8 DEF Failed, Continues, Tail, CtlRec, TurnRec, Stops, Returns, Goto
<1>9. ASSUME NEW clip \in Clips, ReplyDropped(clip) PROVE Requests'
  BY <1>9 DEF ReplyDropped, Answers, Continues, Tail, CtlRec, TurnRec, Stops, Returns, Goto
<1>10. ASSUME NEW clip \in Clips, ReserveFails(clip) PROVE Requests'
  BY <1>10 DEF ReserveFails, Answers, Continues, Tail, CtlRec, TurnRec, Stops, Returns, Goto
<1>11. ASSUME NEW clip \in Clips, ReplyReserve(clip) PROVE Requests'
  BY <1>11 DEF ReplyReserve, Answers, Continues, CanReserve, CtlRec, Stops, Returns, Goto
<1>12. CASE Acquired
  BY <1>12 DEF Acquired, Continues, CtlRec, Stops, Returns, Goto
<1>13. CASE AcquireFails
  BY <1>13 DEF AcquireFails, Continues, Tail, CtlRec, TurnRec, Stops, Returns, Goto
<1>14. CASE Spawn
  BY <1>14 DEF Spawn, Continues, CtlRec, Stops, Returns, Goto
<1>15. CASE FeedSome
  BY <1>15 DEF FeedSome, Continues, CtlRec, Stops, Returns, Goto
<1>16. CASE Fed
  BY <1>16 DEF Fed, Continues, Tail, CtlRec, TurnRec, Stops, Returns, Goto
<1>17. CASE PlayTimeout
  BY <1>17 DEF PlayTimeout, Continues, StopPlayer, CtlRec, Stops, Returns, Goto
<1>18. CASE TimeoutDone
  BY <1>18 DEF TimeoutDone, Continues, CtlRec, TurnRec, Stops, Returns, Goto
<1>19. CASE NoTimeout
  BY <1>19 DEF NoTimeout, Continues, CtlRec, Stops, Returns, Goto
<1>20. CASE Stopped
  BY <1>20 DEF Stopped, Continues, CtlRec, Stops, Returns, Goto
<1>21. CASE Leave
  BY <1>21 DEF Leave, Continues, CtlRec, Stops, Returns, Goto
<1>22. CASE LeavePlayer
  BY <1>22 DEF LeavePlayer, Continues, StopPlayer, CtlRec, Stops, Returns, Goto
<1>23. CASE Deinit
  BY <1>23 DEF Deinit, Continues, CtlRec, TurnRec, Stops, Returns, Goto
<1>24. CASE PlayNotify
  BY <1>24 DEF PlayNotify, TurnRec
<1>25. CASE FeChunk
  BY <1>25 DEF FeChunk, TurnRec
<1>26. CASE Tap
  BY <1>26 DEF Tap, TurnRec
<1>27. CASE ServiceStop
  BY <1>27 DEF ServiceStop, TurnRec
<1>28. CASE ServiceStart
  BY <1>28 DEF ServiceStart, CtlRec, TurnRec, Stops, Returns, Goto
\* Neither the controller nor the turn moves.
<1>29. CASE \/ NoNetwork \/ PlayBoot \/ PlayBootFails \/ PrefillDone
           \/ PrefillAbandoned \/ PlayChunk \/ PlayEnd \/ PlayClose
           \/ FeReady \/ FeFails \/ FeExit \/ NetLost
           \/ ServiceStopped \/ NetBack \/ ServiceStartFails \/ AirplayBegins
           \/ AirplayEnds
  BY <1>29 DEF NoNetwork, PlayBoot, PlayBootFails, PrefillDone, PrefillAbandoned,
     PlayChunk, PlayEnd, PlayClose, FeReady, FeFails, FeExit, NetLost, ServiceStopped,
     NetBack, ServiceStartFails, AirplayBegins, AirplayEnds, PauseFrontend
<1>30. CASE UNCHANGED vars
  BY <1>30 DEF vars
<1> QED
  BY <1>1, <1>2, <1>3, <1>4, <1>5, <1>6, <1>7, <1>8, <1>9, <1>10, <1>11, <1>12, <1>13,
     <1>14, <1>15, <1>16, <1>17, <1>18, <1>19, <1>20, <1>21, <1>22, <1>23, <1>24, <1>25,
     <1>26, <1>27, <1>28, <1>29, <1>30 DEF Next, Controller, Reply, PlayTask, Service,
     Environment

\* Outside a request the controller is never REQUESTING, whatever the tasks do to
\* each other: the 30 s after which a request would be given up, and the client
\* closed under the turns that follow, are never counted.
THEOREM RequestTimeOut == Spec => []RequestNeverTimesOut
<1>1. Spec => []Requests
  BY RequestInit, RequestStep, TypeInvariant, PTL DEF Spec
<1>2. Requests => RequestNeverTimesOut
  BY DEF Requests, Asking, RequestNeverTimesOut
<1> QED
  BY <1>1, <1>2, PTL

\* Every state of a turn is of the declared type, and the ring never holds more
\* than it has room for.
THEOREM TypeCorrect == Spec => []TypeOK
BY Typed, TypeInvariant, PTL

-----------------------------------------------------------------------------
(* Tasks and what they hold.                                               *)

\* s_playing has a play task that has not yet cleaned up; a stop clears it, and
\* no one but a stop leaves a play task polling without it.
Lives == /\ player.playing => play \in {"boot", "prefill", "play", "close"}
         /\ ctl.at = "stopping" => ~player.playing
         /\ Polling => player.playing \/ ctl.at = "stopping"

\* Where the memory of the play task is used there is none, or one that has left
\* its loop.
Gone == /\ ctl.at \in {"acquire", "spawn"} => play \in {"none", "notify"} /\ ~player.playing
        /\ ctl.at = "deinit" => play \in {"none", "close", "notify"} /\ ~player.playing

\* While a clip is fed its play task waits for it or plays, or has died for want
\* of memory.
Feeds == ctl.at = "feed" =>
    \/ player.playing /\ ~player.complete /\ Polling
    \/ ~player.playing /\ play = "none" /\ speaker.left = "memory"

\* PLAYING begins with the end of a request and has a play task behind it.
Replies == turn.state = "PLAYING" =>
    /\ ~Asking /\ ctl.at \notin {"none", "boot"}
    /\ play # "boot"
    /\ play # "none" \/ speaker.left = "prefill"

\* The speaker is held by a reply, or by what the last one left behind.
Holds == speaker.owned =>
    \/ play \notin {"none", "notify"}
    \/ ctl.at \in {"acquire", "spawn"}
    \/ play = "none" /\ speaker.left \in {"prefill", "memory"}

\* A controller lives while its service is up or being stopped, and then only if
\* the stop gave up on it.
Serves == /\ world.voice \in {"down", "starting"} =>
                ctl.at = "none" \/ (world.forgot /\ ~turn.running)
          /\ world.voice = "up" => turn.running \/ ctl.at = "none"
          /\ world.voice = "stopping" => ~turn.running

TaskInv == Lives /\ Gone /\ Feeds /\ Replies /\ Holds /\ Serves

LEMMA TaskInit == Init => TaskInv
BY DEF Init, TaskInv, Lives, Gone, Feeds, Replies, Holds, Serves, Polling, Asking

LEMMA TaskStep == Types /\ TaskInv /\ [Next]_vars => TaskInv'
<1> SUFFICES ASSUME Types, TaskInv, [Next]_vars PROVE TaskInv'
  OBVIOUS
<1> USE DEF Types, Plays, Asking, TaskInv, Lives, Gone, Feeds, Replies, Holds, Serves, Polling
<1>1. CASE Boot
  BY <1>1 DEF Boot, Continues, CtlRec, TurnRec, PlayerRec, Stops, Returns,
      Goto
<1>2. CASE AirplayGate
  BY <1>2 DEF AirplayGate, PauseFrontend, Continues, StopPlayer, CtlRec, FeRec, PlayerRec,
     Stops, Returns, Goto
<1>3. CASE Listen
  BY <1>3 DEF Listen, Continues, CtlRec, FeRec, Stops, Returns, Goto
<1>4. CASE ListenFails
  BY <1>4 DEF ListenFails, Continues, CtlRec, Stops, Returns, Goto
<1>5. CASE SendRecording
  BY <1>5 DEF SendRecording, Continues, PauseFrontend, CtlRec, TurnRec, FeRec, Stops,
     Returns, Goto
<1>6. CASE KeepRecording
  BY <1>6 DEF KeepRecording, Continues, CtlRec, Stops, Returns,
     Goto
<1>7. CASE RequestFails
  BY <1>7 DEF RequestFails, Answers, Continues, StopPlayer, CtlRec, PlayerRec, Stops, Returns, Goto
<1>8. CASE Failed
  BY <1>8 DEF Failed, Continues, Tail, CtlRec, TurnRec, Stops, Returns,
      Goto
<1>9. ASSUME NEW clip \in Clips, ReplyDropped(clip) PROVE TaskInv'
  BY <1>9 DEF ReplyDropped, Answers, Continues, Tail, CtlRec, TurnRec, Stops, Returns,
      Goto
<1>10. ASSUME NEW clip \in Clips, ReserveFails(clip) PROVE TaskInv'
  BY <1>10 DEF ReserveFails, Answers, Continues, Tail, CtlRec, TurnRec, PlayerRec, Stops, Returns, Goto
<1>11. ASSUME NEW clip \in Clips, ReplyReserve(clip) PROVE TaskInv'
  BY <1>11 DEF ReplyReserve, Answers, Continues, CanReserve, CtlRec, PlayerRec, SpeakerRec, Stops,
     Returns, Goto
<1>12. CASE Acquired
  BY <1>12 DEF Acquired, Continues, CtlRec, Stops, Returns, Goto
<1>13. CASE AcquireFails
  BY <1>13 DEF AcquireFails, Continues, Tail, CtlRec, TurnRec, SpeakerRec, Stops, Returns, Goto
<1>14. CASE Spawn
  BY <1>14 DEF Spawn, Continues, CtlRec, Plays, PlayerRec, Stops, Returns,
      Goto
<1>15. CASE FeedSome
  BY <1>15 DEF FeedSome, Continues, CtlRec, PlayerRec, Stops, Returns,
      Goto
<1>16. CASE Fed
  BY <1>16 DEF Fed, Continues, Tail, CtlRec, TurnRec, PlayerRec, Stops, Returns, Goto
<1>17. CASE PlayTimeout
  BY <1>17 DEF PlayTimeout, Continues, StopPlayer, CtlRec, PlayerRec, Stops, Returns, Goto
<1>18. CASE TimeoutDone
  BY <1>18 DEF TimeoutDone, Continues, CtlRec, TurnRec, Stops, Returns,
      Goto
<1>19. CASE NoTimeout
  BY <1>19 DEF NoTimeout, Continues, CtlRec, Stops, Returns, Goto
<1>20. CASE Stopped
  BY <1>20 DEF Stopped, Continues, CtlRec, Stops, Returns, Goto
<1>21. CASE Leave
  BY <1>21 DEF Leave, Continues, CtlRec, FeRec, Stops, Returns, Goto
<1>22. CASE LeavePlayer
  BY <1>22 DEF LeavePlayer, Continues, StopPlayer, CtlRec, PlayerRec, Stops, Returns, Goto
<1>23. CASE Deinit
  BY <1>23 DEF Deinit, Continues, CtlRec, TurnRec, PlayerRec, Stops, Returns,
      Goto
<1>24. CASE PlayBoot
  BY <1>24 DEF PlayBoot, Plays, PlayerRec
<1>25. CASE PlayBootFails
  BY <1>25 DEF PlayBootFails, Plays, PlayerRec, SpeakerRec
<1>26. CASE PrefillDone
  BY <1>26 DEF PrefillDone, Plays
<1>27. CASE PrefillAbandoned
  BY <1>27 DEF PrefillAbandoned, Plays, SpeakerRec
<1>28. CASE PlayChunk
  BY <1>28 DEF PlayChunk, PlayerRec
<1>29. CASE PlayEnd
  BY <1>29 DEF PlayEnd, Plays
<1>30. CASE PlayClose
  BY <1>30 DEF PlayClose, Plays, PlayerRec, SpeakerRec
<1>31. CASE PlayNotify
  BY <1>31 DEF PlayNotify, Plays, TurnRec
<1>32. CASE FeChunk
  BY <1>32 DEF FeChunk, TurnRec
<1>33. CASE Tap
  BY <1>33 DEF Tap, TurnRec
<1>34. CASE ServiceStop
  BY <1>34 DEF ServiceStop, TurnRec, WorldRec
<1>35. CASE ServiceStopped
  BY <1>35 DEF ServiceStopped, WorldRec
<1>36. CASE ServiceStart
  BY <1>36 DEF ServiceStart, CtlRec, TurnRec, WorldRec, Stops, Returns, Goto
<1>37. CASE NetLost
  BY <1>37 DEF NetLost, WorldRec
<1>38. CASE NetBack
  BY <1>38 DEF NetBack, WorldRec
<1>39. CASE ServiceStartFails
  BY <1>39 DEF ServiceStartFails, WorldRec
<1>40. CASE AirplayBegins
  BY <1>40 DEF AirplayBegins, WorldRec
<1>41. CASE AirplayEnds
  BY <1>41 DEF AirplayEnds, WorldRec
\* The front end has no part in it.
<1>42. CASE NoNetwork \/ FeReady \/ FeFails \/ FeExit
  BY <1>42 DEF NoNetwork, FeReady, FeFails, FeExit, PauseFrontend
<1>43. CASE UNCHANGED vars
  BY <1>43 DEF vars
<1> QED
  BY <1>1, <1>2, <1>3, <1>4, <1>5, <1>6, <1>7, <1>8, <1>9, <1>10, <1>11, <1>12, <1>13,
     <1>14, <1>15, <1>16, <1>17, <1>18, <1>19, <1>20, <1>21, <1>22, <1>23, <1>24, <1>25,
     <1>26, <1>27, <1>28, <1>29, <1>30, <1>31, <1>32, <1>33, <1>34, <1>35, <1>36, <1>37,
     <1>38, <1>39, <1>40, <1>41, <1>42, <1>43 DEF Next, Controller, Reply, PlayTask,
     Service, Environment

LEMMA TaskInvariant == Spec => []TaskInv
BY TaskInit, TaskStep, TypeInvariant, PTL DEF Spec

\* Where static task memory is used again, the task that may still be in it is
\* known: a play task that has left its loop, or a controller that its stop gave
\* up on.
THEOREM TaskMemory == Spec => []MemoryFree
<1>1. TaskInv => MemoryFree
  BY DEF TaskInv, Gone, Serves, MemoryFree
<1> QED
  BY <1>1, TaskInvariant, PTL

\* A turn that says PLAYING has a play task that will end it, or lost it in its
\* prefill.
THEOREM ReplyPlayer == Spec => []PlayingHasPlayer
<1>1. TaskInv => PlayingHasPlayer
  BY DEF TaskInv, Replies, PlayingHasPlayer
<1> QED
  BY <1>1, TaskInvariant, PTL

\* The speaker is given back with the reply, on every way a play task ends but
\* the two without a cleanup.
THEOREM SpeakerBack == Spec => []SpeakerReturned
<1>1. TaskInv => SpeakerReturned
  BY DEF TaskInv, Holds, SpeakerReturned
<1> QED
  BY <1>1, TaskInvariant, PTL
=============================================================================
