------------------------------- MODULE Device -------------------------------
(***************************************************************************)
(* The small models of the device beside the audio path: the voice's ring  *)
(* buffer and its request to the cloud, the boot and its settings, the     *)
(* Wi-Fi, the state that is shown, the sensors and the screen.  They share *)
(* no state here; what they share in the program is told in each of them.  *)
(* The initial state chooses one part, and the behaviour is that of the    *)
(* part; the variables of the others stay zero, but for those of the ring. *)
(***************************************************************************)
EXTENDS AudioRingbuf, FiniteSets

CONSTANTS
  Parts,                                                 \* those looked at
  Events, MaxLines, LineCap, LineMax, ReplyMax, Short,   \* of SseStream
  MaxLeaks,                                              \* OmniRequest
  Builds, MaxBoots, Fails, Reminders,                    \* Provisioning
  FastRetries, MaxDrops, Refuses,                        \* WifiLink
  Faults,                                                \* DeviceState
  MaxMoves, AddFails,                                    \* EnvSensors
  Readings, Cooldown, Answers,                           \* EnvReminder
  Initial, Slack, Large, HeadLen, Bodies, MaxRequests, AllocFails,  \* RtspFraming
  Writers, Voices, BlinkDur, MaxCalls, Timeouts,         \* ScreenUi
  Lights, MaxChanges, StartFails                         \* AutoBrightness

VARIABLES
  job,  \* the part that was chosen
  sseLine, sseBuf, sseCtx, sseReply, sseVolume,
  reqAt, reqHeld, reqFailed, reqClient, reqLeaks,
  pvBuild, pvFlash, pvRam, pvLoaded, pvAt, pvWifi, pvConfig, pvCtrl, pvBoots,
  apThere, wifiLink, wifiRetry, wifiTimer, wifiState,
  devNet, devFlags, devShown, devTold, devUp, devMain, devHad, devClient, devSession,
  envUnit, envHw, envAt, envData,
  remAt, remActive, remAge, remPending, remSaid,
  rtReqs, rtAt, rtBase, rtLen, rtCap, rtHandled,
  uiVoice, uiShown, uiDirty, uiLast, uiBlink, uiColour, uiButton, uiImage, uiAnim,
  uiCalls, uiPush, uiDone,
  abLight, abSensor, abRunning, abCurrent, abApplied

Reply == INSTANCE SseStream
Upload == INSTANCE OmniRequest
Boot == INSTANCE Provisioning
Wifi == INSTANCE WifiLink
Shown == INSTANCE DeviceState
Sensors == INSTANCE EnvSensors
Reminder == INSTANCE EnvReminder
Framing == INSTANCE RtspFraming
Screen == INSTANCE ScreenUi
Light == INSTANCE AutoBrightness

replyVars == <<sseLine, sseBuf, sseCtx, sseReply, sseVolume>>
uploadVars == <<reqAt, reqHeld, reqFailed, reqClient, reqLeaks>>
bootVars == <<pvBuild, pvFlash, pvRam, pvLoaded, pvAt, pvWifi, pvConfig, pvCtrl, pvBoots>>
wifiVars == <<apThere, wifiLink, wifiRetry, wifiTimer, wifiState>>
shownVars == <<devNet, devFlags, devShown, devTold, devUp, devMain, devHad, devClient, devSession>>
sensorVars == <<envUnit, envHw, envAt, envData>>
reminderVars == <<remAt, remActive, remAge, remPending, remSaid>>
framingVars == <<rtReqs, rtAt, rtBase, rtLen, rtCap, rtHandled>>
screenVars == <<uiVoice, uiShown, uiDirty, uiLast, uiBlink, uiColour, uiButton, uiImage,
                uiAnim, uiCalls, uiPush, uiDone>>
lightVars == <<abLight, abSensor, abRunning, abCurrent, abApplied>>

deviceVars == <<job, vars, replyVars, uploadVars, bootVars, wifiVars, shownVars, sensorVars,
                reminderVars, framingVars, screenVars, lightVars>>

-----------------------------------------------------------------------------
(* What the parts assume of their constants.                               *)

EventTyped(e) == /\ e.len \in Nat /\ e.riff \in BOOLEAN /\ e.pcm \in Nat
                 /\ e.word \in {"up", "down", "mute", "none"}

LinesAssumption ==
    /\ \A e \in Events : EventTyped(e)
    /\ MaxLines \in Nat
    /\ LineCap \in Nat \ {0} /\ LineMax \in Nat /\ LineCap <= LineMax /\ ReplyMax \in Nat

\* A value is a firmware, and none is the number that stands for no value.
BuildsAssumption == 0 \notin DOMAIN Builds

\* A zone is one of five around the nominal one.
ReadingsAssumption == /\ Readings \subseteq [temp : -2..2, humid : -2..2, air : 0..2]
                      /\ Cooldown \in Nat

SizesAssumption == /\ Initial \in Nat /\ Slack \in Nat /\ Large \in Nat /\ Initial <= Large
                   /\ HeadLen \in Nat \ {0} /\ Bodies \subseteq Nat
                   /\ AllocFails \in BOOLEAN

FaceAssumption == /\ "standby" \in Voices /\ BlinkDur \in Nat
                  /\ IsFiniteSet(Writers)

LightsAssumption == Lights \subseteq 0..Light!MaxLight

ASSUME DeviceAssumption ==
    /\ LinesAssumption /\ BuildsAssumption /\ ReadingsAssumption
    /\ SizesAssumption /\ FaceAssumption /\ LightsAssumption
    /\ MaxLeaks \in Nat /\ FastRetries \in Nat /\ MaxMoves \in Nat

-----------------------------------------------------------------------------
Does(part) == job = part

\* The variables of a part that was not chosen.
ReplyIdle == sseLine = 0 /\ sseBuf = 0 /\ sseCtx = 0 /\ sseReply = 0 /\ sseVolume = 0
UploadIdle == reqAt = 0 /\ reqHeld = 0 /\ reqFailed = 0 /\ reqClient = 0 /\ reqLeaks = 0
BootIdle == /\ pvBuild = 0 /\ pvFlash = 0 /\ pvRam = 0 /\ pvLoaded = 0 /\ pvAt = 0
            /\ pvWifi = 0 /\ pvConfig = 0 /\ pvCtrl = 0 /\ pvBoots = 0
WifiIdle == apThere = 0 /\ wifiLink = 0 /\ wifiRetry = 0 /\ wifiTimer = 0 /\ wifiState = 0
ShownIdle == /\ devNet = 0 /\ devFlags = 0 /\ devShown = 0 /\ devTold = 0 /\ devUp = 0
             /\ devMain = 0 /\ devHad = 0 /\ devClient = 0 /\ devSession = 0
SensorsIdle == envUnit = 0 /\ envHw = 0 /\ envAt = 0 /\ envData = 0
ReminderIdle == remAt = 0 /\ remActive = 0 /\ remAge = 0 /\ remPending = 0 /\ remSaid = 0
FramingIdle == rtReqs = 0 /\ rtAt = 0 /\ rtBase = 0 /\ rtLen = 0 /\ rtCap = 0 /\ rtHandled = 0
ScreenIdle == /\ uiVoice = 0 /\ uiShown = 0 /\ uiDirty = 0 /\ uiLast = 0 /\ uiBlink = 0
              /\ uiColour = 0 /\ uiButton = 0 /\ uiImage = 0 /\ uiAnim = 0
              /\ uiCalls = 0 /\ uiPush = 0 /\ uiDone = 0
LightIdle == abLight = 0 /\ abSensor = 0 /\ abRunning = 0 /\ abCurrent = 0 /\ abApplied = 0

DeviceInit ==
    /\ job \in Parts
    /\ Init
    /\ IF Does("reply") THEN Reply!Init ELSE ReplyIdle
    /\ IF Does("upload") THEN Upload!Init ELSE UploadIdle
    /\ IF Does("boot") THEN Boot!Init ELSE BootIdle
    /\ IF Does("wifi") THEN Wifi!Init ELSE WifiIdle
    /\ IF Does("shown") THEN Shown!Init ELSE ShownIdle
    /\ IF Does("sensors") THEN Sensors!Init ELSE SensorsIdle
    /\ IF Does("reminder") THEN Reminder!Init ELSE ReminderIdle
    /\ IF Does("framing") THEN Framing!Init ELSE FramingIdle
    /\ IF Does("screen") THEN Screen!Init ELSE ScreenIdle
    /\ IF Does("light") THEN Light!Init ELSE LightIdle

DeviceNext ==
    /\ UNCHANGED job
    /\ IF Does("ring") THEN Next ELSE UNCHANGED vars
    /\ IF Does("reply") THEN Reply!Next ELSE UNCHANGED replyVars
    /\ IF Does("upload") THEN Upload!Next ELSE UNCHANGED uploadVars
    /\ IF Does("boot") THEN Boot!Next ELSE UNCHANGED bootVars
    /\ IF Does("wifi") THEN Wifi!Next ELSE UNCHANGED wifiVars
    /\ IF Does("shown") THEN Shown!Next ELSE UNCHANGED shownVars
    /\ IF Does("sensors") THEN Sensors!Next ELSE UNCHANGED sensorVars
    /\ IF Does("reminder") THEN Reminder!Next ELSE UNCHANGED reminderVars
    /\ IF Does("framing") THEN Framing!Next ELSE UNCHANGED framingVars
    /\ IF Does("screen") THEN Screen!Next ELSE UNCHANGED screenVars
    /\ IF Does("light") THEN Light!Next ELSE UNCHANGED lightVars

\* The fairness of each part, as its specification states it.
DeviceFairness ==
    /\ WF_wifiVars(Does("wifi") /\ Wifi!Driver)
    /\ WF_wifiVars(Does("wifi") /\ (Wifi!Time \/ Wifi!TimerFires))
    /\ WF_shownVars(Does("shown") /\ (Shown!Main \/ Shown!Monitor))
    /\ WF_shownVars(Does("shown") /\ Shown!Client)
    /\ WF_sensorVars(Does("sensors") /\ Sensors!Task)
    /\ WF_framingVars(Does("framing") /\ Framing!Serve)
    /\ WF_screenVars(Does("screen") /\ Screen!Animate)
    /\ WF_screenVars(Does("screen") /\ Screen!PushStreaming)
    /\ WF_lightVars(Does("light") /\ Light!Start)
    /\ WF_lightVars(Does("light") /\ Light!Poll)
    /\ \A task \in Writers : SF_screenVars(Does("screen") /\ Screen!Write(task))
    /\ SF_deviceVars(\/ /\ Does("screen") /\ DeviceNext
                        /\ Screen!Tick /\ uiBlink' = BlinkDur
                     \/ /\ Does("shown") /\ DeviceNext
                        /\ Shown!Main /\ "airplay" \notin devUp /\ "airplay" \in devUp')

DeviceSpec == DeviceInit /\ [][DeviceNext]_deviceVars /\ DeviceFairness

-----------------------------------------------------------------------------
(* Properties: each conjunct is stated, and explained, in the part's module. *)

\* What every state of a request to the cloud, and of the settings it uses,
\* satisfies.
CloudSafe ==
    /\ Does("reply") => /\ Reply!TypeOK /\ Reply!ShortLinesKept
                        /\ Reply!ReplyInOrder /\ Reply!ErrorNotPlayed
    /\ Does("upload") => /\ Upload!TypeOK /\ Upload!ClientReusable
                         /\ Upload!OnlyPostLeaks /\ Upload!LittleHeldWhilePlaying
    /\ Does("boot") => Boot!TypeOK /\ Boot!StoredPaired /\ Boot!KeyReady

\* What every state of the other parts satisfies.
DeviceSafe ==
    /\ Does("ring") => TypeOK /\ AvailNeverOverstates
    /\ Does("wifi") => Wifi!TypeOK /\ (~Refuses => Wifi!SomethingUnderWay)
    /\ Does("shown") => Shown!TypeOK
    /\ Does("sensors") => Sensors!TypeOK /\ Sensors!NoStrayDevice
    /\ Does("reminder") => Reminder!TypeOK
    /\ Does("framing") => Framing!TypeOK /\ Framing!InOrder /\ Framing!InSync
    /\ Does("screen") => Screen!TypeOK /\ Screen!LookAgrees
    /\ Does("light") => Light!TypeOK

\* What no step of the reminders may do.
RemindersKept == [][Does("reminder") => Reminder!ForgetsNone /\ Reminder!RepeatsDeferred]_deviceVars

\* What comes to be for good, if what it depends on stays: what is shown of a
\* session follows it, the Wi-Fi comes back and so do the samples, the requests
\* are answered, the face and the back light are right.  A part without a choice
\* of cases has its claim under "lost".
Lasts(c) == \/ Does("shown") /\ Shown!Lasts(c)
            \/ /\ c = "lost"
               /\ \/ Does("wifi") /\ Wifi!Started /\ apThere.up
                  \/ Does("sensors") /\ Sensors!InPlace
                  \/ Does("framing") \/ Does("screen") \/ Does("light")
Comes(c) == \/ Does("shown") /\ Shown!Known(c)
            \/ Does("wifi") /\ wifiState.connected
            \/ Does("sensors") /\ envData.fresh
            \/ Does("framing") /\ Framing!Answered
            \/ Does("screen") /\ Screen!Faithful
            \/ Does("light") /\ Light!Follows

\* And the eyes do not stay shut after a blink.
DeviceLive == /\ \A c \in Shown!Cases : <>[]Lasts(c) => <>[]Comes(c)
              /\ []<>(Does("screen") => Screen!PupilsDrawn)
=============================================================================
