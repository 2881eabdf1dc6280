-------------------------------- MODULE ScreenUi --------------------------------
(***************************************************************************)
(* The face on the screen (screen_ui.c): the tasks that report the state   *)
(* of the voice and of the receiver, which write the shared record without *)
(* the display lock and the colours under it, and the animation timer of   *)
(* the LVGL task, which holds the lock and draws only when it has to.      *)
(***************************************************************************)
EXTENDS Integers, FiniteSets

CONSTANTS Writers,    \* tasks that call screen_ui_set_voice_state
          Voices,     \* states they report
          BlinkDur,   \* PF_BLINK_DUR
          MaxCalls,   \* bound on the calls
          Timeouts    \* may the 80 ms for the display lock run out?

VARIABLES
  uiVoice,    \* voice_state
  uiShown,    \* of the receiver: [dot: does its state call for the dot?, streaming]
  uiDirty,    \* render_dirty
  uiLast,     \* last_voice_state and last_streaming
  uiBlink,    \* blink_timer while blinking, else 0
  uiColour,   \* the state whose colours are set
  uiButton,   \* the state the microphone button was painted for
  uiImage,    \* what the canvas shows; open is cur_eye_open, in percent
  uiAnim,     \* the timer callback: "idle", "draw", "clear"
  uiCalls,    \* writer -> where it is and the state it reports
  uiPush,     \* screen_ui_set_state: "idle" or the streaming flag it is to store
  uiDone      \* calls so far

uiVars == <<uiVoice, uiShown, uiDirty, uiLast, uiBlink, uiColour, uiButton, uiImage,
            uiAnim, uiCalls, uiPush, uiDone>>

Locked == uiAnim # "idle"

\* The dot is drawn while nobody talks.
Dot(voice, shown) == voice \in {"off", "standby"} /\ shown.dot

Init == /\ uiVoice = "off" /\ uiShown = [dot |-> FALSE, streaming |-> FALSE]
        /\ uiDirty = TRUE
        /\ uiLast = [voice |-> "off", streaming |-> FALSE]
        /\ uiBlink = 0
        /\ uiColour = "standby" /\ uiButton = "standby"
        /\ uiImage = [voice |-> "none", colour |-> "none", dot |-> FALSE, open |-> 100]
        /\ uiAnim = "idle"
        /\ uiCalls = [w \in Writers |-> [at |-> "idle", voice |-> "off"]]
        /\ uiPush = "idle" /\ uiDone = 0

-----------------------------------------------------------------------------
(* screen_ui_set_voice_state.                                              *)

\* Mutant: the face goes off with the voice.
MutAsVisible(voice) == voice

\* OFF is shown as STANDBY.
AsVisible(voice) == IF voice = "off" THEN "standby" ELSE voice

Goto(w, at) == uiCalls' = [uiCalls EXCEPT ![w].at = at]

Report(w, voice) ==
    /\ uiCalls[w].at = "idle" /\ uiDone < MaxCalls
    /\ uiVoice' = AsVisible(voice)
    /\ uiCalls' = [uiCalls EXCEPT ![w] =
                      [at |-> IF uiVoice = AsVisible(voice) THEN "lock" ELSE "dirty",
                       voice |-> AsVisible(voice)]]
    /\ uiDone' = uiDone + 1
    /\ UNCHANGED <<uiShown, uiDirty, uiLast, uiBlink, uiColour, uiButton, uiImage,
                   uiAnim, uiPush>>

MarkDirty(w) == /\ uiCalls[w].at = "dirty"
                /\ uiDirty' = TRUE
                /\ Goto(w, "lock")
                /\ UNCHANGED <<uiVoice, uiShown, uiLast, uiBlink, uiColour, uiButton,
                               uiImage, uiAnim, uiPush, uiDone>>

\* set_colors_for_state and update_mic_button_state, with the states they leave out.
Coloured(voice) == IF voice \in {"error", "off"} THEN uiColour ELSE voice
Pressed(voice) == IF voice = "off" THEN uiButton ELSE voice

Paint(w) == /\ uiCalls[w].at = "lock" /\ ~Locked
            /\ uiColour' = Coloured(uiCalls[w].voice)
            /\ uiButton' = Pressed(uiCalls[w].voice)
            /\ Goto(w, "idle")
            /\ UNCHANGED <<uiVoice, uiShown, uiDirty, uiLast, uiBlink, uiImage, uiAnim,
                           uiPush, uiDone>>

LockTimeout(w) == /\ uiCalls[w].at = "lock" /\ Locked /\ Timeouts
                  /\ Goto(w, "idle")
                  /\ UNCHANGED <<uiVoice, uiShown, uiDirty, uiLast, uiBlink, uiColour,
                                 uiButton, uiImage, uiAnim, uiPush, uiDone>>

-----------------------------------------------------------------------------
(* screen_ui_set_state: a new state alone does not ask for a frame.        *)

PushState(dot, streaming) ==
    /\ uiPush = "idle" /\ uiDone < MaxCalls
    /\ uiShown' = [uiShown EXCEPT !.dot = dot]
    /\ uiPush' = IF uiShown.streaming = streaming THEN "idle" ELSE "store"
    /\ uiDone' = uiDone + 1
    /\ UNCHANGED <<uiVoice, uiDirty, uiLast, uiBlink, uiColour, uiButton, uiImage,
                   uiAnim, uiCalls>>

PushStreaming == /\ uiPush = "store"
                 /\ uiShown' = [uiShown EXCEPT !.streaming = ~@]
                 /\ uiDirty' = TRUE
                 /\ uiPush' = "idle"
                 /\ UNCHANGED <<uiVoice, uiLast, uiBlink, uiColour, uiButton, uiImage,
                                uiAnim, uiCalls, uiDone>>

-----------------------------------------------------------------------------
(* anim_timer_cb.                                                          *)

\* Mutant: the end of a blink does not ask for a frame.
MutOpenAgain == uiBlink' = uiBlink - 1 /\ UNCHANGED uiDirty

OpenAgain == /\ uiBlink' = uiBlink - 1
             /\ uiDirty' = (uiDirty \/ uiBlink = 1)

\* Mutant: the face does not blink.
MutBlinkStep == UNCHANGED <<uiBlink, uiDirty>>

\* A blink begins with a chance of 1/256, or 4/256, a frame.
BlinkStep == \/ uiBlink > 0 /\ OpenAgain
             \/ uiBlink = 0 /\ uiBlink' = BlinkDur /\ uiDirty' = TRUE
             \/ uiBlink = 0 /\ UNCHANGED <<uiBlink, uiDirty>>

Seen == [voice |-> uiVoice, streaming |-> uiShown.streaming]

Needed == uiLast # Seen \/ uiDirty' \/ uiBlink' > 0 \/ uiVoice = "thinking"

Tick == /\ ~Locked
        /\ BlinkStep
        /\ uiLast' = Seen
        /\ uiAnim' = IF Needed THEN "draw" ELSE "idle"
        /\ UNCHANGED <<uiVoice, uiShown, uiColour, uiButton, uiImage, uiCalls, uiPush,
                       uiDone>>

\* The eyes go 3/10 of the way to where they are to be, once a frame.
Wide(voice) == CASE voice = "standby" -> 40 [] voice = "error" -> 30 [] OTHER -> 100
TargetEye == IF uiBlink > 0 THEN 5 ELSE Wide(uiVoice)
EyeOpen == uiImage.open + ((TargetEye - uiImage.open) * 3) \div 10

\* The interpolation, and render_pixel_face.
Draw == /\ uiAnim = "draw"
        /\ uiImage' = [voice |-> uiVoice, colour |-> uiColour, dot |-> Dot(uiVoice, uiShown),
                       open |-> EyeOpen]
        /\ uiAnim' = "clear"
        /\ UNCHANGED <<uiVoice, uiShown, uiDirty, uiLast, uiBlink, uiColour, uiButton, uiCalls,
                       uiPush, uiDone>>

Clear == /\ uiAnim = "clear"
         /\ uiDirty' = FALSE
         /\ uiAnim' = "idle"
         /\ UNCHANGED <<uiVoice, uiShown, uiLast, uiBlink, uiColour, uiButton, uiImage,
                        uiCalls, uiPush, uiDone>>

Write(w) == MarkDirty(w) \/ Paint(w) \/ LockTimeout(w)

Animate == Tick \/ Draw \/ Clear

Next == \/ Animate \/ PushStreaming
        \/ \E w \in Writers : Write(w) \/ \E voice \in Voices : Report(w, voice)
        \/ \E dot, streaming \in BOOLEAN : (streaming => dot) /\ PushState(dot, streaming)

\* A blink that may begin again and again does begin.
Spec == /\ Init /\ [][Next]_uiVars
        /\ WF_uiVars(Animate) /\ WF_uiVars(PushStreaming)
        /\ SF_uiVars(Tick /\ uiBlink' = BlinkDur)
        /\ \A w \in Writers : SF_uiVars(Write(w))

-----------------------------------------------------------------------------
(* Properties.                                                             *)

Quiet == \A w \in Writers : uiCalls[w].at = "idle"

TypeOK == /\ uiVoice \in Voices \cup {"off"} /\ (uiVoice = "off" => Quiet) /\ uiColour \in Voices \ {"error", "off"}
          /\ uiButton \in Voices \ {"off"}
          /\ uiBlink \in 0..BlinkDur
          /\ uiAnim \in {"idle", "draw", "clear"} /\ uiPush \in {"idle", "store"}
          /\ \A w \in Writers : uiCalls[w].at \in {"idle", "dirty", "lock"}

\* The face comes to show the last state of the voice and of the receiver, and the
\* colours that are set, whatever the timer erased while the writers wrote.
Faithful == /\ uiImage.voice = uiVoice /\ uiImage.colour = uiColour
            /\ uiImage.dot = Dot(uiVoice, uiShown)
FaceFollows == <>[]Faithful

\* The eyes do not stay shut after a blink: the pupils are drawn again.  Not with
\* an error, when the one frame after a blink that is drawn does not get so far.
PupilsDrawn == uiImage.open >= 15 \/ uiVoice = "error"
EyesOpenAgain == []<>PupilsDrawn

\* One task that always gets the lock leaves a button and colours that fit the state.
LookAgrees == (Cardinality(Writers) = 1 /\ ~Timeouts /\ Quiet) =>
    /\ uiButton = IF uiVoice = "off" THEN "standby" ELSE uiVoice
    /\ uiVoice \notin {"off", "error"} => uiColour = uiVoice

\* Several tasks, or a lock that is not got in 80 ms, do as well.
LookAlwaysAgrees == Quiet /\ uiVoice \notin {"off", "error"} => uiColour = uiVoice

\* While no frame is asked for, the face shows what it should.
NoStaleFace == (Quiet /\ uiPush = "idle" /\ uiAnim = "idle" /\ ~uiDirty /\ uiLast = Seen) =>
                  /\ uiImage.colour = uiColour
                  /\ uiImage.dot = Dot(uiVoice, uiShown)

=============================================================================
