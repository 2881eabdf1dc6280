------------------------------ MODULE MCDevice ------------------------------
(***************************************************************************)
(* TLC instance of Device, twice: without faults, and the parts that meet  *)
(* any with all of them at once.  The initial state chooses; job is "none" *)
(* in the second and faulty in the first.                                  *)
(***************************************************************************)
EXTENDS Device

CONSTANTS writer, other

VARIABLE faulty  \* the part that was chosen with its faults, or "none"

MCParts == {"ring", "reply", "upload", "boot", "wifi", "shown", "sensors", "reminder",
            "framing", "screen", "light"}

AudioLine(length, header, samples) ==
    [kind |-> "audio", len |-> length, riff |-> header, pcm |-> samples, word |-> "none"]
TextLine(spoken) ==
    [kind |-> "text", len |-> 1, riff |-> FALSE, pcm |-> 0, word |-> spoken]
OtherLine(kind, length) ==
    [kind |-> kind, len |-> length, riff |-> FALSE, pcm |-> 0, word |-> "none"]

\* Lines below, at and above half of the largest buffer; a header alone and with
\* samples; more samples than a reply may have.
MCEvents == {AudioLine(2, TRUE, 0), AudioLine(3, TRUE, 1), AudioLine(3, FALSE, 2),
             AudioLine(5, FALSE, 1), AudioLine(8, FALSE, 1), OtherLine("error", 1),
             OtherLine("other", 6), TextLine("up"), TextLine("down"),
             TextLine("mute"), TextLine("none")}

\* Three firmwares, the second without a key.
MCBuilds == <<{"wifi", "url", "model", "key"}, {"wifi", "url", "model"},
              {"wifi", "url", "model", "key"}>>

\* Every issue may arise, and the temperature linger within its hysteresis.
MCReadings == [temp : {-2, -1, 1, 2}, humid : {-2, 0}, air : {0, 2}]

\* With the faults the second firmware has no Wi-Fi, and the face two writers.
Faulty == INSTANCE Device
    WITH job <- faulty,
         Parts <- {"boot", "wifi", "shown", "sensors", "framing", "screen", "light"},
         Builds <- <<{"wifi", "url", "model", "key"}, {"url", "model"}>>, MaxBoots <- 2,
         Fails <- TRUE, Reminders <- TRUE, Refuses <- TRUE, Faults <- {"voice fails"},
         AddFails <- TRUE, MaxRequests <- 2, AllocFails <- TRUE, Writers <- {writer, other},
         Voices <- {"off", "standby", "error"}, BlinkDur <- 1, MaxCalls <- 1, Timeouts <- TRUE,
         Lights <- {0, 1000}, MaxChanges <- 1, StartFails <- TRUE

\* The second instance is one DeviceProofs is about.
ASSUME FaultyAssumption ==
    /\ Faulty!LinesAssumption /\ Faulty!BuildsAssumption /\ Faulty!ReadingsAssumption
    /\ Faulty!SizesAssumption /\ Faulty!FaceAssumption /\ Faulty!LightsAssumption

MCInit == \/ DeviceInit /\ faulty = "none"
          \/ Faulty!DeviceInit /\ job = "none"

MCNext == \/ job # "none" /\ DeviceNext /\ UNCHANGED faulty
          \/ faulty # "none" /\ Faulty!DeviceNext /\ UNCHANGED job

MCSpec == MCInit /\ [][MCNext]_<<deviceVars, faulty>> /\ DeviceFairness

\* What CloudSafe and DeviceSafe leave of their claims with every fault of the
\* boot, wifi.c, env_monitor.c, rtsp_server.c, screen_ui.c and auto_brightness.c.
FaultsSafe == Faulty!CloudSafe /\ Faulty!DeviceSafe
=============================================================================
