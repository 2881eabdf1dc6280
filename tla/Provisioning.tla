------------------------------ MODULE Provisioning ------------------------------
(***************************************************************************)
(* What the device knows after a boot: the credentials and the voice       *)
(* configuration in flash, those the firmware was compiled with, the       *)
(* copies in memory, and the one the voice controller takes (app_core.c,   *)
(* settings.c, wifi_credentials.c, wifi.c, voice_controller.c).  A boot    *)
(* may end at any step, and the next may run another firmware.             *)
(*                                                                         *)
(* A value is the firmware it was compiled into.  nvs_set_str is taken to  *)
(* have written when it returns.                                           *)
(***************************************************************************)
EXTENDS Integers

CONSTANTS Builds,     \* firmware -> what it defines: "wifi" and voice fields
          MaxBoots,   \* bound
          Fails,      \* may the flash refuse a write or be full?
          Reminders   \* may the environment monitor speak before the voice starts?

Firmware == DOMAIN Builds
Fields == {"ssid", "pass", "url", "model", "key"}
VoiceFields == {"url", "model", "key"}
None == 0

VARIABLES
  pvBuild,   \* the firmware that runs
  pvFlash,   \* field -> value
  pvRam,     \* of settings.c, field -> value
  pvLoaded,  \* s_voice_loaded
  pvAt,      \* the next step of the boot
  pvWifi,    \* the credentials the station was given
  pvConfig,  \* s_config of realtime_voice.c
  pvCtrl,    \* the controller's, [init, config]
  pvBoots

pvVars == <<pvBuild, pvFlash, pvRam, pvLoaded, pvAt, pvWifi, pvConfig, pvCtrl, pvBoots>>

Empty == [f \in VoiceFields |-> None]
NoWifi == [ssid |-> None, pass |-> None]
NoCtrl == [init |-> FALSE, config |-> Empty]

\* What the running firmware was compiled with.
Compiled(f) == IF f \in Builds[pvBuild] THEN pvBuild ELSE None
HasWifi == "wifi" \in Builds[pvBuild]

Fresh == /\ pvRam' = Empty /\ pvLoaded' = FALSE
         /\ pvWifi' = NoWifi /\ pvConfig' = Empty /\ pvCtrl' = NoCtrl

Init == /\ pvBuild \in Firmware
        /\ pvFlash = [f \in Fields |-> None]
        /\ pvRam = Empty /\ pvLoaded = FALSE
        /\ pvAt = "nvs"
        /\ pvWifi = NoWifi /\ pvConfig = Empty /\ pvCtrl = NoCtrl
        /\ pvBoots = 1

\* The power goes, and a firmware starts.
Reboot(b) == /\ pvBoots < MaxBoots
             /\ pvBoots' = pvBoots + 1
             /\ pvBuild' = b
             /\ pvAt' = "nvs"
             /\ Fresh
             /\ UNCHANGED pvFlash

-----------------------------------------------------------------------------
(* init_nvs and settings_init.                                             *)

InitNvs == /\ pvAt = "nvs"
           /\ \/ UNCHANGED pvFlash
              \/ Fails /\ pvFlash' = [f \in Fields |-> None]
           /\ pvAt' = "settings"
           /\ UNCHANGED <<pvBuild, pvRam, pvLoaded, pvWifi, pvConfig, pvCtrl, pvBoots>>

\* Mutant: the key is not read back.
MutStored(f) == IF f = "key" THEN None ELSE pvFlash[f]

Stored(f) == pvFlash[f]

InitSettings == /\ pvAt = "settings"
                /\ pvRam' = [f \in VoiceFields |-> Stored(f)]
                /\ pvLoaded' = \E f \in VoiceFields : Stored(f) # None
                /\ pvAt' = IF pvLoaded' THEN "compare" ELSE "url"
                /\ UNCHANGED <<pvBuild, pvFlash, pvWifi, pvConfig, pvCtrl, pvBoots>>

-----------------------------------------------------------------------------
(* provision_voice_config_if_needed: one field after another.              *)

After(f) == CASE f = "url" -> "model" [] f = "model" -> "key" [] f = "key" -> "compare"

\* Mutant: a field that is set does not count as a configuration.
MutSetVoice(f, v) == /\ pvRam' = [pvRam EXCEPT ![f] = v]
                     /\ UNCHANGED pvLoaded
                     /\ pvFlash' = [pvFlash EXCEPT ![f] = v]

\* settings_set_voice_url and the others: memory first.
SetVoice(f, v) == /\ pvRam' = [pvRam EXCEPT ![f] = v]
                  /\ pvLoaded' = TRUE
                  /\ \/ pvFlash' = [pvFlash EXCEPT ![f] = v]
                     \/ Fails /\ UNCHANGED pvFlash

Seed(f) == /\ pvAt = f
           /\ IF Compiled(f) # None THEN SetVoice(f, Compiled(f))
              ELSE UNCHANGED <<pvRam, pvLoaded, pvFlash>>
           /\ pvAt' = After(f)
           /\ UNCHANGED <<pvBuild, pvWifi, pvConfig, pvCtrl, pvBoots>>

-----------------------------------------------------------------------------
(* provision_wifi_credentials_if_needed and wifi_creds_save.               *)

\* Mutant: the password is not compared.
MutSame == pvFlash["ssid"] = pvBuild

Same == pvFlash["ssid"] = pvBuild /\ pvFlash["pass"] = pvBuild

Compare == /\ pvAt = "compare"
           /\ pvAt' = IF ~HasWifi \/ Same THEN "wifi" ELSE "ssid"
           /\ UNCHANGED <<pvBuild, pvFlash, pvRam, pvLoaded, pvWifi, pvConfig, pvCtrl, pvBoots>>

SaveNext(f) == IF f = "ssid" THEN "pass" ELSE "wifi"

\* A write that fails ends the boot: faulted.
Save(f) == /\ pvAt = f
           /\ \/ /\ pvFlash' = [pvFlash EXCEPT ![f] = pvBuild]
                 /\ pvAt' = SaveNext(f)
              \/ Fails /\ pvAt' = "faulted" /\ UNCHANGED pvFlash
           /\ UNCHANGED <<pvBuild, pvRam, pvLoaded, pvWifi, pvConfig, pvCtrl, pvBoots>>

-----------------------------------------------------------------------------
(* wifi_creds_have and wifi_init_sta, with WIFI_CREDENTIALS_COMPILE_TIME.  *)

Wifi == /\ pvAt = "wifi"
        /\ pvAt' = CASE pvFlash["ssid"] = None -> "idle"
                     [] ~HasWifi               -> "faulted"
                     [] OTHER                  -> "load"
        /\ pvWifi' = IF pvAt' = "load"
                     THEN [ssid |-> pvBuild, pass |-> pvBuild] ELSE NoWifi
        /\ UNCHANGED <<pvBuild, pvFlash, pvRam, pvLoaded, pvConfig, pvCtrl, pvBoots>>

-----------------------------------------------------------------------------
(* load_voice_config and the controller, when there is a network.          *)

\* The compiled model name wins, other fields only stand in for missing ones.
LoadedField(f) == IF (f = "model" \/ pvRam[f] = None) /\ Compiled(f) # None
                  THEN Compiled(f) ELSE pvRam[f]

Load == /\ pvAt = "load"
        /\ pvConfig' = [f \in VoiceFields |-> LoadedField(f)]
        /\ IF Compiled("model") # None THEN SetVoice("model", Compiled("model"))
           ELSE UNCHANGED <<pvRam, pvLoaded, pvFlash>>
        /\ pvAt' = "start"
        /\ UNCHANGED <<pvBuild, pvWifi, pvCtrl, pvBoots>>

\* voice_controller_init: the first call counts, with what it finds in s_config.
Started == IF pvCtrl.init THEN pvCtrl
           ELSE [init |-> TRUE,
                 config |-> [f \in VoiceFields |-> IF pvConfig[f] = None THEN Compiled(f)
                                                   ELSE pvConfig[f]]]

Start == /\ pvAt = "start"
         /\ pvCtrl' = Started
         /\ pvAt' = "up"
         /\ UNCHANGED <<pvBuild, pvFlash, pvRam, pvLoaded, pvWifi, pvConfig, pvBoots>>

\* realtime_voice_speak_text of the environment monitor.
Reminder == /\ Reminders /\ ~pvCtrl.init
            /\ pvCtrl' = Started
            /\ UNCHANGED <<pvBuild, pvFlash, pvRam, pvLoaded, pvAt, pvWifi, pvConfig, pvBoots>>

Boot == \/ InitNvs \/ InitSettings \/ Compare \/ Wifi \/ Load \/ Start
        \/ \E f \in VoiceFields : Seed(f)
        \/ \E f \in {"ssid", "pass"} : Save(f)
Next == Boot \/ Reminder \/ \E b \in Firmware : Reboot(b)

Spec == Init /\ [][Next]_pvVars

-----------------------------------------------------------------------------
(* Properties.                                                             *)

TypeOK == /\ pvBuild \in Firmware
          /\ pvFlash \in [Fields -> Firmware \cup {None}]
          /\ pvRam \in [VoiceFields -> Firmware \cup {None}]
          /\ pvLoaded = (\E f \in VoiceFields : pvRam[f] # None)

\* Wherever earlier boots ended, once the station has credentials the flash holds
\* the same ones, a name and its password.
StoredPaired == pvWifi.ssid # None => pvFlash["ssid"] = pvWifi.ssid
                                      /\ pvFlash["pass"] = pvWifi.pass

\* The voice uses the stored key, else the compiled one, although the flash is not
\* seeded again after a boot that ended on the way.
KeyReady == (pvAt = "up" /\ ~Reminders) =>
    pvCtrl.config["key"] = IF pvFlash["key"] # None THEN pvFlash["key"] ELSE Compiled("key")

\* Kconfig.projbuild:17: an empty name uses the credentials stored in flash.
EmptyUsesStored == (pvAt = "faulted" /\ ~Fails) => pvFlash["ssid"] = None

\* The address and the key of the voice are of one firmware.
VoicePaired == pvAt = "up" /\ pvCtrl.config["key"] # None =>
                  pvCtrl.config["url"] = pvCtrl.config["key"]

\* A key in flash reaches the controller.
StoredKeyUsed == pvAt = "up" /\ pvFlash["key"] # None => pvCtrl.config["key"] = pvFlash["key"]

=============================================================================
