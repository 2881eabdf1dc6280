------------------------------ MODULE EnvSensors ------------------------------
(***************************************************************************)
(* The two sensors of the environment monitor (env_monitor.c): how its     *)
(* task finds them on one of two I2C buses, sets them up and samples them, *)
(* while the unit that carries them is pulled out and put back and the bus *)
(* is disturbed.  The arithmetic of the readings is left out.              *)
(***************************************************************************)
EXTENDS Integers, FiniteSets

CONSTANTS MaxMoves,  \* bound: times the unit is plugged or unplugged
          AddFails   \* may i2c_master_bus_add_device run out of memory?

VARIABLES
  envUnit,  \* [at, noisy, moves, awake]: where the unit is; is it set to measure?
  envHw,    \* s_hw: valid, sensor_bus, and on which bus each device was added
  envAt,    \* what the task does next
  envData   \* [count, fresh]: devices on the buses; is the last sample a reading?

sensorVars == <<envUnit, envHw, envAt, envData>>

Buses == {"inner", "grove"}
Both == {"sht", "qmp"}

Init == /\ envUnit \in [at : Buses \cup {"away"}, noisy : {FALSE}, moves : {0},
                        awake : {FALSE}]
        /\ envHw = [valid |-> FALSE, bus |-> "inner", sht |-> "none", qmp |-> "none"]
        /\ envAt = "probe"
        /\ envData = [count |-> 0, fresh |-> FALSE]

\* Who answers on a bus: a disturbed bus may lose any answer.
Acks(bus) == LET there == IF envUnit.at = bus THEN Both ELSE {}
             IN  IF envUnit.noisy THEN SUBSET there ELSE {there}

\* A transfer to a device that was added on a bus.  Nobody's acknowledgement
\* is ESP_ERR_INVALID_STATE; a disturbed bus fails in any way.
Transfer(bus) == CASE envUnit.noisy -> {"ok", "state", "fail"} \ (IF envUnit.at = bus THEN {} ELSE {"ok"})
                   [] envUnit.at = bus -> {"ok"}
                   [] OTHER -> {"state"}

-----------------------------------------------------------------------------
\* env_hw_init asks on the inner bus, then on the Grove port: what answers
\* there decides, unless nothing does.
Found(inner, grove) == IF inner # Both /\ grove # {} THEN grove ELSE inner

Probe ==
    /\ envAt = "probe"
    /\ \E inner \in Acks("inner"), grove \in Acks("grove") \cup (IF envUnit.noisy THEN {{}} ELSE {}) :
           /\ envHw' = [envHw EXCEPT !.bus = IF inner # Both /\ grove # {}
                                             THEN "grove" ELSE "inner"]
           /\ envAt' = IF Found(inner, grove) = Both THEN "sht.add" ELSE "probe"
    /\ UNCHANGED <<envUnit, envData>>

\* The handle of an earlier attempt is kept, on whichever bus it was.
AddSht == /\ envAt = "sht.add"
          /\ \/ /\ envHw.sht # "none"
                /\ envAt' = "sht"
                /\ UNCHANGED <<envHw, envData>>
             \/ /\ envHw.sht = "none"
                /\ envHw' = [envHw EXCEPT !.sht = envHw.bus]
                /\ envData' = [envData EXCEPT !.count = @ + 1]
                /\ envAt' = "sht"
             \/ /\ envHw.sht = "none" /\ AddFails
                /\ envAt' = "probe"
                /\ UNCHANGED <<envHw, envData>>
          /\ UNCHANGED envUnit

\* A sample that fails: back to the probe, or to the next sample.
Failed == IF envHw.valid THEN "sample" ELSE "probe"

\* env_sht30_sample: a command, a read that is tried again while it is not ready.
ShtOk == /\ envAt = "sht" /\ envHw.sht # "none" /\ "ok" \in Transfer(envHw.sht)
         /\ envAt' = IF envHw.valid THEN "qmp" ELSE "qmp.add"
         /\ UNCHANGED <<envUnit, envHw, envData>>

ShtFails == /\ envAt = "sht"
            /\ envHw.sht = "none" \/ "fail" \in Transfer(envHw.sht)
            /\ envAt' = Failed
            /\ envData' = [envData EXCEPT !.fresh = FALSE]
            /\ UNCHANGED <<envUnit, envHw>>

\* Mutant: the device is added again on the inner bus.
MutReAdd == [envHw EXCEPT !.sht = "inner"]

ReAdd == [envHw EXCEPT !.sht = envHw.bus]

\* An invalid state resets the device, and the sample starts over without a bound.
ShtReset == /\ envAt = "sht" /\ envHw.sht # "none" /\ "state" \in Transfer(envHw.sht)
            /\ \/ envHw' = ReAdd /\ UNCHANGED <<envAt, envData>>
               \/ /\ AddFails
                  /\ envHw' = [envHw EXCEPT !.sht = "none"]
                  /\ envAt' = Failed
                  /\ envData' = [count |-> envData.count - 1, fresh |-> FALSE]
            /\ UNCHANGED envUnit

\* Mutant: a device with a wrong chip id stays on the bus.
MutBadQmp == /\ envData' = [envData EXCEPT !.count = @ + 1] /\ UNCHANGED envHw

\* env_qmp_try_addr: whatever fails after the device was added removes it.
BadQmp == UNCHANGED <<envHw, envData>>

AddQmp == /\ envAt = "qmp.add"
          /\ \/ /\ "ok" \in Transfer(envHw.bus)
                /\ envHw' = [envHw EXCEPT !.qmp = envHw.bus, !.valid = TRUE]
                /\ envUnit' = [envUnit EXCEPT !.awake = TRUE]
                /\ envData' = [envData EXCEPT !.count = @ + 1]
                /\ envAt' = "sample"
             \/ /\ AddFails \/ Transfer(envHw.bus) # {"ok"}
                /\ BadQmp
                /\ envAt' = "probe"
                /\ UNCHANGED envUnit

\* The loop of the task once the sensors are set up: it never looks again
\* whether they are where they were found.
NextSample == /\ envAt = "sample"
              /\ envAt' = "sht"
              /\ UNCHANGED <<envUnit, envHw, envData>>

QmpRead == /\ envAt = "qmp"
           /\ \E answer \in Transfer(envHw.qmp) :
                  envData' = [envData EXCEPT !.fresh = answer = "ok"]
           /\ envAt' = "sample"
           /\ UNCHANGED <<envUnit, envHw>>

-----------------------------------------------------------------------------
\* The unit: it starts asleep when it gets power.
Move == /\ envUnit.moves < MaxMoves
        /\ \E at \in (Buses \cup {"away"}) \ {envUnit.at} :
               envUnit' = [envUnit EXCEPT !.at = at, !.awake = FALSE, !.moves = @ + 1]
        /\ UNCHANGED <<envHw, envAt, envData>>

Noise == /\ envUnit' = [envUnit EXCEPT !.noisy = ~@]
         /\ UNCHANGED <<envHw, envAt, envData>>

Task == Probe \/ AddSht \/ ShtOk \/ ShtFails \/ ShtReset \/ AddQmp \/ NextSample \/ QmpRead

Next == Task \/ Move \/ Noise

Spec == Init /\ [][Next]_sensorVars /\ WF_sensorVars(Task)

-----------------------------------------------------------------------------
(* Properties.                                                             *)

TypeOK == /\ envHw \in [valid : BOOLEAN, bus : Buses, sht : Buses \cup {"none"},
                        qmp : Buses \cup {"none"}]
          /\ envHw.valid <=> envHw.qmp # "none"
          /\ envHw.valid => envAt \in {"sample", "sht", "qmp"}
          /\ envUnit.moves \in 0..MaxMoves

\* Devices are added and removed on every way through the set-up and the
\* resets: none is left behind on a bus, however often they repeat.
NoStrayDevice ==
    envData.count = Cardinality({d \in {"sht", "qmp"} : envHw[d] # "none"})

\* The samples come back: a unit that ends up on a quiet bus, on the one it was
\* last found on unless the task still looks for it, is sampled again and again,
\* wherever it was before and whatever was disturbed.
InPlace == /\ ~envUnit.noisy
           /\ envUnit.at \in (IF envAt = "probe" THEN Buses ELSE {envHw.bus})
SamplesResume == <>[]InPlace => <>[]envData.fresh

\* env_monitor_get_latest answers with the reading of the last sample.
ReadingFresh == envHw.valid => envData.fresh

\* A pressure is read from a sensor that was set to measure.
PressureAwake == (envData.fresh /\ envUnit.at # "away") => envUnit.awake

=============================================================================
