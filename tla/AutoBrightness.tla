----------------------------- MODULE AutoBrightness -----------------------------
(***************************************************************************)
(* The brightness of the screen (auto_brightness.c, ltr553.c): a light     *)
(* sensor that may fail at start, be not ready or not answer, a smoothed   *)
(* wish, and a back light that is set only for a difference one can see.   *)
(* The stop and the manual override have no callers and are left out.      *)
(***************************************************************************)
EXTENDS Integers, FiniteSetsExt

CONSTANTS Lights,      \* readings of channel 0
          MaxChanges,  \* bound: times the light changes
          StartFails   \* may the start fail?

VARIABLES
  abLight,    \* [als, moves]: the light
  abSensor,   \* s_dev: "none", "added" or "active"
  abRunning,  \* "no", "starting", "yes" or "failed"
  abCurrent,  \* s_current_brightness
  abApplied   \* s_last_applied, what the back light shows

abVars == <<abLight, abSensor, abRunning, abCurrent, abApplied>>

Unset == -1

Init == /\ abLight \in {[als |-> a, moves |-> 0] : a \in Lights}
        /\ abSensor = "none" /\ abRunning = "no"
        /\ abCurrent = Unset /\ abApplied = Unset

-----------------------------------------------------------------------------
(* als_to_brightness.                                                      *)

\* The largest reading, of 16 bits.
MaxLight == 65535

\* s_segments: the readings up to .to ask for .low to .high percent.
Segments == << [to |-> 5,        low |-> 5,  high |-> 20],
               [to |-> 30,       low |-> 20, high |-> 40],
               [to |-> 100,      low |-> 40, high |-> 60],
               [to |-> 300,      low |-> 60, high |-> 80],
               [to |-> 800,      low |-> 80, high |-> 95],
               [to |-> MaxLight, low |-> 95, high |-> 100] >>

Within(i, als) == Segments[i].low +
    ((als - Segments[i - 1].to) * (Segments[i].high - Segments[i].low)) \div (Segments[i].to - Segments[i - 1].to)

Brightness(als) ==
    LET i == Min({k \in DOMAIN Segments : als <= Segments[k].to})
    IN  IF i = 1 THEN Segments[1].low ELSE Within(i, als)

-----------------------------------------------------------------------------
(* auto_brightness_start, called once; the device of a sensor whose light  *)
(* channel cannot be enabled stays on the bus.                             *)

Start == /\ abRunning = "no"
         /\ \/ abRunning' = "yes" /\ abSensor' = "active"
            \/ StartFails /\ abRunning' = "failed" /\ abSensor' \in {"none", "added"}
         /\ UNCHANGED <<abLight, abCurrent, abApplied>>

Move(a) == /\ abLight.moves < MaxChanges /\ a # abLight.als
           /\ abLight' = [als |-> a, moves |-> abLight.moves + 1]
           /\ UNCHANGED <<abSensor, abRunning, abCurrent, abApplied>>

\* Mutant: the old brightness weighs once more than it is divided by.
MutSmoothed(target) == (abCurrent + target) \div 3

Smoothed(target) == IF abCurrent < 0 THEN target ELSE (abCurrent + target) \div 2

Difference(a, b) == IF a > b THEN a - b ELSE b - a

\* Mutant: a change is seen from the old wish to the new one.
MutSeen(b) == abApplied < 0 \/ Difference(b, abCurrent) >= 2

\* BRIGHTNESS_HYSTERESIS.
Seen(b) == abApplied < 0 \/ Difference(b, abApplied) >= 2

\* A round of auto_brightness_task that reads the sensor; a back light that is not
\* set is tried again in the next round.
Poll == /\ abRunning = "yes"
        /\ abCurrent' = Smoothed(Brightness(abLight.als))
        /\ abApplied' = IF Seen(abCurrent') THEN abCurrent' ELSE abApplied
        /\ UNCHANGED <<abLight, abSensor, abRunning>>

PollUnset == /\ abRunning = "yes"
             /\ abCurrent' = Smoothed(Brightness(abLight.als))
             /\ Seen(abCurrent')
             /\ UNCHANGED <<abLight, abSensor, abRunning, abApplied>>

\* A sensor that is not ready or does not answer: only time passes.
Next == Start \/ Poll \/ PollUnset \/ \E a \in Lights : Move(a)

Spec == /\ Init /\ [][Next]_abVars
        /\ WF_abVars(Start) /\ WF_abVars(Poll)

-----------------------------------------------------------------------------
(* Properties.                                                             *)

\* The brightness stays between those that some light asks for.
TypeOK == /\ abLight.als \in Lights
          /\ \A b \in {abCurrent, abApplied} \ {Unset} :
                \E a, c \in Lights : Brightness(a) <= b /\ b <= Brightness(c)
          /\ (abRunning = "yes") = (abSensor = "active")

\* Light that stays is answered: rounding and the hysteresis leave the back light
\* within two percent of what it asks for.
Follows == abRunning = "yes" => Difference(abApplied, Brightness(abLight.als)) <= 2
LightFollowed == <>[]Follows

\* The table asks for a brightness that grows with the light in small steps.
NoJump == \A a \in Lights : a + 1 \in Lights => Brightness(a + 1) - Brightness(a) <= 2

=============================================================================
