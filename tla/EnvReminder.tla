------------------------------ MODULE EnvReminder ------------------------------
(***************************************************************************)
(* What the environment monitor does with its readings (env_monitor.c):    *)
(* thresholds with hysteresis, one reminder for all that is wrong, a       *)
(* reminder put off while the speaker is in use, and the pause between two *)
(* reminders.  A round of the task looks at a pending reminder, samples    *)
(* and decides, and looks at the pending reminder again.                   *)
(*                                                                         *)
(* A reading is the zone it lies in for the season: 2 and -2 are beyond a  *)
(* threshold, 1 and -1 within the hysteresis of it, 0 is well inside.      *)
(*                                                                         *)
(* The monitor is written for a speech that may succeed ("ok"), which the  *)
(* voice controller of this firmware never does: its                       *)
(* voice_controller_speak_text answers "not supported" at best.            *)
(***************************************************************************)
EXTENDS Integers

CONSTANTS Readings,  \* records of the zones of temp, humid and air
          Cooldown,  \* rounds of the pause between reminders (15)
          Answers    \* what a look at the speaker, and realtime_voice_speak_text, give

VARIABLES
  remAt,      \* the next step of the round
  remActive,  \* active_mask of the last sample
  remAge,     \* rounds since last_remind_ms of each issue, up to Cooldown
  remPending, \* pending_mask, empty if no reminder is pending
  remSaid     \* what the last step spoke

remVars == <<remAt, remActive, remAge, remPending, remSaid>>

Issues == {"hot", "dry", "cold", "humid", "pressure"}

\* A last_remind_ms of zero: no reminder yet, so no pause.
Init == /\ remAt = "first"
        /\ remActive = {}
        /\ remAge = [i \in Issues |-> Cooldown]
        /\ remPending = {} /\ remSaid = {}

-----------------------------------------------------------------------------
\* Mutant: the trigger of the heat has no way back.
MutTriggers(r) ==
    {i \in Issues : CASE i = "hot"   -> r.temp = 2 \/ i \in remActive
                      [] i = "cold"  -> r.temp = -2 \/ (i \in remActive /\ r.temp = -1)
                      [] i = "humid" -> r.humid = 2 \/ (i \in remActive /\ r.humid = 1)
                      [] i = "dry"   -> r.humid = -2 \/ (i \in remActive /\ r.humid = -1)
                      [] OTHER       -> r.air = 2}

\* The triggers after a reading.  That of the pressure takes the nominal band
\* for its hysteresis, so it has none.
Triggers(r) ==
    {i \in Issues : CASE i = "hot"   -> r.temp = 2 \/ (i \in remActive /\ r.temp = 1)
                      [] i = "cold"  -> r.temp = -2 \/ (i \in remActive /\ r.temp = -1)
                      [] i = "humid" -> r.humid = 2 \/ (i \in remActive /\ r.humid = 1)
                      [] i = "dry"   -> r.humid = -2 \/ (i \in remActive /\ r.humid = -1)
                      [] OTHER       -> r.air = 2}

Reminded(mask) == [i \in Issues |-> IF i \in mask THEN 0 ELSE remAge[i]]

Quiet == remSaid' = {} /\ UNCHANGED <<remPending, remAge>>

\* Mutant: a reminder is given up when it cannot be spoken.
MutTrySend(answer) == IF answer = "ok" THEN /\ remSaid' = remPending
                                            /\ remAge' = Reminded(remPending)
                                            /\ remPending' = {}
                      ELSE remSaid' = {} /\ remPending' = {} /\ UNCHANGED remAge

\* try_send_pending: only a reminder that was spoken is over.
TrySend(answer) == IF remPending # {} /\ answer = "ok"
                   THEN /\ remSaid' = remPending
                        /\ remAge' = Reminded(remPending)
                        /\ remPending' = {}
                   ELSE Quiet

\* Mutant: an issue in its pause does not hold back the others.
MutCooldownReady(mask) == \E i \in mask : remAge[i] = Cooldown

\* reminder_cooldown_ready: one issue in its pause holds back all the others.
CooldownReady(mask) == \A i \in mask : remAge[i] = Cooldown

\* A speaker in use, or taken between the look and the call.
PutOff(mask) == /\ remPending' = mask
                /\ remAge' = Reminded(mask)
                /\ remSaid' = {}

\* maybe_schedule_reminder.
Schedule(mask, answer) ==
    IF mask = {} THEN Quiet
    ELSE IF remPending # {} THEN remPending' = mask /\ remSaid' = {} /\ UNCHANGED remAge
    ELSE IF ~CooldownReady(mask) THEN Quiet
    ELSE CASE answer \in {"busy", "invalid state"} -> PutOff(mask)
           [] answer = "ok" -> /\ remSaid' = mask
                               /\ remAge' = Reminded(mask)
                               /\ UNCHANGED remPending
           [] OTHER         -> Quiet

-----------------------------------------------------------------------------
First(answer) == /\ remAt = "first"
                 /\ remAt' = "sample"
                 /\ TrySend(answer)
                 /\ UNCHANGED remActive

\* The mask asks the same of the triggers as their update does, so it is the
\* set of those that are active: without an issue there is none left to reset.
Sampled(r, answer) ==
    /\ remAt = "sample"
    /\ remAt' = "last"
    /\ LET mask == Triggers(r)
       IN  /\ Schedule(mask, answer)
           /\ remActive' = mask

\* A failed sample, or no valid time yet: the round ends here.
NoSample == /\ remAt = "sample"
            /\ remAt' = "wait"
            /\ Quiet
            /\ UNCHANGED remActive

Last(answer) == /\ remAt = "last"
                /\ remAt' = "wait"
                /\ TrySend(answer)
                /\ UNCHANGED remActive

\* The delay of the task: a second after a failed sample, else a whole round.
Wait == /\ remAt = "wait"
        /\ remAt' = "first"
        /\ remAge' \in {remAge, [i \in Issues |-> IF remAge[i] < Cooldown
                                                  THEN remAge[i] + 1 ELSE Cooldown]}
        /\ remSaid' = {}
        /\ UNCHANGED <<remActive, remPending>>

Next == \/ \E answer \in Answers : First(answer) \/ Last(answer)
        \/ \E r \in Readings, answer \in Answers : Sampled(r, answer)
        \/ NoSample \/ Wait

\* The task goes on, samples, and waits whole rounds; a speech that can succeed
\* at all is tried at a time when the speaker is free.
Spec == /\ Init /\ [][Next]_remVars
        /\ WF_remVars(Next)
        /\ SF_remVars(\E r \in Readings, answer \in Answers : Sampled(r, answer))
        /\ SF_remVars(Wait /\ remAge' # remAge)
        /\ SF_remVars("ok" \in Answers /\ Last("ok") /\ remPending # {})

-----------------------------------------------------------------------------
(* Properties.                                                             *)

TypeOK == /\ remPending \subseteq Issues /\ remActive \subseteq Issues
          /\ remAge \in [Issues -> 0..Cooldown]
          /\ \A pair \in {{"hot", "cold"}, {"dry", "humid"}} : ~(pair \subseteq remActive)

\* A reminder that was put off is given up only by being spoken.
ForgetsNone == remPending # {} /\ remPending' = {} => remSaid' = remPending
DeferredNotForgotten == [][ForgetsNone]_remVars

\* An issue is spoken of again within its pause only in a reminder that was
\* put off.
RepeatsDeferred == (\E i \in remSaid' : remAge[i] < Cooldown) => remPending # {}
RepeatOnlyDeferred == [][RepeatsDeferred]_remVars

\* An issue that lasts is spoken of, whatever else comes and goes.
ReminderComes ==
    \A i \in Issues : <>[](i \in remActive) => <>(i \in remSaid)

\* env-monitor.md:26: the pressure never triggers a reminder.
PressureSilent == "pressure" \notin remSaid \cup remPending

\* What is spoken is still the case.
SpokenStillTrue == [][remSaid' \subseteq remActive']_remVars

=============================================================================
