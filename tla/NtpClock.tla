------------------------------ MODULE NtpClock ------------------------------
(***************************************************************************)
(* The clock of the phone as the receiver estimates it (ntp_clock.c): a    *)
(* task asks every 3 s, each answer gives an offset and half of its round  *)
(* trip as uncertainty, the best of the last few counts, and once four     *)
(* were taken an answer far from the estimate is rejected.                 *)
(*                                                                         *)
(* The way there and back take any of the delays; an answer that was lost, *)
(* late or doubled is one that does not come, or one with a longer way     *)
(* back.  The phone may set its clock, and any session may start or stop   *)
(* the client.                                                             *)
(***************************************************************************)
EXTENDS Integers, Sequences, FiniteSetsExt

CONSTANTS Phones,      \* addresses of the sources of time
          TrueOffsets, \* offsets the clock of a phone may have
          Delays,      \* one-way delays, even
          MaxSteps,    \* bound: times a phone sets its clock
          History,     \* TIMING_HISTORY_SIZE (8)
          Bootstrap,   \* BOOTSTRAP_MIN_MEASUREMENTS (4)
          Gate,        \* MAX_TRACKING_DELTA_NS (250 ms)
          MaxTrip,     \* longest round trip (1 s)
          Holdover,    \* rounds of 3 s in 15 s (5)
          MaxStreak,   \* NTP_REJECT_STREAK_MAX (6)
          LockAge,     \* rounds in 20 s (7)
          Breaks,      \* may recvfrom fail?
          Overlap      \* may a start come while another session's stop waits?

VARIABLES
  ntpNet,   \* [offset, steps]: the true offset and how often it was set
  ntpTask,  \* running, stopping, the tasks there are, remote_addr
  ntp,      \* sane, tracking, locked, offset, good, accepted, streak, age
  ntpRing   \* [all, at]: the accepted measurements and where the next one goes

ntpVars == <<ntpNet, ntpTask, ntp, ntpRing>>

\* No measurement was accepted yet: last_accept_us is zero.
NoAge == LockAge + 1

Reset == [sane |-> FALSE, tracking |-> FALSE, locked |-> FALSE, offset |-> 0, good |-> 0,
          accepted |-> 0, streak |-> 0, age |-> NoAge]
Empty == [all |-> <<>>, at |-> 1]

NtpInit == /\ ntpNet = [offset |-> Min(TrueOffsets), steps |-> 0]
           /\ ntpTask = [running |-> FALSE, stopping |-> FALSE, tasks |-> 0,
                      phone |-> "none"]
           /\ ntp = Reset
           /\ ntpRing = Empty

Distance(a, b) == IF a < b THEN b - a ELSE a - b

\* No measurement is zero, which the users of the clock take for none.
NoZeroOffset == \A o \in TrueOffsets : \A there, back \in Delays : o + (there - back) \div 2 # 0

-----------------------------------------------------------------------------
(* ntp_clock_start_client and ntp_clock_stop.                              *)

\* The client is reset and a task begins, on the one stack there is; the memory
\* of the stack, or the task, may fail.
Start(phone) ==
    /\ ~ntpTask.running
    /\ Overlap \/ ~ntpTask.stopping
    /\ ntpTask.tasks <= 1   \* bound: no third task begins on the stack of two
    /\ \/ ntpTask' = [ntpTask EXCEPT !.running = TRUE, !.tasks = @ + 1, !.phone = phone]
       \/ ntpTask' = [ntpTask EXCEPT !.phone = phone]
    /\ ntp' = Reset
    /\ ntpRing' = Empty
    /\ UNCHANGED ntpNet

\* The end of a stop: the offsets stay until the next start.
Stopped == /\ ntp' = [Reset EXCEPT !.offset = ntp.offset, !.good = ntp.good]
           /\ ntpRing' = [ntpRing EXCEPT !.all = <<>>]

\* Mutant: the stop does not wait.
MutStop == /\ ntpTask.running
           /\ ntpTask' = [ntpTask EXCEPT !.running = FALSE]
           /\ Stopped
           /\ UNCHANGED ntpNet

\* A start for the phone that is asked already changes nothing; one for another
\* phone stops first.
Stop == /\ ntpTask.running
        /\ ntpTask' = [ntpTask EXCEPT !.running = FALSE, !.stopping = ntpTask.tasks > 0]
        /\ IF ntpTask.tasks > 0 THEN UNCHANGED <<ntp, ntpRing>> ELSE Stopped
        /\ UNCHANGED ntpNet

\* The task looks at the flag at least every 100 ms, so the second a stop waits
\* is enough, unless the flag is set again.
TaskEnds == /\ ~ntpTask.running /\ ntpTask.tasks > 0
            /\ ntpTask' = [ntpTask EXCEPT !.tasks = @ - 1]
            /\ UNCHANGED <<ntpNet, ntp, ntpRing>>

StopEnds == /\ ntpTask.stopping
            /\ ntpTask.running \/ ntpTask.tasks = 0
            /\ ntpTask' = [ntpTask EXCEPT !.stopping = FALSE]
            /\ Stopped
            /\ UNCHANGED ntpNet

\* An error of the socket ends the task and leaves the client running.
TaskBreaks == /\ Breaks /\ ntpTask.running /\ ntpTask.tasks > 0
              /\ ntpTask' = [ntpTask EXCEPT !.tasks = @ - 1]
              /\ UNCHANGED <<ntpNet, ntp, ntpRing>>

-----------------------------------------------------------------------------
(* The answers.                                                            *)

\* accept_measurement: the oldest measurement makes room.
Kept(m) == LET all == ntpRing.all
           IN  [all |-> IF Len(all) < History THEN Append(all, m)
                        ELSE [all EXCEPT ![ntpRing.at] = m],
                at  |-> (ntpRing.at % History) + 1]

\* Mutant: the uncertainty is compared with that of the new one only.
MutBest(all, m) ==
    LET better == {i \in 1..Len(all) : all[i].disp < m.disp}
    IN  IF better = {} THEN m ELSE all[Max(better)]

\* The least uncertain one, the new one if none is better.
Best(all, m) ==
    LET least == Min({all[i].disp : i \in 1..Len(all)})
    IN  IF m.disp = least THEN m ELSE all[Min({i \in 1..Len(all) : all[i].disp = least})]

Accept(m) == LET ring == Kept(m)
                 best == Best(ring.all, m)
                 taken == IF ntp.accepted < Bootstrap THEN ntp.accepted + 1 ELSE Bootstrap
             IN  /\ ntpRing' = ring
                 /\ ntp' = [ntp EXCEPT !.offset = best.offset, !.good = best.offset,
                                       !.sane = TRUE, !.accepted = taken, !.streak = 0, !.age = 0,
                                       !.tracking = @ \/ taken = Bootstrap,
                                       !.locked = @ \/ (~ntp.tracking /\ taken = Bootstrap)]

\* What a rejection says of the estimate: nobody else looks at its age.
Rejected == LET streak == IF ntp.streak > MaxStreak THEN ntp.streak ELSE ntp.streak + 1
            IN  IF ntp.age <= Holdover /\ streak <= MaxStreak
                THEN [ntp EXCEPT !.sane = TRUE, !.streak = streak]
                ELSE [ntp EXCEPT !.sane = FALSE, !.streak = streak, !.locked = @ /\ ntp.age < LockAge]

\* Mutant: the gate is closed from the first measurement on.
MutFar(m) == Distance(m.offset, ntp.good) > Gate

\* Only with a full bootstrap is anything rejected.
Far(m) == ntp.tracking /\ Distance(m.offset, ntp.good) > Gate

\* process_timing_response.
Answer(there, back) ==
    LET m == [offset |-> ntpNet.offset + (there - back) \div 2, disp |-> (there + back) \div 2]
    IN  /\ ntpTask.tasks > 0
        /\ there + back <= MaxTrip
        /\ IF Far(m) THEN ntp' = Rejected /\ UNCHANGED ntpRing ELSE Accept(m)
        /\ UNCHANGED <<ntpNet, ntpTask>>

\* Three seconds pass.
Round == /\ ntp.age < LockAge
         /\ ntp' = [ntp EXCEPT !.age = @ + 1]
         /\ UNCHANGED <<ntpNet, ntpTask, ntpRing>>

\* The phone sets its clock.
PhoneSets == /\ ntpNet.steps < MaxSteps
             /\ \E offset \in TrueOffsets \ {ntpNet.offset} :
                    ntpNet' = [offset |-> offset, steps |-> ntpNet.steps + 1]
             /\ UNCHANGED <<ntpTask, ntp, ntpRing>>

NtpRuns == \/ Stop \/ TaskEnds \/ StopEnds \/ TaskBreaks
           \/ \E there, back \in Delays : Answer(there, back)
           \/ Round \/ PhoneSets

NtpNext == NtpRuns \/ \E phone \in Phones : Start(phone)

\* The task asks every 3 s, and not every answer is lost.
NtpSpec == /\ NtpInit /\ [][NtpNext]_ntpVars
           /\ SF_ntpVars(\E there, back \in Delays : Answer(there, back))

-----------------------------------------------------------------------------
(* What other modules ask.                                                 *)

is_tracking == ntp.tracking /\ ntp.sane
get_offset_ns == IF ntp.sane THEN ntp.offset ELSE ntp.good

-----------------------------------------------------------------------------
(* Properties of the clock.                                                *)

NtpTypeOK == /\ ntpTask \in [running : BOOLEAN, stopping : BOOLEAN, tasks : 0..2,
                             phone : Phones \cup {"none"}]
             /\ ntp \in [sane : BOOLEAN, tracking : BOOLEAN, locked : BOOLEAN,
                         offset : Int, good : Int, accepted : 0..Bootstrap,
                         streak : 0..MaxStreak + 1, age : 0..NoAge]
             /\ Len(ntpRing.all) <= History /\ ntpRing.at \in 1..History
             /\ ntp.tracking => ntp.accepted = Bootstrap

\* The estimate is as good as the best of the measurements kept: its error is
\* at most the least of their uncertainties, as long as the phone's clock stays.
ErrorBounded ==
    (ntpNet.steps = 0 /\ ntpRing.all # <<>>) =>
        \A i \in 1..Len(ntpRing.all) :
            Distance(ntp.offset, ntpNet.offset) <= ntpRing.all[i].disp

\* A client that goes on tracks the phone in the end, if no two measurements
\* are further apart than the gate.
ClientRuns == ntpTask.running /\ ntpTask.tasks > 0
ClockTracks == <>[]ClientRuns => <>[]is_tracking

\* The stack of the task is free when a task begins on it.
NtpMemoryFree == ntpTask.tasks <= 1

\* The offset counts as sane only while it is fresh.
SaneIsFresh == ntp.sane => ntp.age <= Holdover

=============================================================================
