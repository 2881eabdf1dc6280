------------------------------ MODULE SyncMode ------------------------------
(***************************************************************************)
(* How the playback follows the clock of the phone (audio_timing.c): the   *)
(* anchor of a sync packet is projected to local time with the offset of   *)
(* NtpClock, each read of a frame projects it again when the offset moved, *)
(* and the mode that is reported changes with hysteresis.                  *)
(*                                                                         *)
(* A local target is known by what it was made of: the anchor, and the     *)
(* offset it was projected with, or Local if it is just the time of its    *)
(* arrival.                                                                *)
(***************************************************************************)
EXTENDS NtpClock

CONSTANTS OneSession,  \* is the clock started only before its stream?
          MaxAnchors,  \* bound: anchors
          Refresh,     \* NTP_REFRESH_OFFSET_THRESHOLD_NS (2 ms)
          EnterStreak, \* NTP_ENTER_STREAK (2)
          ExitStreak   \* NTP_EXIT_STREAK (4)

VARIABLES
  timAnchor,  \* [id, source, target, projected]: the anchor and its target
  timPost,    \* [on, frozen, target]: post_flush and post_flush_anchor_target
  timMode     \* last_sync_mode, the two streaks, and whether the hold lasts

syncVars == <<ntpVars, timAnchor, timPost, timMode>>

Local == 0
NoTarget == <<>>

NoAnchor(id) == [id |-> id, source |-> "none", target |-> NoTarget, projected |-> 0]
FreshMode == [mode |-> "local", sane |-> 0, unsane |-> 0, held |-> FALSE]

Init == /\ NtpInit
        /\ timAnchor = NoAnchor(0)
        /\ timPost = [on |-> FALSE, frozen |-> FALSE, target |-> NoTarget]
        /\ timMode = FreshMode

-----------------------------------------------------------------------------
\* Mutant: the target used after a flush is not moved along.
MutProject(anchor, offset) ==
    /\ timAnchor' = [anchor EXCEPT !.target = <<anchor.id, offset>>, !.projected = offset]
    /\ timPost' = [timPost EXCEPT !.target = IF timPost.on /\ @ = NoTarget
                                             THEN <<anchor.id, offset>> ELSE @]

\* apply_anchor_projection; while a flush settles the target it uses moves along.
Project(anchor, offset) ==
    /\ timAnchor' = [anchor EXCEPT !.target = <<anchor.id, offset>>, !.projected = offset]
    /\ timPost' = [timPost EXCEPT !.target = IF timPost.on THEN <<anchor.id, offset>> ELSE @]

\* audio_timing_set_anchor.  An offset of zero stands for none.
SetAnchor ==
    /\ timAnchor.id < MaxAnchors
    /\ LET id == timAnchor.id + 1
           anchor == [timAnchor EXCEPT !.id = id, !.source = "ntp", !.target = <<id, Local>>]
       IN  IF get_offset_ns # 0 THEN Project(anchor, get_offset_ns)
           ELSE timAnchor' = anchor /\ UNCHANGED timPost
    /\ UNCHANGED <<ntpVars, timMode>>

\* audio_timing_force_local_anchor, after 300 ms without one.
ForceLocal == /\ timAnchor.source = "none" /\ timAnchor.id < MaxAnchors
              /\ timAnchor' = [id |-> timAnchor.id + 1, source |-> "local",
                               target |-> <<timAnchor.id + 1, Local>>, projected |-> 0]
              /\ UNCHANGED <<ntpVars, timPost, timMode>>

\* audio_receiver_flush: everything is reset, and the flush begins to settle.
Flush == /\ timAnchor' = NoAnchor(timAnchor.id)
         /\ timPost' = [on |-> TRUE, frozen |-> TRUE, target |-> NoTarget]
         /\ timMode' = FreshMode
         /\ UNCHANGED ntpVars

\* audio_timing_reset of a new stream.
NewStream == /\ timAnchor' = NoAnchor(timAnchor.id)
             /\ timPost' = [on |-> FALSE, frozen |-> FALSE, target |-> NoTarget]
             /\ timMode' = FreshMode
             /\ UNCHANGED ntpVars

\* A frame in time ends the settling; three seconds end the freeze, or the hold.
FlushSettles == /\ timPost.on
                /\ timPost' = [timPost EXCEPT !.on = FALSE, !.frozen = FALSE]
                /\ UNCHANGED <<ntpVars, timAnchor, timMode>>

Thaws == /\ timPost.frozen
         /\ timPost' = [timPost EXCEPT !.frozen = FALSE]
         /\ UNCHANGED <<ntpVars, timAnchor, timMode>>

HoldEnds == /\ timMode.held
            /\ timMode' = [timMode EXCEPT !.held = FALSE]
            /\ UNCHANGED <<ntpVars, timAnchor, timPost>>

-----------------------------------------------------------------------------
(* A read of a frame.                                                      *)

Healthy == timAnchor.source = "ntp" /\ is_tracking

Streaks == IF Healthy
           THEN [timMode EXCEPT !.sane = IF @ < EnterStreak THEN @ + 1 ELSE @, !.unsane = 0]
           ELSE [timMode EXCEPT !.unsane = IF @ < ExitStreak THEN @ + 1 ELSE @, !.sane = 0]

\* Mutant: only the first lock projects again.
MutMoved == timMode.mode # "ntp" /\ Streaks.sane >= EnterStreak

\* Not projected yet, or just locked, or moved by more than 2 ms.
Moved == \/ timAnchor.projected = 0
         \/ timMode.mode # "ntp" /\ Streaks.sane >= EnterStreak
         \/ Distance(get_offset_ns, timAnchor.projected) > Refresh

ModeAfter(s) ==
    IF timPost.frozen \/ timMode.held THEN s
    ELSE IF s.mode # "ntp" /\ s.sane >= EnterStreak THEN [s EXCEPT !.mode = "ntp", !.held = TRUE]
    ELSE IF s.mode = "ntp" /\ s.unsane >= ExitStreak THEN [s EXCEPT !.mode = "local", !.held = TRUE]
    ELSE s

Read == /\ timAnchor.source # "none"
        /\ IF Healthy /\ get_offset_ns # 0 /\ Moved
           THEN Project(timAnchor, get_offset_ns)
           ELSE UNCHANGED <<timAnchor, timPost>>
        /\ timMode' = ModeAfter(Streaks)
        /\ UNCHANGED ntpVars

\* SETUP starts the clock, RECORD the stream; another client's SETUP may start
\* it under a stream.
Clock == /\ \/ NtpRuns
            \/ /\ OneSession => timAnchor.source = "none" /\ ~timPost.on
               /\ \E phone \in Phones : Start(phone)
         /\ UNCHANGED <<timAnchor, timPost, timMode>>

Next == \/ Clock
        \/ SetAnchor \/ ForceLocal \/ Flush \/ NewStream
        \/ FlushSettles \/ Thaws \/ HoldEnds \/ Read

Spec == Init /\ [][Next]_syncVars

-----------------------------------------------------------------------------
(* Properties.                                                             *)

TypeOK == /\ NtpTypeOK
          /\ timAnchor.id \in 0..MaxAnchors
          /\ timAnchor.source \in {"none", "ntp", "local"}
          /\ timMode \in [mode : {"local", "ntp"}, sane : 0..EnterStreak,
                          unsane : 0..ExitStreak, held : BOOLEAN]

\* The target that counts while a flush settles is that of the last anchor and
\* of the last projection.
TargetsAgree == timPost.on => timPost.target \in {NoTarget, timAnchor.target}

\* While the clock is tracked a frame is played against a projection that is
\* off by no more than the refresh threshold and the error of the clock; and the
\* target is of that projection, unless a start under a stream, or an offset of
\* zero, has given an anchor a local target and left the old projection.
FollowsClock ==
    (Read /\ Healthy /\ ntp.offset # 0) =>
        /\ Distance(timAnchor'.projected, ntp.offset) <= Refresh
        /\ OneSession /\ NoZeroOffset =>
              timAnchor'.target = <<timAnchor.id, timAnchor'.projected>>
AnchorFollows == [][FollowsClock]_syncVars

=============================================================================
