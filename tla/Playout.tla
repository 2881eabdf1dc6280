------------------------------- MODULE Playout -------------------------------
(***************************************************************************)
(* When a buffered frame is heard: audio_timing_read of audio_timing.c, the*)
(* operations of audio_receiver.c that the RTSP task and the task of the   *)
(* control socket call while the playback task reads.  No lock is held by  *)
(* any of them.  The gates that a seek arms are in SeekGates.              *)
(*                                                                         *)
(* A frame is its timestamp counted from the next frame the sender will    *)
(* send: what was sent last is -1, and everything moves back by one when a *)
(* frame is sent.  lead is how early that next frame is by the anchor; it  *)
(* falls by one with every read and rises by one with every frame, so the  *)
(* model needs no clock.  One unit is the time one frame lasts.            *)
(***************************************************************************)
EXTENDS Integers, FiniteSets, FiniteSetsExt

CONSTANTS
  Cap, Target,          \* frames the buffer holds; target_buffer_frames
  Tol, BulkLate,        \* TIMING_THRESHOLD_US, BULK_FLUSH_LATE_THRESHOLD_US
  Stale, Wild,          \* POST_FLUSH_STALE_THRESHOLD_US, MAX_REASONABLE_EARLY_US
  MaxEarly, MaxLate,    \* MAX_CONSECUTIVE_EARLY, MAX_CONSECUTIVE_LATE
  StaleHits,            \* POST_FLUSH_STALE_HITS_TO_FLUSH
  LocalWait, FullWait,  \* LOCAL_ANCHOR_FALLBACK_US and the wait of one second
  Attempts,             \* frames one read looks at (8)
  SeekSpan,             \* the 5 s beyond which an anchor means a seek
  Floor, LeadMax,       \* bounds: how far back a frame, how early or late the next one
  Aheads, Errors, Jumps,\* how far ahead the sender sends, clock errors, seeks
  NoMemory,             \* may the pending frame fail to be allocated?
  CalmMin, CalmMax,     \* how early the next frame is under an anchor that is right
  None

ASSUME BufferAssumption == Cap \in Nat \ {0} /\ Target \in Nat \ {0}
ASSUME CountAssumption == /\ MaxEarly \in Nat /\ MaxLate \in Nat
                          /\ StaleHits \in Nat \ {0} /\ Attempts \in Nat
ASSUME NoneAssumption == None \notin Int
ASSUME RangeAssumption == /\ LeadMax \in Nat /\ SeekSpan \in Nat /\ Floor \in Int /\ Floor < 0
                          /\ CalmMin \in -LeadMax..LeadMax /\ CalmMax \in -LeadMax..LeadMax
ASSUME SenderAssumption == /\ Aheads \subseteq Int /\ Errors \subseteq Int /\ Jumps \subseteq Int
                           /\ \A n \in Aheads, e \in Errors \cup {0} : n + e >= -LeadMax

VARIABLES
  buf,     \* timestamps in the jitter buffer
  timing,  \* playing, started, ready, early, late
  post,    \* [on, begun, snap, hits]: post_flush and its copy of the anchor
  anchor,  \* [valid, rtp, src]
  lead,    \* how early the next frame to be sent is; 0 without an anchor
  pend,    \* [valid, ts, mem]: the pending frame and its memory
  reader,  \* [pc, ts, pending, tries]: the playback task inside audio_timing_read
  out,     \* slots taken from the buffer and not returned to it
  heard,   \* what the last read gave (history)
  quiet,   \* reads in a row that held an early frame back (history)
  calm     \* the sender only streams from here on

vars == <<buf, timing, post, anchor, lead, pend, reader, out, heard, quiet, calm>>

NoAnchor == [valid |-> FALSE, rtp |-> 0, src |-> "none"]
NoPost == [on |-> FALSE, begun |-> FALSE, snap |-> None, hits |-> 0]
NoPend == [valid |-> FALSE, ts |-> 0, mem |-> FALSE]
Idle == [pc |-> "idle", ts |-> None, pending |-> FALSE, tries |-> 0]
Fresh(playing) == [playing |-> playing, started |-> FALSE, ready |-> None,
                   early |-> 0, late |-> 0]

Init == /\ buf = {} /\ timing = Fresh(TRUE) /\ post = NoPost
        /\ anchor = NoAnchor /\ lead = 0 /\ pend = NoPend /\ reader = Idle
        /\ out = 0 /\ heard = "nothing" /\ quiet = 0
        /\ calm = FALSE

Abs(n) == IF n < 0 THEN -n ELSE n

-----------------------------------------------------------------------------
(* Time, and the stream.                                                   *)

Frames == buf \cup {reader.ts} \cup (IF pend.valid THEN {pend.ts} ELSE {})

\* The next frame to be sent is n further on.  The timestamp of an anchor is not
\* told apart below Floor; frames get no further back, or Cap more once calm.
Back(ts, n) == IF ts = None THEN None ELSE ts - n
Clamped(ts) == IF ts < Floor THEN Floor ELSE ts

\* A full buffer drops its oldest frame; without a free slot the new one is lost.
SlotsUsed == Cardinality(buf) + out

\* Mutant: the buffer counts its frames and not the slots that are out.
MutQueued(b) == IF Cardinality(b) >= Cap THEN (b \ {Min(b)}) \cup {-1} ELSE b \cup {-1}

Queued(b) == IF Cardinality(b) >= Cap THEN (b \ {Min(b)}) \cup {-1}
             ELSE IF SlotsUsed >= Cap THEN b ELSE b \cup {-1}

\* The sender sends a frame, at the pace of the music when it is calm; it comes
\* or it is lost on the way.
Arrive == \E lose \in BOOLEAN :
    /\ lead < (IF calm THEN CalmMax ELSE LeadMax)
    /\ \A ts \in Frames \ {None} : ts > (IF calm THEN Floor - Cap ELSE Floor)
    /\ lose => ~calm
    /\ buf' = LET b == {ts - 1 : ts \in buf} IN IF lose THEN b ELSE Queued(b)
    /\ anchor' = [anchor EXCEPT !.rtp = IF anchor.valid THEN Clamped(@ - 1) ELSE 0]
    /\ pend' = [pend EXCEPT !.ts = IF pend.valid THEN @ - 1 ELSE 0]
    /\ reader' = [reader EXCEPT !.ts = Back(@, 1)]
    /\ post' = [post EXCEPT !.snap = IF @ = None THEN None ELSE @ + 1]
    /\ lead' = IF anchor.valid THEN lead + 1 ELSE 0
    /\ UNCHANGED <<timing, out, heard, quiet, calm>>

\* A frame lasts as long as the playback task needs for one turn.
Tick == /\ reader.pc = "done"
        /\ lead > (IF calm THEN CalmMin ELSE -LeadMax) \/ ~anchor.valid
        /\ (post.snap # None /\ ~calm) => post.snap > -LeadMax
        /\ lead' = IF anchor.valid THEN lead - 1 ELSE 0
        /\ post' = [post EXCEPT !.snap = IF @ = None THEN None ELSE @ - 1]
        /\ timing' = [timing EXCEPT !.ready = IF @ = None \/ @ = FullWait THEN @ ELSE @ + 1]
        /\ reader' = Idle
        /\ heard' = "nothing"
        /\ UNCHANGED <<buf, anchor, pend, out, quiet, calm>>
-----------------------------------------------------------------------------
(* audio_timing_read, until it has a frame in hand.                        *)

Done(result) == /\ reader' = [Idle EXCEPT !.pc = "done"] /\ heard' = result

\* Enough frames must be there before the first one is played.
Starting == ~timing.started /\ ~pend.valid

\* Mutant: the target is a frame more than the buffer can hold.
MutNotEnough == Starting /\ Cardinality(buf) <= Cap

NotEnough == Starting /\ Cardinality(buf) < Target

\* Without an anchor the read waits: a local anchor after LocalWait, none at all
\* after FullWait, and right after a seek the whole FullWait.
NoAnchorYet == Starting /\ ~NotEnough /\ ~anchor.valid
Waited == IF timing.ready = None THEN 0 ELSE timing.ready
TakesLocal == NoAnchorYet /\ Waited < FullWait /\ Waited >= LocalWait /\ ~post.on
StillWaits == NoAnchorYet /\ Waited < FullWait /\ ~TakesLocal

\* The read gives nothing: paused, still filling, or waiting for an anchor.
ReadWaits == /\ reader.pc = "idle"
             /\ ~timing.playing \/ NotEnough \/ StillWaits
             /\ Done("zero")
             /\ timing' = IF timing.playing /\ StillWaits THEN [timing EXCEPT !.ready = Waited] ELSE timing
             /\ UNCHANGED <<buf, post, anchor, lead, pend, out, quiet, calm>>

\* The read goes on.  While an NTP anchor holds, the measured offset may have
\* moved by more than 2 ms, and the anchor is projected again.
ReadGoes == \E shift \in (IF anchor.valid /\ anchor.src = "ntp" /\ ~calm THEN Errors ELSE {0}) :
    /\ reader.pc = "idle" /\ timing.playing /\ ~NotEnough /\ ~StillWaits
    /\ anchor' = IF TakesLocal THEN [valid |-> TRUE, rtp |-> Min(buf), src |-> "local"] ELSE anchor
    /\ lead' = IF TakesLocal THEN -Min(buf) ELSE lead + shift
    /\ lead' \in -LeadMax..LeadMax
    /\ post' = IF shift # 0 /\ post.on THEN [post EXCEPT !.snap = lead'] ELSE post
    /\ timing' = [timing EXCEPT !.ready = IF NoAnchorYet THEN Waited ELSE @,
                                !.early = IF TakesLocal THEN 0 ELSE @,
                                !.late = IF TakesLocal THEN 0 ELSE @]
    /\ reader' = [Idle EXCEPT !.pc = "take"]
    /\ UNCHANGED <<buf, pend, out, heard, quiet, calm>>

\* The pending frame, or the oldest of the buffer.
Take ==
    /\ reader.pc = "take"
    /\ \/ /\ reader.tries >= Attempts \/ (~pend.valid /\ buf = {})
          /\ Done("zero") /\ UNCHANGED <<buf, out>>
       \/ /\ reader.tries < Attempts /\ pend.valid
          /\ reader' = [reader EXCEPT !.pc = "judge", !.ts = pend.ts, !.pending = TRUE]
          /\ UNCHANGED <<buf, out, heard>>
       \/ /\ reader.tries < Attempts /\ ~pend.valid /\ buf # {}
          /\ buf' = buf \ {Min(buf)} /\ out' = out + 1
          /\ reader' = [reader EXCEPT !.pc = "judge", !.ts = Min(buf), !.pending = FALSE]
          /\ UNCHANGED heard
    /\ UNCHANGED <<timing, post, anchor, lead, pend, quiet, calm>>

-----------------------------------------------------------------------------
(* The frame in hand is judged.                                            *)

\* After a seek the copy of the anchor counts, once there is one.
Early == reader.ts + (IF post.on /\ post.begun /\ post.snap # None THEN post.snap ELSE lead)

\* Mutant: when an anchor has dropped the pending frame meanwhile, its place is
\* taken for a slot of the buffer.
MutLetGo == /\ pend' = IF pend.valid THEN [pend EXCEPT !.valid = FALSE, !.ts = 0] ELSE pend
            /\ out' = IF pend.valid THEN out ELSE out - 1

\* The frame leaves the hand: its slot goes back, or it is no longer pending.
LetGo == /\ pend' = IF reader.pending THEN [pend EXCEPT !.valid = FALSE, !.ts = 0] ELSE pend
         /\ out' = IF reader.pending THEN out ELSE out - 1

Restart(t) == [t EXCEPT !.started = FALSE, !.ready = None]
Calmer(t) == [t EXCEPT !.early = 0, !.late = 0]

Judged == reader.pc = "judge" /\ anchor.valid
Plausible == Abs(Early) <= Wild

\* What no clock explains is dropped, and the read gives nothing.
DropWild ==
    /\ Judged /\ ~Plausible
    /\ LetGo
    /\ post' = IF post.on /\ ~post.begun THEN [post EXCEPT !.begun = TRUE, !.snap = lead] ELSE post
    /\ Done("zero")
    /\ UNCHANGED <<buf, timing, anchor, lead, quiet, calm>>

\* After a seek: frames far too early are of the former place, and when several
\* come the buffer is full of them.
Begun == IF post.begun THEN post ELSE [post EXCEPT !.begun = TRUE, !.snap = lead]
DropStale ==
    /\ Judged /\ Plausible /\ post.on /\ Early > Stale
    /\ LetGo
    /\ IF post.hits + 1 >= StaleHits
       THEN /\ buf' = {} /\ timing' = Calmer(Restart(timing))
            /\ post' = [Begun EXCEPT !.hits = 0, !.snap = None]
       ELSE /\ post' = [Begun EXCEPT !.hits = @ + 1] /\ UNCHANGED <<buf, timing>>
    /\ Done("zero")
    /\ UNCHANGED <<anchor, lead, quiet, calm>>

\* A frame on time ends the time after the seek.
PostAfter == IF Abs(Early) <= Tol THEN NoPost ELSE [Begun EXCEPT !.hits = 0]

Normal == Judged /\ Plausible /\ ~post.on
TooEarly == Normal /\ Early > Tol
TooLate == Normal /\ Early < -Tol

Earlier == timing.early + 1

\* Held back: the frame becomes the pending one and the read gives silence.
HoldEarly == \E mem \in {TRUE} \cup (IF NoMemory THEN {pend.mem} ELSE {}) :
    /\ TooEarly /\ Earlier <= MaxEarly
    /\ timing' = [timing EXCEPT !.early = Earlier]
    /\ IF reader.pending \/ ~mem THEN UNCHANGED <<pend, out>>
       ELSE pend' = [valid |-> TRUE, ts |-> reader.ts, mem |-> TRUE] /\ out' = out - 1
    /\ quiet' = IF quiet > MaxEarly THEN quiet ELSE quiet + 1
    /\ Done("silence")
    /\ UNCHANGED <<buf, post, anchor, lead, calm>>

\* Late by much, or once too often: the whole buffer goes.
DropLate ==
    /\ TooLate
    /\ LetGo
    /\ IF Early < -BulkLate \/ timing.late + 1 > MaxLate
       THEN /\ buf' = {}
            /\ timing' = Calmer(Restart(timing))
            /\ Done("zero")
       ELSE /\ timing' = [timing EXCEPT !.early = 0, !.late = @ + 1]
            /\ reader' = [Idle EXCEPT !.pc = "take", !.tries = reader.tries + 1]
            /\ UNCHANGED <<buf, heard>>
    /\ quiet' = 0
    /\ UNCHANGED <<post, anchor, lead, calm>>

\* On time, after a seek, without an anchor, or because the anchor is given up.
Play ==
    /\ reader.pc = "judge"
    /\ ~anchor.valid \/ (Plausible /\ IF post.on THEN Early <= Stale
                                          ELSE ~TooLate /\ (TooEarly => Earlier > MaxEarly))
    /\ LetGo
    /\ anchor' = IF TooEarly THEN NoAnchor ELSE anchor
    /\ lead' = IF TooEarly THEN 0 ELSE lead
    /\ post' = IF anchor.valid /\ post.on THEN PostAfter ELSE post
    /\ timing' = [Calmer(timing) EXCEPT !.started = TRUE]
    /\ Done("frame") /\ quiet' = 0
    /\ UNCHANGED <<buf, calm>>

-----------------------------------------------------------------------------
(* The operations of the receiver that other tasks call.                   *)

\* audio_timing_reset: the pending frame's memory is freed, too.
ResetTiming == /\ timing' = Fresh(timing.playing)
               /\ anchor' = NoAnchor /\ lead' = 0 /\ pend' = NoPend

\* A sync packet: the frame ahead of the next one by n is heard now, give or take
\* the error of the clocks.  Before the first answer of the NTP clock the offset
\* is unknown and the anchor is now.
Displaced(rtp) == buf # {} /\ Abs(Min(buf) - rtp) > SeekSpan
\* Mutant: every anchor restarts the counts of early and late frames.
MutJumped(rtp) == TRUE

Jumped(rtp) == ~anchor.valid \/ Abs(rtp - anchor.rtp) > SeekSpan

SetAnchor == \E n \in Aheads, known \in BOOLEAN, error \in Errors :
    LET rtp == -n
        moved == IF Displaced(rtp) THEN Restart(timing) ELSE timing
        next == n + (IF known THEN error ELSE 0)
    IN /\ ~calm /\ next <= LeadMax
       /\ buf' = IF Displaced(rtp) THEN {} ELSE buf
       /\ pend' = IF Displaced(rtp) THEN [pend EXCEPT !.valid = FALSE, !.ts = 0] ELSE pend
       /\ timing' = IF Jumped(rtp) THEN Calmer(moved) ELSE moved
       /\ anchor' = [valid |-> TRUE, rtp |-> rtp, src |-> "ntp"]
       /\ lead' = next
       /\ IF post.on /\ known THEN post' = [post EXCEPT !.snap = next]
          ELSE IF post.snap = None THEN UNCHANGED post
          ELSE /\ anchor.valid /\ anchor.rtp > Floor
               /\ post' = [post EXCEPT !.snap = @ + anchor.rtp - rtp]
               /\ post'.snap \in -LeadMax..LeadMax
       /\ quiet' = IF anchor.valid /\ Abs(rtp - anchor.rtp) <= SeekSpan THEN quiet ELSE 0
       /\ UNCHANGED <<reader, out, heard, calm>>

\* PAUSE, and RECORD after it; RECORD also forces the start without an anchor.
Pause == /\ timing.playing /\ ~calm
         /\ timing' = [timing EXCEPT !.playing = FALSE]
         /\ pend' = [pend EXCEPT !.valid = FALSE, !.ts = 0]
         /\ UNCHANGED <<buf, post, anchor, lead, reader, out, heard, quiet, calm>>

ForceStart(t) == IF anchor.valid THEN t ELSE [t EXCEPT !.started = TRUE, !.ready = 0]

Resume == /\ ~timing.playing /\ ~calm
          /\ timing' = ForceStart([timing EXCEPT !.playing = TRUE])
          /\ UNCHANGED <<buf, post, anchor, lead, pend, reader, out, heard, quiet, calm>>

\* RECORD of a stream that is not paused: a stream started afresh.
Record == /\ ~calm
          /\ buf' = {}
          /\ post' = NoPost /\ anchor' = NoAnchor /\ lead' = 0 /\ pend' = NoPend
          /\ timing' = [Fresh(TRUE) EXCEPT !.started = TRUE, !.ready = 0]
          /\ quiet' = 0
          /\ UNCHANGED <<reader, out, heard, calm>>

\* audio_receiver_stop (TEARDOWN, the end of a connection): nothing comes any more.
Stop == /\ ~calm
        /\ buf' = {} /\ post' = NoPost /\ ResetTiming
        /\ quiet' = 0
        /\ UNCHANGED <<reader, out, heard, calm>>

\* FLUSH: the sender goes on d frames further ahead or back.
Seek == \E d \in Jumps :
    /\ ~calm /\ (reader.ts # None => reader.ts - d \in Floor..(-Floor))
    /\ buf' = {} /\ ResetTiming
    /\ post' = [NoPost EXCEPT !.on = TRUE]
    /\ reader' = [reader EXCEPT !.ts = Back(@, d)]
    /\ quiet' = 0
    /\ UNCHANGED <<out, heard, calm>>

\* The playback task runs low and fills the buffer again (audio_output_common.c).
Rebuffer == /\ reader.pc = "done" /\ heard = "zero" /\ anchor.valid /\ timing.playing
            /\ timing.started \/ pend.valid
            /\ timing' = Calmer(Restart(timing))
            /\ pend' = [pend EXCEPT !.valid = FALSE, !.ts = 0]
            /\ quiet' = 0
            /\ UNCHANGED <<buf, post, anchor, lead, reader, out, heard, calm>>

\* From here on the sender only streams, at the pace of the music, under an anchor
\* by which its frames come in time.
Settle == /\ ~calm /\ timing.playing /\ anchor.valid /\ lead \in CalmMin..CalmMax
          /\ post.snap \in {None, lead}
          /\ calm' = TRUE
          /\ UNCHANGED <<buf, timing, post, anchor, lead, pend, reader, out, heard, quiet>>

Read == ReadWaits \/ ReadGoes \/ Take \/ DropWild \/ DropStale
        \/ HoldEarly \/ DropLate \/ Play
Others == SetAnchor \/ Pause \/ Resume \/ Record \/ Stop \/ Seek

Next == Read \/ Tick \/ Arrive \/ Others \/ Rebuffer \/ Settle

Spec == Init /\ [][Next]_vars

\* The playback task and, once calm, the stream go on.
FairSpec == Spec /\ WF_vars(Read) /\ WF_vars(Tick) /\ WF_vars(Arrive /\ calm)

-----------------------------------------------------------------------------
TypeOK == /\ buf \subseteq (Floor - Cap)..-1 /\ SlotsUsed <= Cap
          /\ lead \in -LeadMax..LeadMax
          /\ timing.early \in 0..MaxEarly /\ timing.late \in 0..MaxLate
          /\ post.hits \in 0..StaleHits
          /\ reader.pc \in {"idle", "take", "judge", "done"} /\ reader.tries \in 0..Attempts
          /\ heard \in {"nothing", "zero", "silence", "frame"}

\* Whatever is flushed, reset or judged meanwhile, a slot taken from the buffer
\* goes back: none is out unless the pending frame has no memory.
SlotsReturned == ~NoMemory => out = (IF reader.pc = "judge" /\ ~reader.pending THEN 1 ELSE 0)

\* An anchor that is wrong by being early is given up after MaxEarly reads, although
\* a sync packet comes every second: the refresh must not restart the count.
EarlySilenceEnds == quiet <= MaxEarly

\* The memory of the pending frame outlives the read that looks at it.
PendingAlive == (reader.pc = "judge" /\ reader.pending) => pend.mem

\* Playback starts with Target frames at hand or a pending one, unless RECORD forces it.
StartsFull == [][(timing'.started /\ ~timing.started /\ heard' = "frame")
                 => (Cardinality(buf) + 1 >= Target \/ pend.valid)]_vars

\* Once the sender only streams under an anchor that is right, it is heard again and
\* again: no flag, count or pending frame left by what came before mutes it.
HeardAgain == [](calm => <>(heard = "frame"))
=============================================================================
