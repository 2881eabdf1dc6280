-------------------------------- MODULE SeekGates --------------------------------
(***************************************************************************)
(* A seek of the sender, from the FLUSH to the frames of the new place:    *)
(* audio_receiver_seek_flush on the RTSP task, audio_receiver_set_anchor_  *)
(* time on the control task, and the gates of audio_stream_process_frame   *)
(* on the receive task.  Frames and sync packets come over sockets of      *)
(* their own, each in order; a FLUSH may overtake both.                    *)
(*                                                                         *)
(* A place is a number of frames in the stream; how time stamps compare    *)
(* when they wrap is RtpOrder's, and what the timing does with an anchor   *)
(* SyncMode's and Playout's.                                               *)
(***************************************************************************)
EXTENDS Integers, Sequences, FiniteSetsExt

CONSTANTS Places,     \* where the sender can go; one or more to begin with
          Length,     \* bound: frames of one place
          MaxFrames,   \* of the jitter buffer
          Threshold,  \* 5 s: a displacement that is a seek
          Window,     \* 10 s: gate_window
          SendAhead,  \* the sender's latency: it sends that far ahead of what plays
          MaxSeeks,   \* bound
          Faults      \* of those of AllFaults: what may happen

\* A seek goes less than the window back or the threshold ahead, a FLUSH overtakes
\* a sync packet, frames of the new place come before its anchor, other tasks come
\* between a gate and the queue, a seek follows while frames of two places are
\* under way.
AllFaults == {"near", "late sync", "early frames", "slow", "quick seeks"}

VARIABLES
  skSender,  \* [epoch, from, at]: its seeks, its first frame since, and its next
  skFrames,  \* the data socket: places
  skSyncs,   \* the control socket: records [place, epoch], at most one
  skBuffer,  \* the frames in the jitter buffer
  skPassed,  \* the frame that is being decoded, at most one
  skBefore,  \* discard_before_rtp, NoGate if it is not valid
  skAbove,   \* discard_above_rtp
  skArm,     \* arm_gate_on_next_anchor
  skAnchor   \* the epoch of the last anchor

skVars == <<skSender, skFrames, skSyncs, skBuffer, skPassed, skBefore, skAbove, skArm, skAnchor>>

\* Below every anchor.
NoGate == -(SendAhead + 1)

Init == /\ skSender \in {[epoch |-> 0, from |-> p, at |-> p] : p \in Places}
        /\ skFrames = <<>> /\ skSyncs = <<>>
        /\ skBuffer = {} /\ skPassed = {}
        /\ skBefore = NoGate /\ skAbove = NoGate /\ skArm = FALSE
        /\ skAnchor = 0

-----------------------------------------------------------------------------
(* The sender.                                                             *)

Send == /\ skSender.at < skSender.from + Length /\ Len(skFrames) < 2
        /\ skAnchor = skSender.epoch \/ "early frames" \in Faults
        /\ skFrames' = Append(skFrames, skSender.at)
        /\ skSender' = [skSender EXCEPT !.at = @ + 1]
        /\ UNCHANGED <<skSyncs, skBuffer, skPassed, skBefore, skAbove, skArm, skAnchor>>

\* rtp_timestamp_less_latency: the frame that plays when this one is sent.
Playing(at) == at - SendAhead

Sync == /\ skSyncs = <<>>
        /\ skSyncs' = <<[place |-> Playing(skSender.at), epoch |-> skSender.epoch]>>
        /\ UNCHANGED <<skSender, skFrames, skBuffer, skPassed, skBefore, skAbove, skArm, skAnchor>>

\* Mutant: the flush leaves the gates to the anchor that was there before.
MutFlush == skBuffer' = {} /\ UNCHANGED <<skBefore, skAbove, skArm>>

\* audio_receiver_seek_flush.
Flush == /\ skBuffer' = {}
         /\ skBefore' = NoGate /\ skAbove' = NoGate
         /\ skArm' = TRUE

Place == skSender.from..(skSender.from + Length - 1)

\* A seek that the displacement and the gates can tell from the stream: its first
\* anchor is as far from all the frames of the place before.
Far(p) == \/ Playing(p) - skSender.at > Threshold
          \/ skSender.from - Playing(p) > Window

\* FLUSH, and the sender goes on elsewhere.
Seek(p) == /\ skSender.epoch < MaxSeeks
           /\ Far(p) \/ "near" \in Faults
           /\ (\A k \in 1..Len(skFrames) : skFrames[k] \in Place) \/ "quick seeks" \in Faults
           /\ skSyncs = <<>> \/ "late sync" \in Faults
           /\ skPassed = {} \/ "slow" \in Faults
           /\ skSender' = [epoch |-> skSender.epoch + 1, from |-> p, at |-> p]
           /\ Flush
           /\ UNCHANGED <<skFrames, skSyncs, skPassed, skAnchor>>

-----------------------------------------------------------------------------
(* The receiver.                                                           *)

\* Mutant: only a seek that the buffer shows arms the gates.
MutGates(p, displaced) == IF displaced THEN skBefore' = p /\ skAbove' = p + Window /\ skArm' = FALSE
                          ELSE UNCHANGED <<skBefore, skAbove>> /\ skArm' = FALSE

\* Both gates are armed together.
Gates(p, displaced) == IF displaced \/ skArm
                       THEN skBefore' = p /\ skAbove' = p + Window /\ skArm' = FALSE
                       ELSE UNCHANGED <<skBefore, skAbove, skArm>>

Displaced(p) == skBuffer # {} /\ LET ahead == Min(skBuffer) - p
                                 IN ahead > Threshold \/ -ahead > Threshold

\* audio_receiver_set_anchor_time.
Anchor == /\ skSyncs # <<>>
          /\ LET s == Head(skSyncs)
             IN /\ skBuffer' = IF Displaced(s.place) THEN {} ELSE skBuffer
                /\ Gates(s.place, Displaced(s.place))
                /\ skAnchor' = s.epoch
          /\ skSyncs' = Tail(skSyncs)
          /\ skPassed = {} \/ "slow" \in Faults
          /\ UNCHANGED <<skSender, skFrames, skPassed>>

\* Mutant: a gate is armed for one frame only.
MutAdmit(f) == /\ skPassed' = IF (skBefore # NoGate /\ f < skBefore)
                                  \/ (skAbove # NoGate /\ f > skAbove) THEN {} ELSE {f}
               /\ skBefore' = NoGate
               /\ skAbove' = NoGate

\* audio_stream_process_frame up to the decoder: each gate is disarmed by the
\* first frame that passes it, also if the other one then refuses the frame.
Admit(f) == LET below == skBefore # NoGate /\ f < skBefore
                above == skAbove # NoGate /\ f > skAbove
            IN /\ skPassed' = IF below \/ above THEN {} ELSE {f}
               /\ skBefore' = IF below THEN skBefore ELSE NoGate
               /\ skAbove' = IF below \/ above THEN skAbove ELSE NoGate

Receive == /\ skFrames # <<>> /\ skPassed = {}
           /\ Admit(Head(skFrames))
           /\ skFrames' = Tail(skFrames)
           /\ UNCHANGED <<skSender, skSyncs, skBuffer, skArm, skAnchor>>

\* Mutant: a full buffer grows.
MutRoom == skBuffer

\* audio_buffer_queue_decoded: a full buffer lets its oldest frame go.
Room == IF Cardinality(skBuffer) < MaxFrames THEN skBuffer ELSE skBuffer \ {Min(skBuffer)}

Queue == /\ skPassed # {}
         /\ skBuffer' = skPassed \cup Room
         /\ skPassed' = {}
         /\ UNCHANGED <<skSender, skFrames, skSyncs, skBefore, skAbove, skArm, skAnchor>>

Play == /\ skBuffer # {}
        /\ skBuffer' = skBuffer \ {Min(skBuffer)}
        /\ UNCHANGED <<skSender, skFrames, skSyncs, skPassed, skBefore, skAbove, skArm, skAnchor>>

Next == \/ Send \/ Sync \/ Anchor \/ Receive \/ Queue \/ Play
        \/ \E p \in Places : Seek(p)

\* The sender sends frames and syncs, and the tasks run.
Spec == /\ Init /\ [][Next]_skVars
        /\ WF_skVars(Send) /\ WF_skVars(Sync) /\ WF_skVars(Receive) /\ WF_skVars(Queue) /\ WF_skVars(Anchor)

-----------------------------------------------------------------------------
(* Properties.                                                             *)

TypeOK == /\ Cardinality(skPassed) <= 1 /\ Cardinality(skBuffer) <= MaxFrames
          /\ skAnchor <= skSender.epoch
          /\ skAbove # NoGate /\ skBefore # NoGate => skAbove = skBefore + Window

\* Once the anchor of the new place is there, nothing of the old place is left
\* or taken in, however much of it was still under way.
OldPlaceSilent == skAnchor = skSender.epoch =>
                      skBuffer \subseteq Place

\* The place the sender is at is heard: the one it went to, or if it went on the
\* one it went on to.
Arrived == skSender.at = skSender.from
Heard == skBuffer \cap Place # {}
NewPlaceHeard == Arrived ~> Heard

=============================================================================
