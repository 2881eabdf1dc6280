----------------------------- MODULE FrameQueue -----------------------------
(***************************************************************************)
(* What the jitter buffer promises its users: one priority queue, in the   *)
(* order of the stream, of as many frames as there is memory for.  A put   *)
(* adds one frame and, in a full queue, loses one that no other precedes;  *)
(* a take hands over one that no other precedes, which nobody touches      *)
(* until it is returned; a clear forgets what is queued and nothing else.  *)
(***************************************************************************)
EXTENDS RtpOrder

CONSTANT Frame   \* the frames there is memory for

VARIABLES frames, \* the frames queued, each with its timestamp
          hand    \* the frame handed over, if any, with its timestamp

queueVars == <<frames, hand>>

NoFrames == [f \in {} |-> 0]

\* q without the frames of S, and q with frame f at time t.
Without(q, S) == [f \in DOMAIN q \ S |-> q[f]]
With(q, f, t) == [g \in DOMAIN q \cup {f} |-> IF g = f THEN t ELSE q[g]]

\* The frames that no other precedes.
Oldest == {f \in DOMAIN frames : \A g \in DOMAIN frames : ~Before(frames[g], frames[f])}

\* What a put may lose: nothing while there is room, else one oldest frame.
Losses == IF DOMAIN frames = Frame THEN {{f} : f \in Oldest} ELSE {{}}

QueueInit == frames = NoFrames /\ hand = NoFrames

Put == \E lost \in Losses, t \in Timestamp :
          \E f \in (Frame \ DOMAIN hand) \ (DOMAIN frames \ lost) :
             frames' = With(Without(frames, lost), f, t) /\ UNCHANGED hand

Take == /\ hand = NoFrames
        /\ \E f \in Oldest : /\ hand' = With(hand, f, frames[f])
                             /\ frames' = Without(frames, {f})

GiveBack == hand # NoFrames /\ hand' = NoFrames /\ UNCHANGED frames

Clear == frames' = NoFrames /\ UNCHANGED hand

QueueNext == Put \/ Take \/ GiveBack \/ Clear

QueueSpec == QueueInit /\ [][QueueNext]_queueVars
=============================================================================
