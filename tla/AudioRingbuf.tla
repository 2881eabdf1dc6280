---------------------------- MODULE AudioRingbuf ----------------------------
(***************************************************************************)
(* audio_ringbuf.c: the ring of PCM samples between the voice controller,  *)
(* which pushes the synthesised answer, and the play task, which pops it.  *)
(*                                                                         *)
(* push, pop and reset run under the spinlock rb->spin and are one action  *)
(* each.  audio_ringbuf_avail is called WITHOUT the lock and reads w and   *)
(* then r, so it is two actions and other calls fit between them; the play *)
(* task sizes its next pop from the result.                                *)
(***************************************************************************)
EXTENDS Integers, Sequences

CONSTANTS Sample,    \* the PCM sample values
          Silence,   \* what a fresh cell of buf holds
          Cap,       \* rb->cap, the number of cells
          MaxChunk   \* the longest chunk pushed or popped in one call

ASSUME CapAssumption == Cap \in Nat \ {0}
ASSUME ChunkAssumption == MaxChunk \in Nat \ {0}
ASSUME SampleAssumption == Silence \in Sample

VARIABLES buf,      \* rb->buf: cell index -> sample
          w, r,     \* rb->w, rb->r
          out,      \* the samples the last pop copied to its destination
          seenW,    \* w as an unlocked avail read it, or -1 outside one
          avail,    \* what the play task's last avail returned, or -1
          epoch     \* the parity of the resets (history)

vars == <<buf, w, r, out, seenW, avail, epoch>>

\* The shorter of two lengths.
Least(a, b) == IF a < b THEN a ELSE b

Chunk == UNION {[1..n -> Sample] : n \in 1..MaxChunk}

\* audio_ringbuf_avail on given indices.
AvailOf(wi, ri) == IF wi >= ri THEN wi - ri ELSE Cap - ri + wi

Avail == AvailOf(w, r)

\* Mutant: no cell is kept empty.
MutFree == Cap - Avail

\* audio_ringbuf_free: one cell always stays empty.
Free == IF Cap > Avail + 1 THEN Cap - Avail - 1 ELSE 0

Init == /\ buf = [i \in 0..(Cap - 1) |-> Silence]
        /\ w = 0
        /\ r = 0
        /\ out = <<>>
        /\ seenW = -1
        /\ avail = -1
        /\ epoch = 0

-----------------------------------------------------------------------------
(* The producer.                                                           *)

\* The samples a push has room for.
PushCount(pcm) == Least(Len(pcm), Free)

\* buf after the two memcpys of a push of n samples: the part up to the end
\* of the ring, then the part that wrapped.
AfterCopy(pcm, n) ==
    LET first == Least(Cap - w, n)
    IN  [i \in 0..(Cap - 1) |->
            IF i >= w /\ i < w + first THEN pcm[i - w + 1]
            ELSE IF i < n - first THEN pcm[first + i + 1]
            ELSE buf[i]]

\* Mutant: the write index wraps one cell too late.
MutPush(pcm) ==
    LET n == PushCount(pcm)
    IN  /\ buf' = AfterCopy(pcm, n)
        /\ w' = (w + n) % (Cap + 1)
        /\ UNCHANGED <<r, out, seenW, avail, epoch>>

Push(pcm) ==
    LET n == PushCount(pcm)
    IN  /\ buf' = AfterCopy(pcm, n)
        /\ w' = (w + n) % Cap
        /\ UNCHANGED <<r, out, seenW, avail, epoch>>

-----------------------------------------------------------------------------
(* The consumer.                                                           *)

\* What a pop of n samples copies out, again in two parts.
CopyOut(n) ==
    LET first == Least(Cap - r, n)
    IN  [k \in 1..n |-> IF k <= first THEN buf[r + k - 1] ELSE buf[k - first - 1]]

Pop(max) ==
    LET n == Least(max, Avail)
    IN  /\ max >= 1
        /\ out' = CopyOut(n)
        /\ r' = (r + n) % Cap
        /\ UNCHANGED <<buf, w, epoch>>

\* The play task's unlocked avail: the read of w ...
AvailReadW == /\ seenW = -1
              /\ avail = -1
              /\ seenW' = w
              /\ UNCHANGED <<buf, w, r, out, avail, epoch>>

\* ... and the read of r.
AvailReadR == /\ seenW # -1
              /\ avail' = AvailOf(seenW, r)
              /\ seenW' = -1
              /\ UNCHANGED <<buf, w, r, out, epoch>>

\* Mutant: the play loop goes on with the avail it had before the pop.
MutPlayPop == \/ /\ avail = 0
                 /\ avail' = -1
                 /\ UNCHANGED <<buf, w, r, out, seenW, epoch>>
              \/ /\ avail > 0
                 /\ Pop(Least(avail, MaxChunk))
                 /\ UNCHANGED <<avail, seenW>>

\* The play loop: with nothing available it polls again, otherwise it pops
\* at most one hardware chunk of what avail reported.
PlayPop == \/ /\ avail = 0
              /\ avail' = -1
              /\ UNCHANGED <<buf, w, r, out, seenW, epoch>>
           \/ /\ avail > 0
              /\ Pop(Least(avail, MaxChunk))
              /\ avail' = -1
              /\ UNCHANGED seenW

\* audio_ringbuf_reset, called by the play task on its way out.
Reset == /\ avail = -1
         /\ seenW = -1
         /\ w' = 0
         /\ r' = 0
         /\ epoch' = 1 - epoch
         /\ UNCHANGED <<buf, out, seenW, avail>>

Next == \/ \E pcm \in Chunk : Push(pcm)
        \/ AvailReadW
        \/ AvailReadR
        \/ PlayPop
        \/ Reset

Spec == Init /\ [][Next]_vars

-----------------------------------------------------------------------------
(* Correctness.                                                            *)

\* The type of the state; w and r always index a cell.
TypeOK == /\ buf \in [0..(Cap - 1) -> Sample]
          /\ w \in 0..(Cap - 1)
          /\ r \in 0..(Cap - 1)
          /\ out \in Seq(Sample)
          /\ seenW \in -1..(Cap - 1)
          /\ avail \in -1..(Cap - 1)
          /\ epoch \in {0, 1}

\* The samples between r and w, oldest first.
Contents == [k \in 1..Avail |-> buf[(r + k - 1) % Cap]]

\* The play task sizes its pop from an avail it computed without the lock
\* while pushes went on: it may under-report but must never claim samples
\* that are not there (voice_player.c plays what pop returned and treats
\* avail > 0 as audio to play).
AvailNeverOverstates ==
    /\ seenW # -1 => AvailOf(seenW, r) <= Avail
    /\ avail # -1 => avail <= Avail

\* The ring implements the bounded FIFO: no sample is lost, duplicated or
\* reordered across the wrap of either index, and full is never mistaken
\* for empty.
Fifo == INSTANCE BoundedFifo
            WITH Limit <- Cap - 1, fifo <- Contents, popped <- out

ImplementsFifo == Fifo!FifoSpec
=============================================================================
