----------------------------- MODULE BoundedFifo -----------------------------
(***************************************************************************)
(* What the PCM ring buffer of the voice path promises its users: a FIFO   *)
(* of at most Limit samples.  A push stores the longest prefix that fits   *)
(* and drops the rest, a pop removes the longest prefix that is there, a   *)
(* reset forgets everything.                                               *)
(***************************************************************************)
EXTENDS Integers, Sequences

CONSTANTS Sample,   \* the PCM sample values
          Limit,    \* the most samples the FIFO holds
          MaxChunk  \* the longest chunk pushed or popped in one call

VARIABLES fifo,   \* the samples stored, oldest first
          popped, \* the samples the last pop returned
          epoch   \* the parity of the resets: a loss of samples is no reset

fifoVars == <<fifo, popped, epoch>>

\* The shorter of two lengths.
Least(a, b) == IF a < b THEN a ELSE b

Chunk == UNION {[1..n -> Sample] : n \in 1..MaxChunk}

FifoInit == fifo = <<>> /\ popped = <<>> /\ epoch = 0

FifoPush(pcm) ==
    LET n == Least(Len(pcm), Limit - Len(fifo))
    IN  /\ fifo' = fifo \o SubSeq(pcm, 1, n)
        /\ UNCHANGED <<popped, epoch>>

FifoPop(max) ==
    LET n == Least(max, Len(fifo))
    IN  /\ popped' = SubSeq(fifo, 1, n)
        /\ fifo' = SubSeq(fifo, n + 1, Len(fifo))
        /\ UNCHANGED epoch

FifoReset == fifo' = <<>> /\ epoch' = 1 - epoch /\ UNCHANGED popped

FifoNext == \/ \E pcm \in Chunk : FifoPush(pcm)
            \/ \E max \in 1..MaxChunk : FifoPop(max)
            \/ FifoReset

FifoSpec == FifoInit /\ [][FifoNext]_fifoVars
=============================================================================
