---------------------------- MODULE AudioBuffer ----------------------------
(***************************************************************************)
(* audio_buffer.c: the jitter buffer between the RTP receive task and the  *)
(* playback task.                                                          *)
(*                                                                         *)
(* Decoded frames live in a pool of slots.  sorted[] holds the occupied    *)
(* slots in timestamp order, free_stack[] the free ones; a slot the        *)
(* playback task has taken is in neither until it is returned.  A counting *)
(* semaphore data_ready is meant to hold one token per buffered frame, but *)
(* it is given, taken and drained OUTSIDE the spinlock, so it drifts from  *)
(* count whenever a flush, a take and a queue overlap.                     *)
(*                                                                         *)
(* Each critical section is one action, each semaphore call outside one is *)
(* another.  The threads are the receive tasks (Producers), the playback   *)
(* task, which takes, returns and sometimes bulk-flushes, and the RTSP     *)
(* tasks that flush (Flushers).                                            *)
(***************************************************************************)
EXTENDS RtpOrder, Sequences, FiniteSets

CONSTANTS Capacity,    \* buffer->capacity
          MaxChunks,   \* the most chunks one decoded packet is split into
          ChunkLen,    \* AAC_FRAMES_PER_PACKET, in timestamp units
          Producers,   \* the tasks that queue decoded frames
          Flushers,    \* the tasks that flush, other than the playback task
          Player,      \* the playback task
          NoSlot       \* no slot held

ASSUME CapacityAssumption == Capacity \in Nat \ {0}
ASSUME ChunksAssumption == MaxChunks \in Nat \ {0} /\ ChunkLen \in Nat
ASSUME ThreadAssumption == Player \notin Flushers
ASSUME NoSlotAssumption == NoSlot \notin 0..(Capacity - 1)

Slot == 0..(Capacity - 1)

VARIABLES sorted,       \* buffer->sorted[0 .. count-1]
          free_stack,   \* buffer->free_stack[0 .. free_top-1]
          count_mirror, \* buffer->count_mirror
          stamp,        \* slot -> rtp_timestamp of its frame header
          tokens,       \* the count of the semaphore data_ready
          queuing,      \* producer -> chunks left, next timestamp, unlocked give due
          taking,       \* where the playback task is in audio_buffer_take
          held,         \* the slot taken and not yet returned
          heldStamp,    \* the timestamp it had when it was taken (history)
          draining      \* the tasks between the two halves of a flush

vars == <<sorted, free_stack, count_mirror, stamp, tokens, queuing, taking,
          held, heldStamp, draining>>

pool == <<sorted, free_stack, count_mirror, stamp>>
playback == <<taking, held, heldStamp>>

count == Len(sorted)

\* The slots of a sequence of slots.
SlotsOf(s) == {s[i] : i \in DOMAIN s}

Idle == [left |-> 0, next |-> 0, give |-> FALSE]

Init == /\ sorted = <<>>
        /\ free_stack = [i \in 1..Capacity |-> i - 1]
        /\ count_mirror = 0
        /\ stamp = [s \in Slot |-> 0]
        /\ tokens = 0
        /\ queuing = [p \in Producers |-> Idle]
        /\ taking = "idle"
        /\ held = NoSlot
        /\ heldStamp = 0
        /\ draining = {}

-----------------------------------------------------------------------------
(* The receive tasks: audio_buffer_queue_decoded, one chunk at a time.     *)

\* The timestamps of n chunks from t on.
ChunkStamps(t, n) == {(t + k * ChunkLen) % Modulus : k \in 0..(n - 1)}

\* The timestamps in the buffer or on their way into it.
StampsInPlay == {stamp[s] : s \in SlotsOf(sorted)}
                \cup UNION {ChunkStamps(queuing[p].next, queuing[p].left) : p \in Producers}

\* A decoded packet of n chunks arrives.  The packets of a stream stay within
\* one arc of what is buffered: a receiver would have to hold 13 hours of
\* audio to leave it.
QueueDecoded(p) ==
    /\ queuing[p].left = 0
    /\ \E n \in 1..MaxChunks, t \in Timestamp :
          /\ OneArc(StampsInPlay \cup ChunkStamps(t, n))
          /\ queuing' = [queuing EXCEPT ![p] = [left |-> n, next |-> t, give |-> FALSE]]
    /\ UNCHANGED <<pool, tokens, playback, draining>>

\* Mutant: the overflow loop leaves a full index alone.
MutOverflow == IF count > Capacity THEN count - Capacity + 1 ELSE 0

\* How many of the oldest frames the overflow loop drains.
Overflow == IF count >= Capacity THEN count - Capacity + 1 ELSE 0

\* Mutant: any position behind the earlier frames will do.
MutIsInsertPos(index, t, pos) ==
    pos > 0 => Before(stamp[index[pos]], t)

\* sorted_insert_pos on a given index: some position whose neighbours are
\* earlier and not earlier than t (SortedInsert shows the search finds one).
IsInsertPos(index, t, pos) ==
    /\ pos > 0 => Before(stamp[index[pos]], t)
    /\ pos < Len(index) => ~Before(stamp[index[pos + 1]], t)

InsertAt(index, pos, slot) ==
    SubSeq(index, 1, pos) \o <<slot>> \o SubSeq(index, pos + 1, Len(index))

\* The part of audio_buffer_queue_chunk under the lock, when a slot is free
\* once the overflow has been drained.
QueueChunk(p) ==
    LET t == queuing[p].next
        drained == SubSeq(sorted, 1, Overflow)
        kept == SubSeq(sorted, Overflow + 1, count)
        stack == free_stack \o drained
        slot == stack[Len(stack)]
    IN  /\ queuing[p].left > 0
        /\ ~queuing[p].give
        /\ stack # <<>>
        /\ free_stack' = SubSeq(stack, 1, Len(stack) - 1)
        /\ stamp' = [stamp EXCEPT ![slot] = t]
        /\ \E pos \in 0..Len(kept) :
              /\ IsInsertPos(kept, t, pos)
              /\ sorted' = InsertAt(kept, pos, slot)
        /\ count_mirror' = Len(sorted')
        /\ tokens' = IF tokens > Overflow THEN tokens - Overflow ELSE 0
        /\ queuing' = [queuing EXCEPT ![p].give = TRUE]
        /\ UNCHANGED <<playback, draining>>

\* No slot is free: the chunk and the rest of the packet are dropped.
QueueFull(p) ==
    /\ queuing[p].left > 0
    /\ ~queuing[p].give
    /\ Overflow = 0
    /\ free_stack = <<>>
    /\ queuing' = [queuing EXCEPT ![p] = Idle]
    /\ UNCHANGED <<pool, tokens, playback, draining>>

\* Mutant: the semaphore counts beyond its maximum.
MutQueueGive(p) ==
    /\ queuing[p].left > 0
    /\ queuing[p].give
    /\ tokens' = tokens + 1
    /\ queuing' = [queuing EXCEPT ![p] =
          IF @.left = 1 THEN Idle
          ELSE [left |-> @.left - 1,
                next |-> (@.next + ChunkLen) % Modulus,
                give |-> FALSE]]
    /\ UNCHANGED <<pool, playback, draining>>

\* xSemaphoreGive after the unlock (it fails when the semaphore is full),
\* and on to the next chunk of the packet.
QueueGive(p) ==
    /\ queuing[p].left > 0
    /\ queuing[p].give
    /\ tokens' = IF tokens < Capacity THEN tokens + 1 ELSE tokens
    /\ queuing' = [queuing EXCEPT ![p] =
          IF @.left = 1 THEN Idle
          ELSE [left |-> @.left - 1,
                next |-> (@.next + ChunkLen) % Modulus,
                give |-> FALSE]]
    /\ UNCHANGED <<pool, playback, draining>>

-----------------------------------------------------------------------------
(* The playback task: audio_buffer_take with no timeout, as audio_timing_read *)
(* calls it, then audio_buffer_return.                                     *)

TakeToken == /\ taking = "idle"
             /\ held = NoSlot
             /\ Player \notin draining
             /\ tokens > 0
             /\ tokens' = tokens - 1
             /\ taking' = "locked"
             /\ UNCHANGED <<pool, queuing, held, heldStamp, draining>>

\* No token: the repair path looks at count under the lock.
TakeNoToken == /\ taking = "idle"
               /\ held = NoSlot
               /\ Player \notin draining
               /\ tokens = 0
               /\ taking' = "recheck"
               /\ UNCHANGED <<pool, tokens, queuing, held, heldStamp, draining>>

\* Mutant: a missing token always means an empty buffer.
MutTakeRecheck == /\ taking = "recheck"
                  /\ taking' = "idle"
                  /\ UNCHANGED <<pool, tokens, queuing, held, heldStamp, draining>>

TakeRecheck == /\ taking = "recheck"
               /\ taking' = IF count = 0 THEN "idle" ELSE "locked"
               /\ UNCHANGED <<pool, tokens, queuing, held, heldStamp, draining>>

\* Mutant: the slot is free again as soon as it is taken.
MutTakeFrees == /\ taking = "locked"
                /\ taking' = "idle"
                /\ IF count = 0
                   THEN UNCHANGED <<sorted, free_stack, count_mirror, held, heldStamp>>
                   ELSE /\ held' = Head(sorted)
                        /\ heldStamp' = stamp[Head(sorted)]
                        /\ free_stack' = Append(free_stack, Head(sorted))
                        /\ sorted' = Tail(sorted)
                        /\ count_mirror' = Len(sorted')
                /\ UNCHANGED <<stamp, tokens, queuing, draining>>

\* Mutant: the mirror of the count is left behind.
MutTakeStaleMirror == /\ taking = "locked"
                      /\ taking' = "idle"
                      /\ IF count = 0
                         THEN UNCHANGED <<sorted, held, heldStamp>>
                         ELSE /\ held' = Head(sorted)
                              /\ heldStamp' = stamp[Head(sorted)]
                              /\ sorted' = Tail(sorted)
                      /\ UNCHANGED <<count_mirror, free_stack, stamp, tokens, queuing, draining>>

\* The critical section that removes the oldest frame, if there is one.
TakeOldest == /\ taking = "locked"
              /\ taking' = "idle"
              /\ IF count = 0
                 THEN UNCHANGED <<sorted, count_mirror, held, heldStamp>>
                 ELSE /\ held' = Head(sorted)
                      /\ heldStamp' = stamp[Head(sorted)]
                      /\ sorted' = Tail(sorted)
                      /\ count_mirror' = Len(sorted')
              /\ UNCHANGED <<free_stack, stamp, tokens, queuing, draining>>

Return == /\ held # NoSlot
          /\ free_stack' = Append(free_stack, held)
          /\ held' = NoSlot
          /\ heldStamp' = 0
          /\ UNCHANGED <<sorted, count_mirror, stamp, tokens, queuing, taking, draining>>

-----------------------------------------------------------------------------
(* audio_buffer_flush, by an RTSP task at any time or by the playback task *)
(* between frames (a bulk flush of audio_timing_read).                     *)

MayFlush(f) == f = Player => taking = "idle" /\ held = NoSlot

\* Mutant: the slots are freed but stay in the index.
MutFlushSlots(f) == /\ f \notin draining
                    /\ MayFlush(f)
                    /\ free_stack' = free_stack \o sorted
                    /\ draining' = draining \cup {f}
                    /\ UNCHANGED <<sorted, count_mirror, stamp, tokens, queuing, playback>>

FlushSlots(f) == /\ f \notin draining
                 /\ MayFlush(f)
                 /\ free_stack' = free_stack \o sorted
                 /\ sorted' = <<>>
                 /\ count_mirror' = 0
                 /\ draining' = draining \cup {f}
                 /\ UNCHANGED <<stamp, tokens, queuing, playback>>

\* One turn of the unlocked loop that empties the semaphore, or its end.
FlushDrain(f) == /\ f \in draining
                 /\ IF tokens > 0
                    THEN tokens' = tokens - 1 /\ UNCHANGED draining
                    ELSE draining' = draining \ {f} /\ UNCHANGED tokens
                 /\ UNCHANGED <<pool, queuing, playback>>

-----------------------------------------------------------------------------

Play == TakeToken \/ TakeNoToken \/ TakeRecheck \/ TakeOldest \/ Return

Next == \/ \E p \in Producers : QueueDecoded(p) \/ QueueChunk(p) \/ QueueFull(p) \/ QueueGive(p)
        \/ Play
        \/ \E f \in Flushers \cup {Player} : FlushSlots(f) \/ FlushDrain(f)

\* The playback task polls for ever, and a task inside a call finishes it;
\* no packet and no flush has to come.  Strong fairness of the drain's end
\* says that its loop of non-blocking takes, microseconds long, is not
\* outrun for ever by a receive task that gives once per decoded packet.
Fairness == /\ WF_vars(Play)
            /\ \A p \in Producers : WF_vars(QueueChunk(p) \/ QueueFull(p) \/ QueueGive(p))
            /\ \A f \in Flushers \cup {Player} :
                  /\ WF_vars(FlushDrain(f))
                  /\ SF_vars(FlushDrain(f) /\ tokens = 0)

Spec == Init /\ [][Next]_vars

FairSpec == Spec /\ Fairness

-----------------------------------------------------------------------------
(* Correctness.                                                            *)

\* The type of the state.
TypeOK ==
    /\ sorted \in Seq(Slot)
    /\ free_stack \in Seq(Slot)
    /\ count_mirror \in 0..Capacity
    /\ stamp \in [Slot -> Timestamp]
    /\ tokens \in 0..Capacity
    /\ queuing \in [Producers -> [left : 0..MaxChunks, next : Timestamp, give : BOOLEAN]]
    /\ taking \in {"idle", "locked", "recheck"}
    /\ held \in Slot \cup {NoSlot}
    /\ heldStamp \in Timestamp
    /\ draining \in SUBSET (Flushers \cup {Player})

NoRepeat(s) == \A i, j \in DOMAIN s : s[i] = s[j] => i = j

HeldSet == {held} \ {NoSlot}

\* No two of the index, the free stack and the playback task share a slot,
\* and none of them has one twice.
SlotsDisjoint ==
    /\ NoRepeat(sorted)
    /\ NoRepeat(free_stack)
    /\ SlotsOf(sorted) \cap SlotsOf(free_stack) = {}
    /\ HeldSet \cap (SlotsOf(sorted) \cup SlotsOf(free_stack)) = {}

\* Every slot of the pool is buffered, free or held by the playback task, and
\* only one of these: queue, take, return and flush, interleaved anyhow,
\* neither leak a slot nor hand it out twice.
SlotsConserved ==
    /\ SlotsDisjoint
    /\ SlotsOf(sorted) \cup SlotsOf(free_stack) \cup HeldSet = Slot

\* The frame the playback task reads outside the lock is not overwritten
\* before it gives the slot back.
HeldFrameStable == held # NoSlot => stamp[held] = heldStamp

\* The index is in timestamp order across the 32-bit wraparound, so a take
\* always delivers the oldest frame and the overflow drops the oldest.
IndexSorted ==
    \A i, j \in 1..count : i < j => ~Before(stamp[sorted[j]], stamp[sorted[i]])

\* The lock-free count that the receiver and the playback task steer by is
\* exact at the end of every critical section.
MirrorExact == count_mirror = count

\* However the semaphore drifts (a flush that drains the token of a frame
\* queued behind it, a give that comes after its frame was taken), a buffered
\* frame never strands: the polling playback task gets one, or they are
\* flushed.
NoStrandedFrame == count > 0 ~> (held # NoSlot \/ count = 0)

\* A packet is dropped for want of a slot only while the playback task holds
\* one: with every slot in the index the overflow makes room instead.
DropOnlyWhileHeld ==
    [][\A p \in Producers : QueueFull(p) => held # NoSlot /\ count = Capacity - 1]_vars

\* The frames of the index, and the frame the playback task holds, each with
\* the timestamp in its header.
QueuedFrames == [s \in SlotsOf(sorted) |-> stamp[s]]
HeldFrame == [s \in HeldSet |-> stamp[s]]

Queue == INSTANCE FrameQueue WITH
    Frame <- Slot, frames <- QueuedFrames, hand <- HeldFrame

\* Through all of it - a pool of slots, an index, a stack and a semaphore that
\* drifts, three kinds of tasks - the buffer is one priority queue: a take
\* hands over an earliest frame, a chunk loses an earliest one and only when
\* every slot is queued, and the held frame changes in no step but these.
ImplementsQueue == Queue!QueueSpec
=============================================================================
