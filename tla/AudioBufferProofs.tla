-------------------------- MODULE AudioBufferProofs --------------------------
(***************************************************************************)
(* The slot pool of the jitter buffer is safe and its index is in order:   *)
(* proofs for every capacity, every number of receive and flush tasks,     *)
(* every number of chunks in a packet and every width of the timestamp.    *)
(***************************************************************************)
EXTENDS AudioBuffer, RtpOrderProofs, SequenceTheorems, TLAPS

-----------------------------------------------------------------------------
(* Sequences without repetition, and the sets of slots they hold.          *)

\* A sequence split after k elements.
LEMMA SplitSeq ==
    ASSUME NEW s \in Seq(Slot), NEW k \in 0..Len(s)
    PROVE  /\ SubSeq(s, 1, k) \in Seq(Slot)
           /\ SubSeq(s, k + 1, Len(s)) \in Seq(Slot)
           /\ Len(SubSeq(s, 1, k)) = k
           /\ Len(SubSeq(s, k + 1, Len(s))) = Len(s) - k
           /\ s = SubSeq(s, 1, k) \o SubSeq(s, k + 1, Len(s))
<1>1. Len(s) \in Nat /\ \A i \in 1..Len(s) : s[i] \in Slot
  BY LenProperties, ElementOfSeq
<1>2. SubSeq(s, 1, k) \in Seq(Slot) /\ Len(SubSeq(s, 1, k)) = k
  BY <1>1, SubSeqProperties
<1>3. SubSeq(s, k + 1, Len(s)) \in Seq(Slot) /\ Len(SubSeq(s, k + 1, Len(s))) = Len(s) - k
  BY <1>1, SubSeqProperties
<1>4. SubSeq(s, 1, k) \o SubSeq(s, k + 1, Len(s)) = SubSeq(s, 1, Len(s))
  <2>1. 1 \in 1..(Len(s) + 1) /\ k \in (1 - 1)..Len(s) /\ Len(s) \in k..Len(s)
    BY <1>1
  <2> QED
    BY <2>1, ConcatAdjacentSubSeq, Zenon
<1>5. SubSeq(s, 1, Len(s)) = s
  BY SubSeqFull
<1> QED
  BY <1>2, <1>3, <1>4, <1>5

\* A concatenation holds the slots of both parts ...
LEMMA ConcatSlots ==
    ASSUME NEW s \in Seq(Slot), NEW t \in Seq(Slot)
    PROVE  SlotsOf(s \o t) = SlotsOf(s) \cup SlotsOf(t)
<1>1. /\ s \o t \in Seq(Slot)
      /\ Len(s) \in Nat /\ DOMAIN s = 1..Len(s)
      /\ Len(t) \in Nat /\ DOMAIN t = 1..Len(t)
      /\ DOMAIN (s \o t) = 1..(Len(s) + Len(t))
      /\ \A i \in 1..(Len(s) + Len(t)) : (s \o t)[i] = IF i <= Len(s) THEN s[i] ELSE t[i - Len(s)]
  BY LenProperties, ConcatProperties
<1>2. ASSUME NEW i \in DOMAIN s PROVE s[i] \in SlotsOf(s \o t)
  BY <1>1 DEF SlotsOf
<1>3. ASSUME NEW i \in DOMAIN t PROVE t[i] \in SlotsOf(s \o t)
  <2>1. Len(s) + i \in DOMAIN (s \o t) /\ (s \o t)[Len(s) + i] = t[i]
    BY <1>1
  <2> QED
    BY <2>1 DEF SlotsOf
<1>4. ASSUME NEW i \in DOMAIN (s \o t) PROVE (s \o t)[i] \in SlotsOf(s) \cup SlotsOf(t)
  BY <1>1 DEF SlotsOf
<1> QED
  BY <1>2, <1>3, <1>4 DEF SlotsOf

\* ... and repeats none iff neither part does and they share none.
LEMMA ConcatNoRepeat ==
    ASSUME NEW s \in Seq(Slot), NEW t \in Seq(Slot)
    PROVE  NoRepeat(s \o t) <=> /\ NoRepeat(s)
                                /\ NoRepeat(t)
                                /\ SlotsOf(s) \cap SlotsOf(t) = {}
<1>1. /\ Len(s) \in Nat /\ DOMAIN s = 1..Len(s)
      /\ Len(t) \in Nat /\ DOMAIN t = 1..Len(t)
      /\ DOMAIN (s \o t) = 1..(Len(s) + Len(t))
      /\ \A i \in 1..(Len(s) + Len(t)) : (s \o t)[i] = IF i <= Len(s) THEN s[i] ELSE t[i - Len(s)]
  BY LenProperties, ConcatProperties
<1>2. ASSUME NoRepeat(s \o t)
      PROVE  NoRepeat(s) /\ NoRepeat(t) /\ SlotsOf(s) \cap SlotsOf(t) = {}
  <2>1. NoRepeat(s)
    BY <1>1, <1>2 DEF NoRepeat
  <2>2. NoRepeat(t)
    <3> SUFFICES ASSUME NEW i \in DOMAIN t, NEW j \in DOMAIN t, t[i] = t[j]
                 PROVE  i = j
      BY DEF NoRepeat
    <3>1. /\ Len(s) + i \in DOMAIN (s \o t) /\ (s \o t)[Len(s) + i] = t[i]
          /\ Len(s) + j \in DOMAIN (s \o t) /\ (s \o t)[Len(s) + j] = t[j]
      BY <1>1
    <3>2. Len(s) + i = Len(s) + j
      BY <1>2, <3>1 DEF NoRepeat
    <3> QED
      BY <1>1, <3>2
  <2>3. ASSUME NEW i \in DOMAIN s, NEW j \in DOMAIN t, s[i] = t[j] PROVE FALSE
    <3>1. /\ i \in DOMAIN (s \o t) /\ (s \o t)[i] = s[i]
          /\ Len(s) + j \in DOMAIN (s \o t) /\ (s \o t)[Len(s) + j] = t[j]
      BY <1>1
    <3>2. i = Len(s) + j
      BY <1>2, <2>3, <3>1 DEF NoRepeat
    <3> QED
      BY <1>1, <3>2
  <2> QED
    BY <2>1, <2>2, <2>3 DEF SlotsOf
<1>3. ASSUME NoRepeat(s), NoRepeat(t), SlotsOf(s) \cap SlotsOf(t) = {}
      PROVE  NoRepeat(s \o t)
  <2> SUFFICES ASSUME NEW i \in DOMAIN (s \o t), NEW j \in DOMAIN (s \o t),
                      (s \o t)[i] = (s \o t)[j]
               PROVE  i = j
    BY DEF NoRepeat
  <2>1. CASE i <= Len(s) /\ j <= Len(s)
    BY <1>1, <1>3, <2>1 DEF NoRepeat
  <2>2. CASE i > Len(s) /\ j > Len(s)
    <3>1. i - Len(s) \in DOMAIN t /\ j - Len(s) \in DOMAIN t /\ t[i - Len(s)] = t[j - Len(s)]
      BY <1>1, <2>2
    <3>2. i - Len(s) = j - Len(s)
      BY <1>3, <3>1 DEF NoRepeat
    <3> QED
      BY <1>1, <3>2
  <2>3. CASE i <= Len(s) /\ j > Len(s)
    <3>1. (s \o t)[i] \in SlotsOf(s) /\ (s \o t)[j] \in SlotsOf(t)
      BY <1>1, <2>3 DEF SlotsOf
    <3> QED
      BY <1>3, <3>1
  <2>4. CASE i > Len(s) /\ j <= Len(s)
    <3>1. (s \o t)[j] \in SlotsOf(s) /\ (s \o t)[i] \in SlotsOf(t)
      BY <1>1, <2>4 DEF SlotsOf
    <3> QED
      BY <1>3, <3>1
  <2> QED
    BY <1>1, <2>1, <2>2, <2>3, <2>4
<1> QED
  BY <1>2, <1>3

\* One slot.
LEMMA OneSlot ==
    ASSUME NEW slot \in Slot
    PROVE  /\ <<slot>> \in Seq(Slot)
           /\ Len(<<slot>>) = 1
           /\ SlotsOf(<<slot>>) = {slot}
           /\ NoRepeat(<<slot>>)
BY DEF SlotsOf, NoRepeat

\* A sequence with a slot inserted, position by position.
LEMMA Inserted ==
    ASSUME NEW s \in Seq(Slot), NEW pos \in 0..Len(s), NEW slot \in Slot
    PROVE  /\ Len(InsertAt(s, pos, slot)) = Len(s) + 1
           /\ \A i \in 1..(Len(s) + 1) :
                 InsertAt(s, pos, slot)[i] = IF i <= pos THEN s[i]
                                             ELSE IF i = pos + 1 THEN slot ELSE s[i - 1]
<1> DEFINE a == SubSeq(s, 1, pos)
           b == SubSeq(s, pos + 1, Len(s))
           c == a \o <<slot>>
<1>1. Len(s) \in Nat /\ pos \in Nat /\ pos <= Len(s)
  BY LenProperties
<1>2. /\ a \in Seq(Slot) /\ Len(a) = pos /\ \A i \in 1..pos : a[i] = s[i]
      /\ b \in Seq(Slot) /\ Len(b) = Len(s) - pos
      /\ \A i \in 1..(Len(s) - pos) : b[i] = s[pos + i]
  <2>1. /\ a \in Seq(Slot) /\ Len(a) = pos /\ b \in Seq(Slot) /\ Len(b) = Len(s) - pos
    BY SplitSeq
  <2>2. \A i \in 1..pos : a[i] = s[i]
    BY <1>1
  <2>3. \A i \in 1..(Len(s) - pos) : b[i] = s[pos + i]
    BY <1>1
  <2> QED
    BY <2>1, <2>2, <2>3
<1>3. <<slot>> \in Seq(Slot) /\ Len(<<slot>>) = 1 /\ <<slot>>[1] = slot
  OBVIOUS
<1> HIDE DEF a, b
<1>4. /\ c \in Seq(Slot) /\ Len(c) = pos + 1
      /\ \A i \in 1..(pos + 1) : c[i] = IF i <= pos THEN s[i] ELSE slot
  <2>1. /\ c \in Seq(Slot) /\ Len(c) = pos + 1
        /\ \A i \in 1..(pos + 1) : c[i] = IF i <= pos THEN a[i] ELSE <<slot>>[i - pos]
    <3>1. /\ c \in Seq(Slot) /\ Len(c) = Len(a) + Len(<<slot>>)
          /\ \A i \in 1..(Len(a) + Len(<<slot>>)) :
                c[i] = IF i <= Len(a) THEN a[i] ELSE <<slot>>[i - Len(a)]
      BY <1>2, <1>3, ConcatProperties
    <3> HIDE DEF c
    <3> QED
      BY <1>2, <1>3, <3>1
  <2> HIDE DEF c
  <2>2. \A i \in 1..(pos + 1) : i <= pos \/ i - pos = 1
    BY <1>1
  <2> QED
    BY <1>1, <1>2, <1>3, <2>1, <2>2
<1>5. InsertAt(s, pos, slot) = c \o b
  BY DEF InsertAt, a, b
<1> HIDE DEF c
<1>6. /\ Len(c \o b) = (pos + 1) + (Len(s) - pos)
      /\ \A i \in 1..((pos + 1) + (Len(s) - pos)) :
            (c \o b)[i] = IF i <= pos + 1 THEN c[i] ELSE b[i - (pos + 1)]
  <2> DEFINE d == c \o b
  <2>1. /\ Len(d) = Len(c) + Len(b)
        /\ \A i \in 1..(Len(c) + Len(b)) : d[i] = IF i <= Len(c) THEN c[i] ELSE b[i - Len(c)]
    BY <1>2, <1>4, ConcatProperties
  <2> HIDE DEF d
  <2>2. /\ Len(d) = (pos + 1) + (Len(s) - pos)
        /\ \A i \in 1..((pos + 1) + (Len(s) - pos)) :
              d[i] = IF i <= pos + 1 THEN c[i] ELSE b[i - (pos + 1)]
    BY <1>2, <1>4, <2>1
  <2> QED
    BY <2>2 DEF d
<1>7. (pos + 1) + (Len(s) - pos) = Len(s) + 1
  BY <1>1
<1>8. ASSUME NEW i \in 1..(Len(s) + 1)
      PROVE  (c \o b)[i] = IF i <= pos THEN s[i] ELSE IF i = pos + 1 THEN slot ELSE s[i - 1]
  <2>1. (c \o b)[i] = IF i <= pos + 1 THEN c[i] ELSE b[i - (pos + 1)]
    BY <1>6, <1>7
  <2>2. CASE i <= pos + 1
    BY <1>1, <1>4, <2>1, <2>2
  <2>3. CASE i > pos + 1
    <3>1. i - (pos + 1) \in 1..(Len(s) - pos) /\ pos + (i - (pos + 1)) = i - 1
      BY <1>1, <2>3
    <3>2. b[i - (pos + 1)] = s[i - 1]
      BY <1>2, <3>1
    <3> QED
      BY <1>1, <2>1, <2>3, <3>2
  <2>4. i <= pos + 1 \/ i > pos + 1
    BY <1>1
  <2> QED
    BY <2>2, <2>3, <2>4, Zenon
<1> QED
  BY <1>5, <1>6, <1>7, <1>8

\* Its slots are those it had and the new one.
LEMMA InsertedSlots ==
    ASSUME NEW s \in Seq(Slot), NEW pos \in 0..Len(s), NEW slot \in Slot
    PROVE  /\ InsertAt(s, pos, slot) \in Seq(Slot)
           /\ Len(InsertAt(s, pos, slot)) = Len(s) + 1
           /\ SlotsOf(InsertAt(s, pos, slot)) = SlotsOf(s) \cup {slot}
           /\ NoRepeat(s) /\ slot \notin SlotsOf(s) => NoRepeat(InsertAt(s, pos, slot))
<1> DEFINE a == SubSeq(s, 1, pos)
           b == SubSeq(s, pos + 1, Len(s))
<1>1. a \in Seq(Slot) /\ b \in Seq(Slot) /\ s = a \o b
  BY SplitSeq
<1>2. InsertAt(s, pos, slot) = (a \o <<slot>>) \o b
  BY DEF InsertAt
<1> HIDE DEF a, b
<1>3. <<slot>> \in Seq(Slot) /\ SlotsOf(<<slot>>) = {slot} /\ NoRepeat(<<slot>>)
  BY OneSlot
<1>4. a \o <<slot>> \in Seq(Slot) /\ SlotsOf(a \o <<slot>>) = SlotsOf(a) \cup {slot}
  <2>1. a \o <<slot>> \in Seq(Slot)
    BY <1>1, <1>3, ConcatProperties
  <2>2. SlotsOf(a \o <<slot>>) = SlotsOf(a) \cup SlotsOf(<<slot>>)
    BY <1>1, <1>3, ConcatSlots, Zenon
  <2> QED
    BY <1>3, <2>1, <2>2
<1>5. /\ (a \o <<slot>>) \o b \in Seq(Slot)
      /\ SlotsOf((a \o <<slot>>) \o b) = SlotsOf(a \o <<slot>>) \cup SlotsOf(b)
  BY <1>1, <1>4, ConcatProperties, ConcatSlots
<1>6. SlotsOf(s) = SlotsOf(a) \cup SlotsOf(b)
  BY <1>1, ConcatSlots
<1>7. ASSUME NoRepeat(s), slot \notin SlotsOf(s)
      PROVE  NoRepeat((a \o <<slot>>) \o b)
  <2>1. NoRepeat(a) /\ NoRepeat(b) /\ SlotsOf(a) \cap SlotsOf(b) = {}
    BY <1>1, <1>7, ConcatNoRepeat
  <2>2. SlotsOf(a) \cap SlotsOf(<<slot>>) = {}
    BY <1>3, <1>6, <1>7
  <2>3. NoRepeat(a \o <<slot>>)
    BY <1>1, <1>3, <2>1, <2>2, ConcatNoRepeat
  <2>4. SlotsOf(a \o <<slot>>) \cap SlotsOf(b) = {}
    BY <1>4, <1>6, <1>7, <2>1
  <2> QED
    BY <1>1, <1>4, <2>1, <2>3, <2>4, ConcatNoRepeat
<1> QED
  BY <1>2, <1>5, <1>4, <1>6, <1>7, Inserted

-----------------------------------------------------------------------------
(* The invariant.                                                          *)

\* The pool is as large as its parts: what bounds the index by the capacity.
PoolSize == Len(sorted) + Len(free_stack) + (IF held = NoSlot THEN 0 ELSE 1) = Capacity

\* The playback task has at most one frame: it takes none while it holds one.
TakesOne == taking # "idle" => held = NoSlot

PoolInv == /\ TypeOK /\ PoolSize /\ TakesOne
           /\ SlotsConserved /\ HeldFrameStable /\ MirrorExact

\* The lengths are numbers, and the index never outgrows its array.
LEMMA Lengths ==
    ASSUME TypeOK, PoolSize
    PROVE  /\ Len(sorted) \in 0..Capacity
           /\ Len(free_stack) \in 0..Capacity
           /\ Overflow \in 0..Len(sorted)
<1>1. Len(sorted) \in Nat /\ Len(free_stack) \in Nat
  BY LenProperties DEF TypeOK
<1>2. Len(sorted) \in 0..Capacity /\ Len(free_stack) \in 0..Capacity
  BY <1>1, CapacityAssumption DEF PoolSize
<1> QED
  BY <1>2, CapacityAssumption DEF Overflow, count

\* The empty buffer: every slot is on the free stack, once.
LEMMA PoolInit == Init => PoolInv
<1> SUFFICES ASSUME Init PROVE PoolInv
  OBVIOUS
<1>1. Capacity \in Nat /\ 1 <= Capacity
  BY CapacityAssumption
<1>2. \A i \in 1..Capacity : i - 1 \in Slot
  BY <1>1 DEF Slot
<1>3. /\ free_stack \in Seq(Slot) /\ Len(free_stack) = Capacity
      /\ DOMAIN free_stack = 1..Capacity
      /\ \A i \in 1..Capacity : free_stack[i] = i - 1
  <2>1. free_stack \in [1..Capacity -> Slot]
    BY <1>2 DEF Init
  <2> QED
    BY <1>1, <2>1, SeqDef DEF Init
<1>4. NoRepeat(free_stack)
  BY <1>1, <1>3 DEF NoRepeat
<1>5. SlotsOf(free_stack) = Slot
  <2>1. \A x \in Slot : x + 1 \in 1..Capacity /\ x = (x + 1) - 1
    BY <1>1 DEF Slot
  <2> QED
    BY <1>2, <1>3, <2>1 DEF SlotsOf
<1>6. sorted \in Seq(Slot) /\ Len(sorted) = 0 /\ SlotsOf(sorted) = {} /\ NoRepeat(sorted)
  BY DEF Init, SlotsOf, NoRepeat
<1>7. 0 \in Timestamp
  BY ModulusAssumption DEF Timestamp
<1>8. TypeOK
  BY <1>1, <1>3, <1>6, <1>7, ChunksAssumption DEF Init, TypeOK, Idle
<1>9. PoolSize
  BY <1>1, <1>3, <1>6 DEF Init, PoolSize
<1>10. SlotsConserved
  BY <1>3, <1>4, <1>5, <1>6 DEF Init, SlotsConserved, SlotsDisjoint, HeldSet
<1>11. HeldFrameStable /\ MirrorExact /\ TakesOne
  BY <1>6 DEF Init, HeldFrameStable, MirrorExact, count, TakesOne
<1> QED
  BY <1>8, <1>9, <1>10, <1>11 DEF PoolInv

\* A step that leaves the pool and the held slot alone.
LEMMA PoolUntouched ==
    ASSUME PoolInv, TypeOK', TakesOne', UNCHANGED <<pool, held, heldStamp>>
    PROVE  PoolInv'
BY DEF PoolInv, PoolSize, SlotsConserved, SlotsDisjoint, HeldSet, HeldFrameStable,
       MirrorExact, count, pool, SlotsOf, NoRepeat

\* Timestamp arithmetic stays in range.
LEMMA TimestampSum == \A t \in Timestamp : (t + ChunkLen) % Modulus \in Timestamp
BY ModulusAssumption, ChunksAssumption DEF Timestamp

-----------------------------------------------------------------------------
(* The steps that touch no slot.                                           *)

\* A packet arrives.
LEMMA QueueDecodedKeeps ==
    ASSUME PoolInv, NEW p \in Producers, QueueDecoded(p)
    PROVE  PoolInv'
<1>1. TypeOK
  BY DEF PoolInv
<1>2. PICK n \in 1..MaxChunks, t \in Timestamp :
          queuing' = [queuing EXCEPT ![p] = [left |-> n, next |-> t, give |-> FALSE]]
  BY DEF QueueDecoded
<1>3. UNCHANGED <<pool, tokens, playback, draining>>
  BY DEF QueueDecoded
<1>4. TypeOK'
  BY <1>1, <1>2, <1>3, ChunksAssumption DEF TypeOK, pool, playback
<1> QED
  BY <1>3, <1>4, PoolUntouched DEF playback, PoolInv, TakesOne

\* A packet is dropped for want of a slot.
LEMMA QueueFullKeeps ==
    ASSUME PoolInv, NEW p \in Producers, QueueFull(p)
    PROVE  PoolInv'
<1>1. 0 \in Timestamp
  BY ModulusAssumption DEF Timestamp
<1>2. TypeOK'
  BY <1>1, ChunksAssumption DEF PoolInv, TypeOK, QueueFull, Idle, pool, playback
<1> QED
  BY <1>2, PoolUntouched DEF QueueFull, playback, PoolInv, TakesOne

\* The give after a chunk.
LEMMA QueueGiveKeeps ==
    ASSUME PoolInv, NEW p \in Producers, QueueGive(p)
    PROVE  PoolInv'
<1>1. TypeOK /\ 0 \in Timestamp
  BY ModulusAssumption DEF PoolInv, Timestamp
<1>2. tokens' \in 0..Capacity
  BY <1>1, CapacityAssumption DEF TypeOK, QueueGive
<1>3. queuing' \in [Producers -> [left : 0..MaxChunks, next : Timestamp, give : BOOLEAN]]
  <2>1. queuing[p].left - 1 \in 0..MaxChunks
    BY <1>1, ChunksAssumption DEF TypeOK, QueueGive
  <2>2. (queuing[p].next + ChunkLen) % Modulus \in Timestamp
    BY <1>1, TimestampSum DEF TypeOK
  <2> QED
    BY <1>1, <2>1, <2>2, ChunksAssumption DEF TypeOK, QueueGive, Idle
<1>4. TypeOK'
  BY <1>1, <1>2, <1>3 DEF TypeOK, QueueGive, pool, playback
<1> QED
  BY <1>4, PoolUntouched DEF QueueGive, playback, PoolInv, TakesOne

\* The semaphore and the count are looked at, a frame is not taken yet.
LEMMA TakeLooks ==
    ASSUME PoolInv, TakeToken \/ TakeNoToken \/ TakeRecheck
    PROVE  PoolInv'
<1>1. TypeOK'
  BY CapacityAssumption
  DEF PoolInv, TypeOK, TakeToken, TakeNoToken, TakeRecheck, pool
<1> QED
  BY <1>1, PoolUntouched
  DEF TakeToken, TakeNoToken, TakeRecheck, PoolInv, TakesOne

\* The drain of the semaphore.
LEMMA FlushDrainKeeps ==
    ASSUME PoolInv, NEW f \in Flushers \cup {Player}, FlushDrain(f)
    PROVE  PoolInv'
<1>1. TypeOK'
  BY CapacityAssumption DEF PoolInv, TypeOK, FlushDrain, pool, playback
<1> QED
  BY <1>1, PoolUntouched DEF FlushDrain, playback, PoolInv, TakesOne

-----------------------------------------------------------------------------
(* The steps that move slots.                                              *)

\* A take moves the first slot of the index to the playback task.
LEMMA TakeOldestKeeps ==
    ASSUME PoolInv, TakeOldest
    PROVE  PoolInv'
<1>1. TypeOK /\ PoolSize /\ SlotsConserved /\ held = NoSlot
  BY DEF PoolInv, TakesOne, TakeOldest
<1>2. CASE count = 0
  <2>1. TypeOK'
    BY <1>1, <1>2 DEF TypeOK, TakeOldest
  <2> QED
    BY <1>2, <2>1, PoolUntouched DEF TakeOldest, pool, TakesOne
<1>3. CASE count # 0
  <2> DEFINE first == Head(sorted)
             rest == Tail(sorted)
  <2>1. /\ sorted \in Seq(Slot) /\ Len(sorted) \in 1..Capacity /\ sorted # <<>>
        /\ Len(sorted) = count
    BY <1>1, <1>3, Lengths, EmptySeq DEF TypeOK, count
  <2>2. first \in Slot /\ rest \in Seq(Slot) /\ Len(rest) = Len(sorted) - 1
    BY <2>1, HeadTailProperties
  <2>3. sorted = <<first>> \o rest
    <3>1. 1 \in 1..Len(sorted) /\ Len(sorted) \in 1..Len(sorted)
      BY <2>1
    <3>2. SubSeq(sorted, 1, Len(sorted)) = <<sorted[1]>> \o SubSeq(sorted, 1 + 1, Len(sorted))
      BY <2>1, <3>1, SubSeqRecursiveFirst, Zenon
    <3>3. rest = SubSeq(sorted, 2, Len(sorted)) /\ SubSeq(sorted, 1, Len(sorted)) = sorted
      BY <2>1, TailIsSubSeq, SubSeqFull
    <3> QED
      BY <3>2, <3>3, <2>1
  <2>4. /\ SlotsOf(sorted) = {first} \cup SlotsOf(rest)
        /\ NoRepeat(rest) /\ first \notin SlotsOf(rest)
    <3>1. SlotsOf(<<first>>) = {first} /\ <<first>> \in Seq(Slot)
      BY <2>2, OneSlot
    <3>2. SlotsOf(<<first>> \o rest) = SlotsOf(<<first>>) \cup SlotsOf(rest)
      BY <2>2, <3>1, ConcatSlots
    <3>3. NoRepeat(<<first>> \o rest) => NoRepeat(rest) /\ SlotsOf(<<first>>) \cap SlotsOf(rest) = {}
      BY <2>2, <3>1, ConcatNoRepeat
    <3> QED
      BY <1>1, <2>3, <3>1, <3>2, <3>3 DEF SlotsConserved, SlotsDisjoint
  <2>5. /\ held' = first /\ sorted' = rest /\ heldStamp' = stamp[first]
        /\ count_mirror' = Len(rest)
        /\ UNCHANGED <<free_stack, stamp, tokens, queuing, draining>> /\ taking' = "idle"
    BY <1>3 DEF TakeOldest
  <2> HIDE DEF first, rest
  <2>6. Len(rest) \in 0..Capacity /\ first # NoSlot
    BY <2>1, <2>2, NoSlotAssumption, CapacityAssumption DEF Slot
  <2>7. TypeOK'
    BY <1>1, <2>2, <2>5, <2>6 DEF TypeOK
  <2>8. PoolSize'
    BY <1>1, <1>3, <2>2, <2>5, <2>6, <2>1, Lengths, CapacityAssumption DEF PoolSize
  <2>9. SlotsConserved'
    <3>1. HeldSet' = {first} /\ HeldSet = {}
      BY <1>1, <2>5, <2>6 DEF HeldSet
    <3>2. NoRepeat(free_stack) /\ SlotsOf(sorted) \cap SlotsOf(free_stack) = {}
          /\ SlotsOf(sorted) \cup SlotsOf(free_stack) = Slot
      BY <1>1, <3>1 DEF SlotsConserved, SlotsDisjoint
    <3> QED
      BY <2>4, <2>5, <3>1, <3>2 DEF SlotsConserved, SlotsDisjoint
  <2>10. HeldFrameStable' /\ MirrorExact' /\ TakesOne'
    BY <2>5 DEF HeldFrameStable, MirrorExact, count, TakesOne
  <2> QED
    BY <2>7, <2>8, <2>9, <2>10 DEF PoolInv
<1> QED
  BY <1>2, <1>3 DEF TakeOldest

\* A return moves the held slot to the free stack.
LEMMA ReturnKeeps ==
    ASSUME PoolInv, Return
    PROVE  PoolInv'
<1>1. TypeOK /\ PoolSize /\ SlotsConserved /\ HeldFrameStable /\ MirrorExact /\ TakesOne
  BY DEF PoolInv
<1>2. /\ held \in Slot /\ held # NoSlot /\ HeldSet = {held}
      /\ free_stack \in Seq(Slot)
      /\ free_stack' = free_stack \o <<held>> /\ held' = NoSlot /\ heldStamp' = 0
      /\ UNCHANGED <<sorted, count_mirror, stamp, tokens, queuing, taking, draining>>
  BY <1>1, AppendIsConcat DEF TypeOK, Return, HeldSet
<1>3. <<held>> \in Seq(Slot) /\ Len(<<held>>) = 1 /\ SlotsOf(<<held>>) = {held}
      /\ NoRepeat(<<held>>)
  BY <1>2, OneSlot
<1>4. free_stack' \in Seq(Slot) /\ Len(free_stack') = Len(free_stack) + 1
  BY <1>2, <1>3, ConcatProperties
<1>5. SlotsOf(free_stack') = SlotsOf(free_stack) \cup {held}
  BY <1>2, <1>3, ConcatSlots
<1>6. NoRepeat(free_stack')
  <2>1. NoRepeat(free_stack) /\ SlotsOf(free_stack) \cap {held} = {}
    BY <1>1, <1>2 DEF SlotsConserved, SlotsDisjoint
  <2>2. NoRepeat(free_stack \o <<held>>)
    BY <1>2, <1>3, <2>1, ConcatNoRepeat
  <2> QED
    BY <1>2, <2>2
<1>7. TypeOK'
  BY <1>1, <1>2, <1>4, ModulusAssumption DEF TypeOK, Timestamp
<1>8. PoolSize'
  BY <1>1, <1>2, <1>4, Lengths, CapacityAssumption DEF PoolSize
<1>9. SlotsConserved'
  <2>1. HeldSet' = {}
    BY <1>2 DEF HeldSet
  <2> QED
    BY <1>1, <1>2, <1>5, <1>6, <2>1 DEF SlotsConserved, SlotsDisjoint
<1>10. HeldFrameStable' /\ MirrorExact' /\ TakesOne'
  BY <1>1, <1>2 DEF HeldFrameStable, MirrorExact, count, TakesOne
<1> QED
  BY <1>7, <1>8, <1>9, <1>10 DEF PoolInv

\* A flush moves the whole index to the free stack.
LEMMA FlushSlotsKeeps ==
    ASSUME PoolInv, NEW f \in Flushers \cup {Player}, FlushSlots(f)
    PROVE  PoolInv'
<1>1. TypeOK /\ PoolSize /\ SlotsConserved /\ HeldFrameStable /\ TakesOne
  BY DEF PoolInv
<1>2. /\ sorted \in Seq(Slot) /\ free_stack \in Seq(Slot)
      /\ free_stack' = free_stack \o sorted /\ sorted' = <<>> /\ count_mirror' = 0
      /\ draining' = draining \cup {f}
      /\ UNCHANGED <<stamp, tokens, queuing, taking, held, heldStamp>>
  BY <1>1 DEF TypeOK, FlushSlots, playback
<1>3. free_stack' \in Seq(Slot) /\ Len(free_stack') = Len(free_stack) + Len(sorted)
  BY <1>2, ConcatProperties
<1>4. SlotsOf(free_stack') = SlotsOf(free_stack) \cup SlotsOf(sorted) /\ NoRepeat(free_stack')
  BY <1>1, <1>2, ConcatSlots, ConcatNoRepeat DEF SlotsConserved, SlotsDisjoint
<1>5. sorted' \in Seq(Slot) /\ Len(sorted') = 0 /\ SlotsOf(sorted') = {} /\ NoRepeat(sorted')
  BY <1>2 DEF SlotsOf, NoRepeat
<1>6. TypeOK'
  BY <1>1, <1>2, <1>3, <1>5, CapacityAssumption DEF TypeOK
<1>7. PoolSize'
  BY <1>1, <1>2, <1>3, <1>5, Lengths, CapacityAssumption DEF PoolSize
<1>8. SlotsConserved'
  BY <1>1, <1>2, <1>4, <1>5 DEF SlotsConserved, SlotsDisjoint, HeldSet
<1>9. HeldFrameStable' /\ MirrorExact' /\ TakesOne'
  BY <1>1, <1>2, <1>5 DEF HeldFrameStable, MirrorExact, count, TakesOne
<1> QED
  BY <1>6, <1>7, <1>8, <1>9 DEF PoolInv

\* The parts of a chunk's critical section: the frames that stay, the free
\* stack once the overflow is on it, the slot on top of that stack and what
\* is left below it.
Kept == SubSeq(sorted, Overflow + 1, count)
Drained == SubSeq(sorted, 1, Overflow)
FreeStack == free_stack \o Drained
TopSlot == FreeStack[Len(FreeStack)]
BelowTop == SubSeq(FreeStack, 1, Len(FreeStack) - 1)

\* The index is split, its front drained.
LEMMA IndexParts ==
    ASSUME PoolInv
    PROVE  /\ Drained \in Seq(Slot) /\ Kept \in Seq(Slot)
           /\ Len(Drained) = Overflow /\ Len(Kept) = Len(sorted) - Overflow
           /\ SlotsOf(sorted) = SlotsOf(Drained) \cup SlotsOf(Kept)
           /\ NoRepeat(Drained) /\ NoRepeat(Kept)
           /\ SlotsOf(Drained) \cap SlotsOf(Kept) = {}
<1>1. /\ sorted \in Seq(Slot) /\ NoRepeat(sorted)
      /\ Overflow \in 0..Len(sorted) /\ count = Len(sorted)
  BY Lengths DEF PoolInv, TypeOK, SlotsConserved, SlotsDisjoint, count
<1>2. /\ Drained \in Seq(Slot) /\ Kept \in Seq(Slot)
      /\ Len(Drained) = Overflow /\ Len(Kept) = Len(sorted) - Overflow
      /\ sorted = Drained \o Kept
  BY <1>1, SplitSeq DEF Kept, Drained
<1>3. NoRepeat(Drained \o Kept)
  BY <1>1, <1>2
<1> QED
  BY <1>2, <1>3, ConcatSlots, ConcatNoRepeat

\* The free stack holds what was free and what is drained, once.
LEMMA StackParts ==
    ASSUME PoolInv
    PROVE  /\ FreeStack \in Seq(Slot) /\ Len(FreeStack) = Len(free_stack) + Overflow
           /\ SlotsOf(FreeStack) = SlotsOf(free_stack) \cup SlotsOf(Drained)
           /\ NoRepeat(FreeStack)
<1>1. free_stack \in Seq(Slot)
  BY DEF PoolInv, TypeOK
<1>2. /\ Drained \in Seq(Slot) /\ Len(Drained) = Overflow /\ NoRepeat(Drained)
      /\ SlotsOf(Drained) \subseteq SlotsOf(sorted)
  BY IndexParts
<1>3. NoRepeat(free_stack) /\ SlotsOf(free_stack) \cap SlotsOf(Drained) = {}
  BY <1>2 DEF PoolInv, SlotsConserved, SlotsDisjoint
<1>4. FreeStack \in Seq(Slot) /\ Len(FreeStack) = Len(free_stack) + Len(Drained)
  BY <1>1, <1>2, ConcatProperties DEF FreeStack
<1>5. SlotsOf(FreeStack) = SlotsOf(free_stack) \cup SlotsOf(Drained)
  BY <1>1, <1>2, ConcatSlots DEF FreeStack
<1>6. NoRepeat(FreeStack)
  BY <1>1, <1>2, <1>3, ConcatNoRepeat DEF FreeStack
<1> QED
  BY <1>2, <1>4, <1>5, <1>6

\* The slot a chunk gets was free or is one the overflow frees: no frame that
\* stays is in it.
LEMMA TopSlotFresh ==
    ASSUME PoolInv, FreeStack # <<>>
    PROVE  /\ Len(FreeStack) \in Nat \ {0}
           /\ BelowTop \in Seq(Slot) /\ Len(BelowTop) = Len(FreeStack) - 1
           /\ TopSlot \in Slot /\ TopSlot \notin SlotsOf(Kept)
           /\ SlotsOf(FreeStack) = SlotsOf(BelowTop) \cup {TopSlot}
           /\ NoRepeat(BelowTop) /\ TopSlot \notin SlotsOf(BelowTop)
<1> DEFINE stack == FreeStack
           slot == TopSlot
           rest == BelowTop
<1>1. stack \in Seq(Slot) /\ NoRepeat(stack)
      /\ SlotsOf(stack) = SlotsOf(free_stack) \cup SlotsOf(Drained)
  BY StackParts
<1>2. /\ SlotsOf(sorted) = SlotsOf(Drained) \cup SlotsOf(Kept)
      /\ SlotsOf(Drained) \cap SlotsOf(Kept) = {}
  BY IndexParts
<1>3. /\ Len(stack) \in Nat \ {0}
      /\ rest \in Seq(Slot) /\ Len(rest) = Len(stack) - 1
      /\ slot \in Slot
      /\ stack = rest \o <<slot>>
  <2>1. Len(stack) \in Nat \ {0}
    BY <1>1, EmptySeq
  <2>2. slot \in Slot
    BY <1>1, <2>1, ElementOfSeq DEF TopSlot
  <2>3. rest \in Seq(Slot) /\ Len(rest) = Len(stack) - 1
    <3>1. Len(stack) - 1 \in 0..Len(stack)
      BY <2>1
    <3> QED
      BY <1>1, <3>1, SplitSeq DEF BelowTop
  <2>4. 1 \in 1..Len(stack) /\ Len(stack) \in 1..Len(stack)
    BY <2>1
  <2>5. SubSeq(stack, 1, Len(stack)) = SubSeq(stack, 1, Len(stack) - 1) \o <<stack[Len(stack)]>>
    BY <1>1, <2>4, SubSeqRecursiveSecond, Zenon
  <2>6. SubSeq(stack, 1, Len(stack)) = stack
    BY <1>1, SubSeqFull
  <2> QED
    BY <2>1, <2>2, <2>3, <2>5, <2>6 DEF TopSlot, BelowTop
<1> HIDE DEF stack, slot, rest
<1>4. <<slot>> \in Seq(Slot) /\ SlotsOf(<<slot>>) = {slot}
  BY <1>3, OneSlot
<1>5. SlotsOf(stack) = SlotsOf(rest) \cup {slot}
  BY <1>3, <1>4, ConcatSlots
<1>6. NoRepeat(rest) /\ slot \notin SlotsOf(rest)
  BY <1>1, <1>3, <1>4, ConcatNoRepeat
<1>7. slot \notin SlotsOf(Kept)
  <2>1. slot \in SlotsOf(free_stack) \cup SlotsOf(Drained)
    BY <1>1, <1>5
  <2>2. SlotsOf(sorted) \cap SlotsOf(free_stack) = {}
    BY DEF PoolInv, SlotsConserved, SlotsDisjoint
  <2> QED
    BY <1>2, <2>1, <2>2
<1> QED
  BY <1>3, <1>5, <1>6, <1>7 DEF stack, slot, rest

\* A chunk: the overflow moves the oldest slots to the free stack, the last
\* slot of that stack gets the frame and goes into the index.
LEMMA QueueChunkKeeps ==
    ASSUME PoolInv, NEW p \in Producers, QueueChunk(p)
    PROVE  PoolInv'
<1> DEFINE t == queuing[p].next
           drained == Drained
           kept == Kept
           stack == FreeStack
           slot == TopSlot
           rest == BelowTop
<1>1. TypeOK /\ PoolSize /\ SlotsConserved /\ HeldFrameStable /\ TakesOne
  BY DEF PoolInv
<1>2. /\ sorted \in Seq(Slot) /\ free_stack \in Seq(Slot) /\ t \in Timestamp
      /\ Len(sorted) \in 0..Capacity /\ Len(free_stack) \in 0..Capacity
      /\ Overflow \in 0..Len(sorted) /\ count = Len(sorted)
  BY <1>1, Lengths DEF TypeOK, count
<1>3. PICK pos \in 0..Len(kept) : sorted' = InsertAt(kept, pos, slot)
  BY DEF QueueChunk, Kept, TopSlot, FreeStack, Drained
<1>4. /\ stack # <<>>
      /\ free_stack' = rest
      /\ stamp' = [stamp EXCEPT ![slot] = t]
      /\ count_mirror' = Len(sorted')
      /\ tokens' = IF tokens > Overflow THEN tokens - Overflow ELSE 0
      /\ queuing' = [queuing EXCEPT ![p].give = TRUE]
      /\ UNCHANGED <<taking, held, heldStamp, draining>>
  BY DEF QueueChunk, playback, BelowTop, TopSlot, FreeStack, Drained
<1> HIDE DEF t, drained, kept, stack, slot, rest
<1>5. /\ drained \in Seq(Slot) /\ kept \in Seq(Slot)
      /\ Len(drained) = Overflow /\ Len(kept) = Len(sorted) - Overflow
  BY IndexParts DEF drained, kept
<1>6. /\ SlotsOf(sorted) = SlotsOf(drained) \cup SlotsOf(kept)
      /\ NoRepeat(drained) /\ NoRepeat(kept)
      /\ SlotsOf(drained) \cap SlotsOf(kept) = {}
  BY IndexParts DEF drained, kept
<1>7. /\ stack \in Seq(Slot) /\ Len(stack) = Len(free_stack) + Overflow
      /\ SlotsOf(stack) = SlotsOf(free_stack) \cup SlotsOf(drained)
      /\ NoRepeat(stack)
  BY StackParts DEF stack, drained
<1>8. /\ Len(stack) \in Nat \ {0}
      /\ rest \in Seq(Slot) /\ Len(rest) = Len(stack) - 1
      /\ slot \in Slot /\ slot \notin SlotsOf(kept)
  BY <1>4, TopSlotFresh DEF stack, rest, slot, kept
<1>9. <<slot>> \in Seq(Slot) /\ Len(<<slot>>) = 1 /\ SlotsOf(<<slot>>) = {slot}
      /\ NoRepeat(<<slot>>)
  BY <1>8, OneSlot
<1>10. /\ SlotsOf(stack) = SlotsOf(rest) \cup {slot}
       /\ NoRepeat(rest) /\ slot \notin SlotsOf(rest)
  BY <1>4, TopSlotFresh DEF stack, rest, slot
\* The index gets it.
<1>11. /\ sorted' \in Seq(Slot) /\ Len(sorted') = Len(kept) + 1
       /\ SlotsOf(sorted') = SlotsOf(kept) \cup {slot}
       /\ NoRepeat(sorted')
  BY <1>3, <1>5, <1>6, <1>8, InsertedSlots
<1>12. Len(sorted') + Len(free_stack') = Len(sorted) + Len(free_stack)
       /\ Len(sorted') \in Nat /\ Len(free_stack') \in Nat
  <2>1. Len(sorted') = Len(sorted) - Overflow + 1
    BY <1>5, <1>11
  <2>2. Len(free_stack') = (Len(free_stack) + Overflow) - 1
    <3>1. Len(free_stack') = Len(stack) - 1 /\ Len(stack) = Len(free_stack) + Overflow
      BY <1>4, <1>7, <1>8
    <3> QED
      BY <3>1, Zenon
  <2>3. Overflow \in Nat /\ Len(sorted) \in Nat /\ Len(free_stack) \in Nat
    BY <1>2
  <2>4. Len(sorted') \in Nat /\ Len(free_stack') \in Nat
    BY <1>4, <1>8, <1>11, LenProperties
  <2> QED
    BY <2>1, <2>2, <2>3, <2>4
<1>13. PoolSize'
  BY <1>1, <1>4, <1>12 DEF PoolSize
<1>14. TypeOK'
  <2>1. Len(sorted') \in 0..Capacity
    BY <1>12, <1>13, CapacityAssumption DEF PoolSize
  <2>2. tokens' \in 0..Capacity
    BY <1>1, <1>2, <1>4, CapacityAssumption DEF TypeOK
  <2>3. stamp' \in [Slot -> Timestamp]
    BY <1>1, <1>2, <1>4 DEF TypeOK
  <2>4. queuing' \in [Producers -> [left : 0..MaxChunks, next : Timestamp, give : BOOLEAN]]
    BY <1>1, <1>4 DEF TypeOK
  <2> QED
    BY <1>1, <1>4, <1>8, <1>11, <2>1, <2>2, <2>3, <2>4 DEF TypeOK
<1>15. SlotsConserved'
  <2>1. HeldSet' = HeldSet
    BY <1>4 DEF HeldSet
  <2> QED
    BY <1>1, <1>4, <1>6, <1>7, <1>10, <1>11, <2>1 DEF SlotsConserved, SlotsDisjoint
<1>16. HeldFrameStable'
  <2>1. held # NoSlot => held # slot
    <3>1. slot \in SlotsOf(free_stack) \cup SlotsOf(sorted)
      BY <1>6, <1>7, <1>10
    <3> QED
      BY <1>1, <3>1 DEF SlotsConserved, SlotsDisjoint, HeldSet
  <2> QED
    BY <1>1, <1>4, <2>1 DEF HeldFrameStable, TypeOK
<1>17. MirrorExact' /\ TakesOne'
  BY <1>1, <1>4 DEF MirrorExact, count, TakesOne
<1> QED
  BY <1>13, <1>14, <1>15, <1>16, <1>17 DEF PoolInv

-----------------------------------------------------------------------------

\* Every step keeps the invariant.
LEMMA PoolNext == PoolInv /\ [Next]_vars => PoolInv'
<1> SUFFICES ASSUME PoolInv, [Next]_vars
             PROVE  PoolInv'
  OBVIOUS
<1>1. ASSUME NEW p \in Producers,
             QueueDecoded(p) \/ QueueChunk(p) \/ QueueFull(p) \/ QueueGive(p)
      PROVE  PoolInv'
  BY <1>1, QueueDecodedKeeps, QueueChunkKeeps, QueueFullKeeps, QueueGiveKeeps
<1>2. CASE Play
  BY <1>2, TakeLooks, TakeOldestKeeps, ReturnKeeps DEF Play
<1>3. ASSUME NEW f \in Flushers \cup {Player}, FlushSlots(f) \/ FlushDrain(f)
      PROVE  PoolInv'
  BY <1>3, FlushSlotsKeeps, FlushDrainKeeps
<1>4. CASE UNCHANGED vars
  <2>1. TypeOK'
    BY <1>4 DEF PoolInv, TypeOK, vars
  <2> QED
    BY <1>4, <2>1, PoolUntouched DEF PoolInv, TakesOne, vars, pool
<1> QED
  BY <1>1, <1>2, <1>3, <1>4 DEF Next

\* The invariant holds in every state.
LEMMA PoolInvariant == Spec => []PoolInv
BY PoolInit, PoolNext, PTL DEF Spec

\* The indices, counts and timestamps of audio_buffer.c stay in their ranges;
\* count, in particular, never passes the end of sorted[].
THEOREM TypeCorrect == Spec => []TypeOK
<1>1. PoolInv => TypeOK
  BY DEF PoolInv
<1> QED
  BY <1>1, PoolInvariant, PTL

\* No interleaving of audio_buffer_queue_chunk, take, return and flush leaks a
\* slot of the pool or gives one to two owners.
THEOREM PoolConserved == Spec => []SlotsConserved
<1>1. PoolInv => SlotsConserved
  BY DEF PoolInv
<1> QED
  BY <1>1, PoolInvariant, PTL

\* The playback task may read the frame it took without the lock: nobody writes
\* its slot before audio_buffer_return.
THEOREM HeldFrameKept == Spec => []HeldFrameStable
<1>1. PoolInv => HeldFrameStable
  BY DEF PoolInv
<1> QED
  BY <1>1, PoolInvariant, PTL

\* count_mirror, read without the lock, is the count of the last critical
\* section.
THEOREM MirrorKept == Spec => []MirrorExact
<1>1. PoolInv => MirrorExact
  BY DEF PoolInv
<1> QED
  BY <1>1, PoolInvariant, PTL

\* audio_buffer_queue_chunk drops a frame for want of a slot only while the
\* playback task holds the one that is missing.
THEOREM DropsAreRare == Spec => DropOnlyWhileHeld
<1>1. ASSUME PoolInv, NEW p \in Producers, QueueFull(p)
      PROVE  held # NoSlot /\ count = Capacity - 1
  <2>1. Len(free_stack) = 0 /\ count < Capacity /\ count = Len(sorted) /\ count \in Nat
    <3>1. /\ Len(sorted) \in 0..Capacity /\ free_stack = <<>> /\ Overflow = 0
          /\ count = Len(sorted)
      BY <1>1, Lengths DEF PoolInv, QueueFull, count
    <3>2. count < Capacity
      BY <3>1, CapacityAssumption DEF Overflow
    <3> QED
      BY <3>1, <3>2
  <2>2. Len(sorted) + (IF held = NoSlot THEN 0 ELSE 1) = Capacity
    BY <1>1, <2>1 DEF PoolInv, PoolSize
  <2> QED
    BY <2>1, <2>2, CapacityAssumption
<1>2. PoolInv /\ [Next]_vars =>
        [\A p \in Producers : QueueFull(p) => held # NoSlot /\ count = Capacity - 1]_vars
  BY <1>1
<1> QED
  BY <1>2, PoolInvariant, PTL DEF Spec, DropOnlyWhileHeld

-----------------------------------------------------------------------------
(* The order of the index.                                                 *)

\* What is buffered and what is on its way fits in half the circle from some
\* timestamp.
OnArc(b) == \A t \in StampsInPlay : Dist(b, t) < Half

InArc == \E b \in Timestamp : OnArc(b)

\* What the order of the index rests on: the pool, for the slot a chunk gets is
\* none of the index, and the arc, for there Before is an order.
OrderInv == PoolInv /\ IndexSorted /\ InArc

\* The stamps in play are timestamps.
LEMMA StampsAreTimestamps ==
    ASSUME TypeOK
    PROVE  StampsInPlay \subseteq Timestamp
<1>1. ASSUME NEW s \in SlotsOf(sorted) PROVE stamp[s] \in Timestamp
  <2>1. \A i \in DOMAIN sorted : sorted[i] \in Slot
    BY ElementOfSeq, LenProperties DEF TypeOK
  <2> QED
    BY <2>1 DEF TypeOK, SlotsOf
<1>2. ASSUME NEW p \in Producers
      PROVE  ChunkStamps(queuing[p].next, queuing[p].left) \subseteq Timestamp
  <2>1. queuing[p].next \in Timestamp /\ queuing[p].left \in 0..MaxChunks
    BY DEF TypeOK
  <2>2. ASSUME NEW k \in 0..(queuing[p].left - 1)
        PROVE  (queuing[p].next + k * ChunkLen) % Modulus \in Timestamp
    <3>1. k \in Int /\ k * ChunkLen \in Int
      BY <2>1, ChunksAssumption
    <3>2. queuing[p].next + k * ChunkLen \in Int
      BY <2>1, <3>1, ModulusAssumption DEF Timestamp
    <3> QED
      BY <3>2, ModulusAssumption DEF Timestamp
  <2> QED
    BY <2>2 DEF ChunkStamps
<1> QED
  BY <1>1, <1>2 DEF StampsInPlay

\* Distances are numbers, and in the arc they order the stamps.
LEMMA ArcDistances ==
    ASSUME TypeOK, NEW b \in Timestamp, OnArc(b)
    PROVE  \A x, y \in StampsInPlay :
              Dist(b, x) \in Int /\ (Before(x, y) <=> Dist(b, x) < Dist(b, y))
<1> SUFFICES ASSUME NEW x \in StampsInPlay, NEW y \in StampsInPlay
             PROVE  Dist(b, x) \in Int /\ (Before(x, y) <=> Dist(b, x) < Dist(b, y))
  OBVIOUS
<1>1. x \in Timestamp /\ y \in Timestamp
  BY StampsAreTimestamps
<1>2. Dist(b, x) \in Int
  BY <1>1, ModulusAssumption DEF Dist, Timestamp
<1> QED
  BY <1>1, <1>2, ArcOrder DEF OnArc

\* The index in the order of the distances.
LEMMA SortedByDistance ==
    ASSUME TypeOK, NEW b \in Timestamp, OnArc(b)
    PROVE  IndexSorted <=>
             \A i, j \in 1..count : i < j => Dist(b, stamp[sorted[i]]) <= Dist(b, stamp[sorted[j]])
<1>1. \A i \in 1..count : stamp[sorted[i]] \in StampsInPlay
  <2>1. DOMAIN sorted = 1..count
    BY LenProperties DEF TypeOK, count
  <2> QED
    BY <2>1 DEF StampsInPlay, SlotsOf
<1>2. ASSUME NEW i \in 1..count, NEW j \in 1..count
      PROVE  ~Before(stamp[sorted[j]], stamp[sorted[i]])
                <=> Dist(b, stamp[sorted[i]]) <= Dist(b, stamp[sorted[j]])
  BY <1>1, ArcDistances
<1> QED
  BY <1>2 DEF IndexSorted

\* The arc of the next state.
LEMMA ArcNext ==
    (\E b \in Timestamp : \A t \in StampsInPlay' : Dist(b, t) < Half) => InArc'
BY DEF InArc, OnArc, Dist, Timestamp, Half

\* Fewer stamps stay in the arc.
LEMMA FewerStamps ==
    ASSUME InArc, StampsInPlay' \subseteq StampsInPlay
    PROVE  InArc'
BY DEF InArc, OnArc, Dist, Timestamp, Half

\* An empty buffer and no packet.
LEMMA OrderInit == Init => OrderInv
<1> SUFFICES ASSUME Init PROVE OrderInv
  OBVIOUS
<1>1. PoolInv
  BY PoolInit
<1>2. IndexSorted
  BY DEF Init, IndexSorted, count
<1>3. StampsInPlay = {}
  BY DEF Init, StampsInPlay, SlotsOf, ChunkStamps, Idle
<1>4. InArc
  BY <1>3, ModulusAssumption DEF InArc, OnArc, Timestamp
<1> QED
  BY <1>1, <1>2, <1>4 DEF OrderInv

\* A step that leaves the buffered frames alone and brings no new timestamp.
LEMMA OrderUntouched ==
    ASSUME IndexSorted, InArc, UNCHANGED <<sorted, stamp>>,
           \A p \in Producers : ChunkStamps(queuing'[p].next, queuing'[p].left)
                                   \subseteq ChunkStamps(queuing[p].next, queuing[p].left)
    PROVE  IndexSorted' /\ InArc'
<1>1. IndexSorted'
  BY DEF IndexSorted, count
<1>2. SlotsOf(sorted)' = SlotsOf(sorted)
  BY DEF SlotsOf
<1>3. StampsInPlay' \subseteq StampsInPlay
  BY <1>2 DEF StampsInPlay, ChunkStamps
<1> QED
  BY <1>1, <1>3, FewerStamps

\* The steps of the playback task up to the take, the return and the drain.
LEMMA OrderElsewhere ==
    ASSUME OrderInv, UNCHANGED <<sorted, stamp, queuing>>
    PROVE  IndexSorted' /\ InArc'
BY OrderUntouched DEF OrderInv

\* A packet arrives within the arc.
LEMMA QueueDecodedOrder ==
    ASSUME OrderInv, NEW p \in Producers, QueueDecoded(p)
    PROVE  IndexSorted' /\ InArc'
<1>1. PICK n \in 1..MaxChunks, t \in Timestamp :
          /\ OneArc(StampsInPlay \cup ChunkStamps(t, n))
          /\ queuing' = [queuing EXCEPT ![p] = [left |-> n, next |-> t, give |-> FALSE]]
  BY DEF QueueDecoded
<1>2. UNCHANGED <<sorted, stamp>> /\ TypeOK
  BY DEF QueueDecoded, pool, OrderInv, PoolInv
<1>3. IndexSorted'
  BY <1>2 DEF OrderInv, IndexSorted, count
<1>4. TypeOK'
  BY QueueDecodedKeeps DEF OrderInv, PoolInv
<1>5. StampsInPlay' \subseteq StampsInPlay \cup ChunkStamps(t, n)
  <2>1. SlotsOf(sorted)' = SlotsOf(sorted)
    BY <1>2 DEF SlotsOf
  <2>2. ASSUME NEW q \in Producers
        PROVE  ChunkStamps(queuing'[q].next, queuing'[q].left) \subseteq
                 ChunkStamps(queuing[q].next, queuing[q].left) \cup ChunkStamps(t, n)
    <3>1. CASE q = p
      <4>1. queuing'[q].next = t /\ queuing'[q].left = n
        BY <1>1, <1>2, <3>1 DEF TypeOK
      <4> QED
        BY <4>1
    <3>2. CASE q # p
      <4>1. queuing'[q] = queuing[q]
        BY <1>1, <1>2, <3>2 DEF TypeOK
      <4> QED
        BY <4>1
    <3> QED
      BY <3>1, <3>2
  <2> QED
    BY <1>2, <2>1, <2>2 DEF StampsInPlay, ChunkStamps
<1>6. CASE StampsInPlay' = {}
  <2>1. 0 \in Timestamp
    BY ModulusAssumption DEF Timestamp
  <2> QED
    BY <1>3, <1>6, <2>1, ArcNext
<1>7. CASE StampsInPlay' # {}
  <2> DEFINE S == StampsInPlay \cup ChunkStamps(t, n)
  <2>1. PICK b \in S : \A x \in S : Dist(b, x) < Half
    BY <1>1, <1>5, <1>7 DEF OneArc, Dist
  <2>2. b \in Timestamp
    <3>1. t \in Int /\ ChunkLen \in Int /\ n \in Int
      BY ChunksAssumption, ModulusAssumption DEF Timestamp
    <3>2. \A k \in 0..(n - 1) : t + k * ChunkLen \in Int
      BY <3>1
    <3>3. ChunkStamps(t, n) \subseteq Timestamp
      BY <3>2, ModulusAssumption DEF ChunkStamps, Timestamp
    <3> QED
      BY <1>2, <2>1, <3>3, StampsAreTimestamps
  <2>3. \A x \in StampsInPlay' : Dist(b, x) < Half
    BY <1>5, <2>1
  <2> QED
    BY <1>3, <2>2, <2>3, ArcNext
<1> QED
  BY <1>3, <1>6, <1>7

\* No chunk of a dropped packet is left.
LEMMA QueueFullOrder ==
    ASSUME OrderInv, NEW p \in Producers, QueueFull(p)
    PROVE  IndexSorted' /\ InArc'
<1>1. queuing' = [queuing EXCEPT ![p] = Idle] /\ UNCHANGED <<sorted, stamp>> /\ TypeOK
  BY DEF QueueFull, pool, OrderInv, PoolInv
<1>2. ASSUME NEW q \in Producers
      PROVE  ChunkStamps(queuing'[q].next, queuing'[q].left)
               \subseteq ChunkStamps(queuing[q].next, queuing[q].left)
  <2>1. CASE q = p
    <3>1. queuing'[q].left = 0
      BY <1>1, <2>1 DEF TypeOK, Idle
    <3> QED
      BY <3>1 DEF ChunkStamps
  <2>2. CASE q # p
    <3>1. queuing'[q] = queuing[q]
      BY <1>1, <2>2 DEF TypeOK
    <3> QED
      BY <3>1
  <2> QED
    BY <2>1, <2>2
<1> QED
  BY <1>1, <1>2, OrderUntouched DEF OrderInv

\* The next chunk of a packet has one of its timestamps.
LEMMA QueueGiveOrder ==
    ASSUME OrderInv, NEW p \in Producers, QueueGive(p)
    PROVE  IndexSorted' /\ InArc'
<1> DEFINE t == queuing[p].next
           n == queuing[p].left
<1>1. /\ queuing' = [queuing EXCEPT ![p] =
            IF n = 1 THEN Idle
            ELSE [left |-> n - 1, next |-> (t + ChunkLen) % Modulus, give |-> FALSE]]
      /\ UNCHANGED <<sorted, stamp>> /\ TypeOK
  BY DEF QueueGive, pool, OrderInv, PoolInv
<1>2. t \in Int /\ n \in 0..MaxChunks /\ MaxChunks \in Nat /\ ChunkLen \in Int
  BY <1>1, ChunksAssumption, ModulusAssumption DEF TypeOK, Timestamp
<1> HIDE DEF t, n
<1>3. ASSUME NEW q \in Producers
      PROVE  ChunkStamps(queuing'[q].next, queuing'[q].left)
               \subseteq ChunkStamps(queuing[q].next, queuing[q].left)
  <2>1. CASE q = p /\ n = 1
    <3>1. queuing'[q].left = 0
      BY <1>1, <2>1 DEF TypeOK, Idle
    <3> QED
      BY <3>1 DEF ChunkStamps
  <2>2. CASE q = p /\ n # 1
    <3>1. queuing'[q].next = (t + ChunkLen) % Modulus /\ queuing'[q].left = n - 1
      BY <1>1, <2>2 DEF TypeOK
    <3>2. \A k \in 0..(n - 1 - 1) :
             (((t + ChunkLen) % Modulus) + k * ChunkLen) % Modulus = (t + (k + 1) * ChunkLen) % Modulus
      BY <1>2, NextChunk
    <3>4. \A k \in 0..(n - 1 - 1) : k + 1 \in 0..(n - 1)
      BY <1>2
    <3>3. ChunkStamps((t + ChunkLen) % Modulus, n - 1) \subseteq ChunkStamps(t, n)
      BY <3>2, <3>4 DEF ChunkStamps
    <3> QED
      BY <2>2, <3>1, <3>3 DEF t, n
  <2>3. CASE q # p
    <3>1. queuing'[q] = queuing[q]
      BY <1>1, <2>3 DEF TypeOK
    <3> QED
      BY <3>1
  <2> QED
    BY <2>1, <2>2, <2>3
<1> QED
  BY <1>1, <1>3, OrderUntouched DEF OrderInv

\* A take leaves the rest of the index.
LEMMA TakeOldestOrder ==
    ASSUME OrderInv, TakeOldest
    PROVE  IndexSorted' /\ InArc'
<1>1. CASE count = 0
  BY <1>1, OrderElsewhere DEF TakeOldest
<1>2. CASE count # 0
  <2>1. sorted' = Tail(sorted) /\ UNCHANGED <<stamp, queuing>>
    BY <1>2 DEF TakeOldest
  <2>2. sorted \in Seq(Slot) /\ sorted # <<>> /\ count = Len(sorted) /\ Len(sorted) \in Nat \ {0}
    BY <1>2, EmptySeq, LenProperties DEF OrderInv, PoolInv, TypeOK, count
  <2>3. /\ Len(Tail(sorted)) = Len(sorted) - 1
        /\ \A i \in 1..(Len(sorted) - 1) : Tail(sorted)[i] = sorted[i + 1] /\ i + 1 \in 1..Len(sorted)
        /\ Tail(sorted) \in Seq(Slot)
    BY <2>2, HeadTailProperties
  <2>4. IndexSorted'
    <3> SUFFICES ASSUME NEW i \in 1..Len(sorted'), NEW j \in 1..Len(sorted'), i < j
                 PROVE  ~Before(stamp'[sorted'[j]], stamp'[sorted'[i]])
      BY DEF IndexSorted, count, Before, TsCmp
    <3>1. /\ sorted'[i] = sorted[i + 1] /\ sorted'[j] = sorted[j + 1]
          /\ i + 1 \in 1..count /\ j + 1 \in 1..count /\ i + 1 < j + 1
      BY <2>1, <2>2, <2>3
    <3> QED
      BY <2>1, <3>1 DEF OrderInv, IndexSorted
  <2>5. SlotsOf(sorted)' \subseteq SlotsOf(sorted)
    <3>1. DOMAIN sorted = 1..Len(sorted) /\ DOMAIN sorted' = 1..(Len(sorted) - 1)
      BY <2>1, <2>2, <2>3, LenProperties
    <3> QED
      BY <2>1, <2>3, <3>1 DEF SlotsOf
  <2>6. StampsInPlay' \subseteq StampsInPlay
    BY <2>1, <2>5 DEF StampsInPlay, ChunkStamps
  <2> QED
    BY <2>4, <2>6, FewerStamps DEF OrderInv
<1> QED
  BY <1>1, <1>2

\* A flush leaves nothing to order.
LEMMA FlushSlotsOrder ==
    ASSUME OrderInv, NEW f \in Flushers \cup {Player}, FlushSlots(f)
    PROVE  IndexSorted' /\ InArc'
<1>1. sorted' = <<>> /\ UNCHANGED <<stamp, queuing>>
  BY DEF FlushSlots
<1>2. IndexSorted' /\ SlotsOf(sorted)' = {}
  BY <1>1 DEF IndexSorted, count, SlotsOf
<1>3. StampsInPlay' \subseteq StampsInPlay
  BY <1>1, <1>2 DEF StampsInPlay, ChunkStamps
<1> QED
  BY <1>2, <1>3, FewerStamps DEF OrderInv

\* A chunk goes between its neighbours: in their order, and so in the order
\* of all that stay.
LEMMA QueueChunkOrder ==
    ASSUME OrderInv, NEW p \in Producers, QueueChunk(p)
    PROVE  IndexSorted' /\ InArc'
<1> DEFINE t == queuing[p].next
           kept == Kept
           slot == TopSlot
<1>1. TypeOK /\ PoolInv /\ PoolSize
  BY DEF OrderInv, PoolInv
<1>2. PICK pos \in 0..Len(kept) : IsInsertPos(kept, t, pos) /\ sorted' = InsertAt(kept, pos, slot)
  BY DEF QueueChunk, Kept, TopSlot, FreeStack, Drained
<1>3. /\ FreeStack # <<>> /\ queuing[p].left > 0
      /\ stamp' = [stamp EXCEPT ![slot] = t]
      /\ queuing' = [queuing EXCEPT ![p].give = TRUE]
  BY DEF QueueChunk, TopSlot, FreeStack, Drained
<1>4. /\ kept \in Seq(Slot) /\ Len(kept) = Len(sorted) - Overflow
      /\ SlotsOf(kept) \subseteq SlotsOf(sorted)
      /\ slot \in Slot /\ slot \notin SlotsOf(kept)
  BY <1>1, <1>3, IndexParts, TopSlotFresh
<1>5. Len(sorted) \in Nat /\ Overflow \in 0..Len(sorted) /\ count = Len(sorted)
  BY <1>1, Lengths DEF count
<1>6. \A i \in 1..Len(kept) : kept[i] = sorted[i + Overflow] /\ i + Overflow \in 1..count
  <2>1. sorted \in Seq(Slot)
    BY <1>1 DEF TypeOK
  <2> QED
    BY <1>4, <1>5, <2>1 DEF Kept
<1>7. stamp[slot] \in Timestamp /\ t \in Timestamp /\ stamp'[slot] = t
      /\ \A s \in SlotsOf(kept) : stamp'[s] = stamp[s]
  <2>1. \A i \in DOMAIN kept : kept[i] \in Slot
    BY <1>4, ElementOfSeq, LenProperties
  <2> HIDE DEF kept, slot
  <2> QED
    BY <1>1, <1>3, <1>4, <2>1 DEF TypeOK, SlotsOf
<1> HIDE DEF kept, slot
<1>8. t \in ChunkStamps(t, queuing[p].left)
  <2>1. queuing[p].left \in Nat /\ ChunkLen \in Nat /\ t \in Int /\ 0 <= t /\ t < Modulus
    BY <1>1, <1>7, ChunksAssumption, ModulusAssumption DEF TypeOK, Timestamp
  <2>2. t + 0 * ChunkLen = t /\ 0 \in 0..(queuing[p].left - 1)
    BY <1>3, <2>1
  <2>3. t % Modulus = t
    BY <2>1, ModulusAssumption, WrapOnce
  <2> HIDE DEF t
  <2>4. (t + 0 * ChunkLen) % Modulus = t
    BY <2>2, <2>3
  <2> QED
    BY <2>2, <2>4 DEF ChunkStamps
<1>9. t \in StampsInPlay
  BY <1>8 DEF StampsInPlay
<1> HIDE DEF t
\* Before and after, the same stamps or fewer.
<1>10. \A i \in 1..Len(sorted') :
          sorted'[i] = IF i <= pos THEN kept[i] ELSE IF i = pos + 1 THEN slot ELSE kept[i - 1]
  BY <1>2, <1>4, Inserted
<1>11. Len(sorted') = Len(kept) + 1 /\ Len(kept) \in Nat /\ pos \in 0..Len(kept)
  BY <1>2, <1>4, Inserted, LenProperties
<1>12. PICK b \in Timestamp : OnArc(b)
  BY DEF OrderInv, InArc
<1> DEFINE d(i) == Dist(b, stamp[kept[i]])
           e == Dist(b, t)
<1>13. \A i \in 1..Len(kept) : kept[i] \in SlotsOf(kept) /\ stamp[kept[i]] \in StampsInPlay
  <2>1. DOMAIN kept = 1..Len(kept)
    BY <1>4, LenProperties
  <2> QED
    BY <1>4, <2>1 DEF SlotsOf, StampsInPlay
<1>14. /\ e \in Int
       /\ \A i \in 1..Len(kept) : d(i) \in Int
       /\ \A i, j \in 1..Len(kept) : i < j => d(i) <= d(j)
  <2>1. \A i, j \in 1..count : i < j => Dist(b, stamp[sorted[i]]) <= Dist(b, stamp[sorted[j]])
    BY <1>1, <1>12, SortedByDistance DEF OrderInv
  <2>2. ASSUME NEW i \in 1..Len(kept), NEW j \in 1..Len(kept), i < j
        PROVE  d(i) <= d(j)
    <3>1. i + Overflow < j + Overflow
      BY <1>5, <1>11, <2>2
    <3> QED
      BY <1>6, <2>1, <2>2, <3>1
  <2> QED
    BY <1>1, <1>9, <1>12, <1>13, <2>2, ArcDistances
<1>15. /\ pos > 0 => d(pos) < e
       /\ pos < Len(kept) => e <= d(pos + 1)
  <2>1. pos > 0 => pos \in 1..Len(kept) /\ Before(stamp[kept[pos]], t)
    BY <1>2, <1>11 DEF IsInsertPos
  <2>2. pos < Len(kept) => pos + 1 \in 1..Len(kept) /\ ~Before(stamp[kept[pos + 1]], t)
    BY <1>2, <1>11 DEF IsInsertPos
  <2>3. pos > 0 => d(pos) < e
    BY <1>1, <1>9, <1>12, <1>13, <2>1, ArcDistances
  <2>4. pos < Len(kept) => e <= d(pos + 1)
    BY <1>1, <1>9, <1>12, <1>13, <1>14, <2>2, ArcDistances
  <2> QED
    BY <2>3, <2>4
\* The distances of the new index, in its order.
<1> DEFINE f(i) == Dist(b, stamp'[sorted'[i]])
<1>16. \A i \in 1..Len(sorted') :
          /\ stamp'[sorted'[i]] \in StampsInPlay
          /\ f(i) = IF i <= pos THEN d(i) ELSE IF i = pos + 1 THEN e ELSE d(i - 1)
  <2> SUFFICES ASSUME NEW i \in 1..Len(sorted')
               PROVE  /\ stamp'[sorted'[i]] \in StampsInPlay
                      /\ f(i) = IF i <= pos THEN d(i) ELSE IF i = pos + 1 THEN e ELSE d(i - 1)
    OBVIOUS
  <2>1. CASE i <= pos
    <3>1. sorted'[i] = kept[i] /\ i \in 1..Len(kept)
      BY <1>10, <1>11, <2>1
    <3> QED
      BY <1>7, <1>13, <2>1, <3>1
  <2>2. CASE i = pos + 1
    <3>1. sorted'[i] = slot /\ ~(i <= pos)
      BY <1>10, <1>11, <2>2
    <3> QED
      BY <1>7, <1>9, <2>2, <3>1
  <2>3. CASE i > pos + 1
    <3>1. sorted'[i] = kept[i - 1] /\ i - 1 \in 1..Len(kept) /\ ~(i <= pos) /\ i # pos + 1
      BY <1>10, <1>11, <2>3
    <3> QED
      BY <1>7, <1>13, <3>1
  <2> QED
    BY <1>11, <2>1, <2>2, <2>3
<1> HIDE DEF d, e
<1>17. \A i, j \in 1..Len(sorted') : i < j => f(i) <= f(j)
  <2> SUFFICES ASSUME NEW i \in 1..Len(sorted'), NEW j \in 1..Len(sorted'), i < j
               PROVE  f(i) <= f(j)
    OBVIOUS
  <2> HIDE DEF f
  <2>1. i \in 1..(Len(kept) + 1) /\ j \in 1..(Len(kept) + 1)
    BY <1>11
  <2>2. CASE j <= pos
    <3>1. f(i) = d(i) /\ f(j) = d(j) /\ i \in 1..Len(kept) /\ j \in 1..Len(kept)
      BY <1>11, <1>16, <2>1, <2>2
    <3> QED
      BY <1>14, <3>1
  <2>3. CASE j = pos + 1
    <3>1. f(i) = d(i) /\ f(j) = e /\ i \in 1..Len(kept) /\ pos > 0 /\ pos \in 1..Len(kept)
          /\ (i = pos \/ i < pos)
      BY <1>11, <1>16, <2>1, <2>3
    <3>2. d(i) <= d(pos) /\ d(pos) < e /\ d(i) \in Int /\ d(pos) \in Int
      BY <1>14, <1>15, <3>1
    <3> QED
      BY <1>14, <3>1, <3>2
  <2>4. CASE j > pos + 1 /\ i = pos + 1
    <3>1. f(i) = e /\ f(j) = d(j - 1) /\ j - 1 \in 1..Len(kept) /\ pos < Len(kept)
          /\ pos + 1 \in 1..Len(kept) /\ (j - 1 = pos + 1 \/ pos + 1 < j - 1)
      BY <1>11, <1>16, <2>1, <2>4
    <3>2. e <= d(pos + 1) /\ d(pos + 1) <= d(j - 1) /\ d(pos + 1) \in Int /\ d(j - 1) \in Int
      BY <1>14, <1>15, <3>1
    <3> QED
      BY <1>14, <3>1, <3>2
  <2>5. CASE j > pos + 1 /\ i <= pos
    <3>1. f(i) = d(i) /\ f(j) = d(j - 1) /\ i \in 1..Len(kept) /\ j - 1 \in 1..Len(kept)
          /\ i < j - 1
      BY <1>11, <1>16, <2>1, <2>5
    <3> QED
      BY <1>14, <3>1
  <2>6. CASE i > pos + 1
    <3>1. f(i) = d(i - 1) /\ f(j) = d(j - 1) /\ i - 1 \in 1..Len(kept) /\ j - 1 \in 1..Len(kept)
          /\ i - 1 < j - 1
      BY <1>11, <1>16, <2>1, <2>6
    <3> QED
      BY <1>14, <3>1
  <2> QED
    BY <1>11, <2>1, <2>2, <2>3, <2>4, <2>5, <2>6
<1>18. IndexSorted'
  <2> SUFFICES ASSUME NEW i \in 1..Len(sorted'), NEW j \in 1..Len(sorted'), i < j
               PROVE  ~Before(stamp'[sorted'[j]], stamp'[sorted'[i]])
    BY DEF IndexSorted, count, Before, TsCmp
  <2>1. f(i) <= f(j) /\ f(i) \in Int /\ f(j) \in Int
    BY <1>1, <1>12, <1>16, <1>17, ArcDistances
  <2>2. Before(stamp'[sorted'[j]], stamp'[sorted'[i]]) <=> f(j) < f(i)
    BY <1>1, <1>12, <1>16, ArcDistances
  <2> QED
    BY <2>1, <2>2
<1>19. StampsInPlay' \subseteq StampsInPlay
  <2>1. ASSUME NEW s \in SlotsOf(sorted)' PROVE stamp'[s] \in StampsInPlay
    <3>1. sorted' \in Seq(Slot)
      BY <1>1, QueueChunkKeeps DEF PoolInv, TypeOK, Slot
    <3>2. PICK i \in 1..Len(sorted') : s = sorted'[i]
      BY <3>1, LenProperties DEF SlotsOf
    <3> QED
      BY <1>16, <3>2
  <2>2. ASSUME NEW q \in Producers
        PROVE  queuing'[q].next = queuing[q].next /\ queuing'[q].left = queuing[q].left
    BY <1>1, <1>3 DEF TypeOK
  <2> QED
    BY <2>1, <2>2 DEF StampsInPlay, ChunkStamps
<1> QED
  BY <1>18, <1>19, FewerStamps DEF OrderInv

-----------------------------------------------------------------------------

\* Every step keeps the order.
LEMMA OrderNext == OrderInv /\ [Next]_vars => OrderInv'
<1> SUFFICES ASSUME OrderInv, [Next]_vars
             PROVE  OrderInv'
  OBVIOUS
<1>1. PoolInv'
  BY PoolNext DEF OrderInv
<1>2. ASSUME NEW p \in Producers,
             QueueDecoded(p) \/ QueueChunk(p) \/ QueueFull(p) \/ QueueGive(p)
      PROVE  IndexSorted' /\ InArc'
  BY <1>2, QueueDecodedOrder, QueueChunkOrder, QueueFullOrder, QueueGiveOrder
<1>3. CASE TakeOldest
  BY <1>1, <1>3, TakeOldestOrder DEF OrderInv
<1>4. CASE TakeToken \/ TakeNoToken \/ TakeRecheck \/ Return
  BY <1>1, <1>4, OrderElsewhere
  DEF OrderInv, TakeToken, TakeNoToken, TakeRecheck, Return, pool
<1>5. ASSUME NEW f \in Flushers \cup {Player}, FlushSlots(f) \/ FlushDrain(f)
      PROVE  IndexSorted' /\ InArc'
  <2>1. CASE FlushSlots(f)
    BY <2>1, FlushSlotsOrder
  <2>2. CASE FlushDrain(f)
    BY <2>2, OrderElsewhere DEF FlushDrain, pool
  <2> QED
    BY <1>5, <2>1, <2>2
<1>6. CASE UNCHANGED vars
  BY <1>1, <1>6, OrderElsewhere DEF OrderInv, vars
<1> QED
  BY <1>1, <1>2, <1>3, <1>4, <1>5, <1>6 DEF Next, Play, OrderInv

\* The invariant holds in every state.
LEMMA OrderInvariant == Spec => []OrderInv
BY OrderInit, OrderNext, PTL DEF Spec

\* sorted[] is in timestamp order across the wraparound, whatever the order the
\* packets arrive in: audio_buffer_take delivers the oldest frame, and the
\* overflow of audio_buffer_queue_chunk drops the oldest.
THEOREM IndexKeptSorted == Spec => []IndexSorted
<1>1. OrderInv => IndexSorted
  BY DEF OrderInv
<1> QED
  BY <1>1, OrderInvariant, PTL

-----------------------------------------------------------------------------
(* The buffer implements FrameQueue.                                       *)

\* A step that leaves the index and the held slot alone is a stutter.
LEMMA QueueStutters ==
    ASSUME UNCHANGED <<sorted, stamp, held>>
    PROVE  UNCHANGED Queue!queueVars
BY DEF Queue!queueVars, QueuedFrames, HeldFrame, HeldSet, SlotsOf

\* The empty buffer is the empty queue.
LEMMA QueueInitRefines == Init => Queue!QueueInit
<1> SUFFICES ASSUME Init PROVE Queue!QueueInit
  OBVIOUS
<1>1. SlotsOf(sorted) = {} /\ HeldSet = {}
  BY DEF Init, SlotsOf, HeldSet
<1> QED
  BY <1>1 DEF Queue!QueueInit, Queue!NoFrames, QueuedFrames, HeldFrame

\* The instance compares timestamps as the buffer does.
LEMMA SameOrder == \A a, b : Queue!Before(a, b) <=> Before(a, b)
BY DEF Queue!Before, Queue!TsCmp, Queue!Half, Before, TsCmp, Half

\* The first slot of the index has a frame that no other precedes.
LEMMA FirstIsOldest ==
    ASSUME OrderInv, count # 0
    PROVE  sorted[1] \in Queue!Oldest
<1>1. /\ sorted \in Seq(Slot) /\ count = Len(sorted) /\ count \in Nat /\ 1 \in 1..count
      /\ DOMAIN sorted = 1..count
  BY LenProperties DEF OrderInv, PoolInv, TypeOK, count
<1>2. sorted[1] \in SlotsOf(sorted)
  BY <1>1 DEF SlotsOf
<1>3. ASSUME NEW s \in SlotsOf(sorted) PROVE ~Before(stamp[s], stamp[sorted[1]])
  <2>1. PICK j \in 1..count : s = sorted[j]
    BY <1>1 DEF SlotsOf
  <2>2. CASE j = 1
    <3>1. stamp[s] \in Int /\ (stamp[s] - stamp[s]) = 0
      BY <1>1, <2>1, ElementOfSeq, ModulusAssumption DEF OrderInv, PoolInv, TypeOK, Timestamp
    <3>2. 0 % Modulus = 0 /\ 0 < Half
      BY ModulusAssumption DEF Half
    <3> QED
      BY <2>1, <2>2, <3>1, <3>2 DEF Before, TsCmp
  <2>3. CASE 1 < j
    BY <1>1, <2>1, <2>3 DEF OrderInv, IndexSorted
  <2> QED
    BY <2>1, <2>2, <2>3
<1> QED
  BY <1>2, <1>3, SameOrder DEF Queue!Oldest, QueuedFrames

\* A take hands over that frame.
LEMMA TakeRefines ==
    ASSUME OrderInv, TakeOldest
    PROVE  Queue!Take \/ UNCHANGED Queue!queueVars
<1>1. CASE count = 0
  BY <1>1, QueueStutters DEF TakeOldest
<1>2. CASE count # 0
  <2> DEFINE first == sorted[1]
  <2>1. first \in Queue!Oldest
    BY <1>2, FirstIsOldest
  <2>2. /\ held' = first /\ sorted' = Tail(sorted) /\ UNCHANGED stamp /\ held = NoSlot
        /\ sorted \in Seq(Slot) /\ sorted # <<>> /\ NoRepeat(sorted)
    BY <1>2, EmptySeq DEF TakeOldest, OrderInv, PoolInv, TypeOK, TakesOne, count,
                          SlotsConserved, SlotsDisjoint
  <2>3. first \in Slot /\ first # NoSlot
    <3>1. 1 \in 1..Len(sorted)
      BY <2>2, EmptySeq, LenProperties
    <3>2. first \in Slot
      BY <2>2, <3>1, ElementOfSeq
    <3> HIDE DEF first
    <3> QED
      BY <3>2, NoSlotAssumption DEF Slot
  <2>4. SlotsOf(sorted)' = SlotsOf(sorted) \ {first}
    <3>1. /\ Len(sorted) \in Nat \ {0} /\ DOMAIN sorted = 1..Len(sorted)
          /\ DOMAIN sorted' = 1..(Len(sorted) - 1)
          /\ \A i \in 1..(Len(sorted) - 1) : sorted'[i] = sorted[i + 1]
      <4>1. Len(sorted) \in Nat \ {0} /\ DOMAIN sorted = 1..Len(sorted)
        BY <2>2, EmptySeq, LenProperties
      <4>2. /\ Tail(sorted) \in Seq(Slot) /\ Len(Tail(sorted)) = Len(sorted) - 1
            /\ \A i \in 1..(Len(sorted) - 1) : Tail(sorted)[i] = sorted[i + 1]
        BY <2>2, HeadTailProperties
      <4> QED
        BY <2>2, <4>1, <4>2, LenProperties
    <3>2. ASSUME NEW i \in DOMAIN sorted' PROVE sorted'[i] \in SlotsOf(sorted) \ {first}
      <4>1. i + 1 \in DOMAIN sorted /\ i + 1 # 1 /\ 1 \in DOMAIN sorted /\ sorted'[i] = sorted[i + 1]
        BY <3>1
      <4> QED
        BY <2>2, <4>1 DEF NoRepeat, SlotsOf
    <3>3. ASSUME NEW i \in DOMAIN sorted, sorted[i] # first PROVE sorted[i] \in SlotsOf(sorted)'
      <4>1. i - 1 \in DOMAIN sorted' /\ sorted'[i - 1] = sorted[i]
        BY <3>1, <3>3
      <4> QED
        BY <4>1 DEF SlotsOf
    <3> QED
      BY <3>2, <3>3 DEF SlotsOf
  <2> HIDE DEF first
  <2>5. HeldFrame = Queue!NoFrames
    BY <2>2 DEF HeldFrame, HeldSet, Queue!NoFrames
  <2>6. QueuedFrames' = Queue!Without(QueuedFrames, {first})
    BY <2>2, <2>4 DEF QueuedFrames, Queue!Without
  <2>7. first \in SlotsOf(sorted) /\ QueuedFrames[first] = stamp[first]
    BY <2>1 DEF Queue!Oldest, QueuedFrames
  <2>8. HeldFrame' = Queue!With(HeldFrame, first, QueuedFrames[first])
    <3>1. HeldSet' = {first} /\ HeldSet = {}
      BY <2>2, <2>3 DEF HeldSet
    <3> QED
      BY <2>2, <2>7, <3>1 DEF HeldFrame, Queue!With
  <2> QED
    BY <2>1, <2>5, <2>6, <2>8 DEF Queue!Take
<1> QED
  BY <1>1, <1>2

\* A return gives it back.
LEMMA ReturnRefines ==
    ASSUME OrderInv, Return
    PROVE  Queue!GiveBack
<1>1. held \in HeldSet /\ HeldSet' = {} /\ UNCHANGED <<sorted, stamp>>
  BY DEF Return, HeldSet
<1>2. HeldFrame # Queue!NoFrames /\ HeldFrame' = Queue!NoFrames
  <2>1. DOMAIN HeldFrame = HeldSet /\ DOMAIN Queue!NoFrames = {}
    BY DEF HeldFrame, Queue!NoFrames
  <2> QED
    BY <1>1, <2>1 DEF HeldFrame, Queue!NoFrames
<1>3. UNCHANGED QueuedFrames
  BY <1>1 DEF QueuedFrames, SlotsOf
<1> QED
  BY <1>2, <1>3 DEF Queue!GiveBack

\* A flush clears the queue, and leaves the held frame.
LEMMA FlushRefines ==
    ASSUME OrderInv, NEW f \in Flushers \cup {Player}, FlushSlots(f)
    PROVE  Queue!Clear
<1>1. SlotsOf(sorted)' = {} /\ UNCHANGED <<stamp, held>>
  BY DEF FlushSlots, playback, SlotsOf
<1> QED
  BY <1>1 DEF Queue!Clear, Queue!NoFrames, QueuedFrames, HeldFrame, HeldSet

\* The overflow drains the first slot, and only an index that has them all.
LEMMA DrainedIsLoss ==
    ASSUME OrderInv
    PROVE  SlotsOf(Drained) \in Queue!Losses
<1>1. /\ PoolInv /\ sorted \in Seq(Slot) /\ free_stack \in Seq(Slot)
      /\ count = Len(sorted) /\ Len(sorted) \in 0..Capacity /\ Len(free_stack) \in 0..Capacity
  BY Lengths DEF OrderInv, PoolInv, TypeOK, count
<1>2. Drained \in Seq(Slot) /\ Len(Drained) = Overflow
  BY <1>1, IndexParts
<1>3. DOMAIN QueuedFrames = SlotsOf(sorted)
  BY DEF QueuedFrames
<1>4. CASE count = Capacity
  <2>1. Len(free_stack) = 0 /\ held = NoSlot /\ count # 0 /\ Overflow = 1
    BY <1>1, <1>4, CapacityAssumption DEF PoolInv, PoolSize, Overflow
  <2>2. SlotsOf(free_stack) = {} /\ HeldSet = {}
    BY <1>1, <2>1, LenProperties DEF SlotsOf, HeldSet
  <2>3. SlotsOf(sorted) = Slot
    BY <1>1, <2>2 DEF PoolInv, SlotsConserved
  <2>4. SlotsOf(Drained) = {sorted[1]}
    <3>1. Drained[1] = sorted[1]
      BY <1>1, <2>1 DEF Drained
    <3>2. DOMAIN Drained = {1}
      BY <1>2, <2>1, LenProperties
    <3> QED
      BY <3>1, <3>2 DEF SlotsOf
  <2> QED
    BY <1>3, <2>1, <2>3, <2>4, FirstIsOldest DEF Queue!Losses
<1>5. CASE count # Capacity
  <2>1. Overflow = 0 /\ (free_stack # <<>> \/ held # NoSlot)
    BY <1>1, <1>5, CapacityAssumption, EmptySeq DEF PoolInv, PoolSize, Overflow
  <2>2. SlotsOf(Drained) = {}
    BY <1>2, <2>1, LenProperties DEF SlotsOf
  <2>3. SlotsOf(sorted) # Slot
    <3>1. CASE free_stack # <<>>
      <4>1. 1 \in DOMAIN free_stack /\ free_stack[1] \in Slot
        BY <1>1, <3>1, EmptySeq, ElementOfSeq, LenProperties
      <4> QED
        BY <1>1, <4>1 DEF PoolInv, SlotsConserved, SlotsDisjoint, SlotsOf
    <3>2. CASE held # NoSlot
      BY <1>1, <3>2 DEF PoolInv, SlotsConserved, SlotsDisjoint, HeldSet, TypeOK
    <3> QED
      BY <2>1, <3>1, <3>2
  <2> QED
    BY <1>3, <2>2, <2>3 DEF Queue!Losses
<1> QED
  BY <1>4, <1>5

\* A chunk puts its frame in a slot that neither the queue, less what it
\* loses, nor the playback task has.
LEMMA ChunkRefines ==
    ASSUME OrderInv, NEW p \in Producers, QueueChunk(p)
    PROVE  Queue!Put
<1> DEFINE t == queuing[p].next
           lost == SlotsOf(Drained)
           f == TopSlot
<1>1. PoolInv /\ FreeStack # <<>>
  BY DEF OrderInv, QueueChunk, FreeStack, Drained
<1>2. PICK pos \in 0..Len(Kept) : sorted' = InsertAt(Kept, pos, f)
  BY DEF QueueChunk, Kept, TopSlot, FreeStack, Drained
<1>3. stamp' = [stamp EXCEPT ![f] = t] /\ UNCHANGED held
  BY DEF QueueChunk, playback, TopSlot, FreeStack, Drained
<1>4. t \in Queue!Timestamp
  BY <1>1 DEF PoolInv, TypeOK, Timestamp, Queue!Timestamp
<1>5. lost \in Queue!Losses
  BY DrainedIsLoss
<1>6. /\ SlotsOf(sorted) = lost \cup SlotsOf(Kept) /\ lost \cap SlotsOf(Kept) = {}
      /\ Kept \in Seq(Slot)
  BY <1>1, IndexParts
<1>7. f \in Slot /\ f \notin SlotsOf(Kept) /\ f \in SlotsOf(free_stack) \cup lost
  BY <1>1, TopSlotFresh, StackParts
<1>8. f \notin HeldSet
  BY <1>1, <1>6, <1>7 DEF PoolInv, SlotsConserved, SlotsDisjoint
<1>9. SlotsOf(sorted') = SlotsOf(Kept) \cup {f}
  BY <1>2, <1>6, <1>7, InsertedSlots
<1>10. \A s \in Slot : stamp'[s] = IF s = f THEN t ELSE stamp[s]
  BY <1>1, <1>3 DEF PoolInv, TypeOK
<1>11. SlotsOf(Kept) \subseteq Slot /\ HeldSet \subseteq Slot
  BY <1>1, <1>6 DEF PoolInv, SlotsConserved
<1> HIDE DEF t, lost, f
<1>12. QueuedFrames' = Queue!With(Queue!Without(QueuedFrames, lost), f, t)
  <2>1. SlotsOf(sorted)' = SlotsOf(sorted')
    BY DEF SlotsOf
  <2>2. SlotsOf(sorted) \ lost = SlotsOf(Kept)
    BY <1>6
  <2>3. Queue!Without(QueuedFrames, lost) = [s \in SlotsOf(Kept) |-> stamp[s]]
    BY <2>2, <1>6 DEF Queue!Without, QueuedFrames
  <2>4. QueuedFrames' = [s \in SlotsOf(Kept) \cup {f} |-> stamp'[s]]
    BY <1>9, <2>1 DEF QueuedFrames
  <2> QED
    BY <1>7, <1>10, <1>11, <2>3, <2>4 DEF Queue!With
<1>13. UNCHANGED HeldFrame
  BY <1>3, <1>8, <1>10, <1>11 DEF HeldFrame, HeldSet
<1>14. f \in (Slot \ DOMAIN HeldFrame) \ (DOMAIN QueuedFrames \ lost)
  BY <1>6, <1>7, <1>8 DEF HeldFrame, QueuedFrames
<1> QED
  BY <1>4, <1>5, <1>12, <1>13, <1>14 DEF Queue!Put

\* Every step of the buffer is a step of the queue or none.
LEMMA QueueNextRefines == OrderInv /\ [Next]_vars => [Queue!QueueNext]_(Queue!queueVars)
<1> SUFFICES ASSUME OrderInv, [Next]_vars
             PROVE  [Queue!QueueNext]_(Queue!queueVars)
  OBVIOUS
<1>1. ASSUME NEW p \in Producers, QueueChunk(p) PROVE Queue!QueueNext
  BY <1>1, ChunkRefines DEF Queue!QueueNext
<1>2. ASSUME NEW p \in Producers, QueueDecoded(p) \/ QueueFull(p) \/ QueueGive(p)
      PROVE  UNCHANGED Queue!queueVars
  BY <1>2, QueueStutters DEF QueueDecoded, QueueFull, QueueGive, pool, playback
<1>3. CASE TakeOldest
  BY <1>3, TakeRefines DEF Queue!QueueNext
<1>4. CASE Return
  BY <1>4, ReturnRefines DEF Queue!QueueNext
<1>5. CASE TakeToken \/ TakeNoToken \/ TakeRecheck
  BY <1>5, QueueStutters DEF TakeToken, TakeNoToken, TakeRecheck, pool
<1>6. ASSUME NEW f \in Flushers \cup {Player}, FlushSlots(f) PROVE Queue!QueueNext
  BY <1>6, FlushRefines DEF Queue!QueueNext
<1>7. ASSUME NEW f \in Flushers \cup {Player}, FlushDrain(f)
      PROVE  UNCHANGED Queue!queueVars
  BY <1>7, QueueStutters DEF FlushDrain, pool, playback
<1>8. CASE UNCHANGED vars
  BY <1>8, QueueStutters DEF vars
<1> QED
  BY <1>1, <1>2, <1>3, <1>4, <1>5, <1>6, <1>7, <1>8 DEF Next, Play

\* audio_buffer.c implements the frame queue for every capacity and any number
\* of tasks: however its critical sections interleave with each other and with
\* the semaphore, what is taken, lost or flushed is what one priority queue in
\* stream order would have taken, lost or forgotten.
THEOREM BufferImplementsQueue == Spec => ImplementsQueue
BY QueueInitRefines, QueueNextRefines, OrderInvariant, PTL
   DEF Spec, ImplementsQueue, Queue!QueueSpec
=============================================================================
