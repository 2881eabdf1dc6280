---------------------------- MODULE DeviceProofs ----------------------------
(***************************************************************************)
(* Proofs about the device for every value of its constants, part by part: *)
(* the PCM ring buffer of the voice path, which implements the bounded     *)
(* FIFO, a request to the cloud and its reply, the boot, the Wi-Fi         *)
(* connection, what is shown, the sensors and the reminder, the screen and *)
(* its back light, and the requests of the RTSP server.  What a part needs *)
(* of its constants is a hypothesis of its theorem, and follows from       *)
(* DeviceAssumption.  At the end the parts are put together.               *)
(***************************************************************************)
EXTENDS Device, SequenceTheorems, FiniteSetTheorems, TLAPS

\* The arithmetic of (x % cap) for an index that wraps at most once.
LEMMA WrapOnce ==
    \A x \in Nat : x < 2 * Cap => x % Cap = IF x < Cap THEN x ELSE x - Cap
  BY CapAssumption

\* What avail returns for indices in range.
LEMMA AvailRange ==
    ASSUME NEW wi \in 0..(Cap - 1), NEW ri \in 0..(Cap - 1)
    PROVE  AvailOf(wi, ri) \in 0..(Cap - 1)
  BY CapAssumption DEF AvailOf

\* Advancing w by what is free adds that much to avail.
LEMMA PushAvail ==
    ASSUME NEW wi \in 0..(Cap - 1), NEW ri \in 0..(Cap - 1),
           NEW n \in 0..(Cap - 1 - AvailOf(wi, ri))
    PROVE  /\ (wi + n) % Cap \in 0..(Cap - 1)
           /\ (wi + n) % Cap = IF wi + n < Cap THEN wi + n ELSE wi + n - Cap
           /\ AvailOf((wi + n) % Cap, ri) = AvailOf(wi, ri) + n
  <1>1. AvailOf(wi, ri) \in 0..(Cap - 1)
    BY AvailRange
  <1> DEFINE x == wi + n
  <1>2. x \in Nat /\ x < 2 * Cap
    BY <1>1, CapAssumption
  <1> HIDE DEF x
  <1>3. x % Cap = IF x < Cap THEN x ELSE x - Cap
    BY <1>2, WrapOnce
  <1> DEFINE y == x % Cap
  <1>4. y = IF wi + n < Cap THEN wi + n ELSE wi + n - Cap
    BY <1>1, <1>3, CapAssumption DEF x
  <1> HIDE DEF y
  <1>5. /\ y \in 0..(Cap - 1)
        /\ AvailOf(y, ri) = AvailOf(wi, ri) + n
    BY <1>1, <1>4, CapAssumption DEF AvailOf
  <1>6. QED
    BY <1>4, <1>5 DEF x, y

\* Advancing r by what is available removes that much from avail.
LEMMA PopAvail ==
    ASSUME NEW wi \in 0..(Cap - 1), NEW ri \in 0..(Cap - 1),
           NEW n \in 0..AvailOf(wi, ri)
    PROVE  /\ (ri + n) % Cap \in 0..(Cap - 1)
           /\ (ri + n) % Cap = IF ri + n < Cap THEN ri + n ELSE ri + n - Cap
           /\ AvailOf(wi, (ri + n) % Cap) = AvailOf(wi, ri) - n
  <1>1. AvailOf(wi, ri) \in 0..(Cap - 1)
    BY AvailRange
  <1> DEFINE x == ri + n
  <1>2. x \in Nat /\ x < 2 * Cap
    BY <1>1, CapAssumption
  <1> HIDE DEF x
  <1>3. x % Cap = IF x < Cap THEN x ELSE x - Cap
    BY <1>2, WrapOnce
  <1> DEFINE y == x % Cap
  <1>4. y = IF ri + n < Cap THEN ri + n ELSE ri + n - Cap
    BY <1>1, <1>3, CapAssumption DEF x
  <1> HIDE DEF y
  <1>5. /\ y \in 0..(Cap - 1)
        /\ AvailOf(wi, y) = AvailOf(wi, ri) - n
    BY <1>1, <1>4, CapAssumption DEF AvailOf
  <1>6. QED
    BY <1>4, <1>5 DEF x, y

\* What a push may store, and that it is a count of samples of the chunk.
LEMMA PushCountRange ==
    ASSUME TypeOK, NEW pcm \in Chunk
    PROVE  /\ pcm \in Seq(Sample)
           /\ Len(pcm) \in 1..MaxChunk
           /\ Free = Cap - 1 - Avail
           /\ PushCount(pcm) \in 0..(Cap - 1 - Avail)
           /\ PushCount(pcm) <= Len(pcm)
  <1>1. PICK n \in 1..MaxChunk : pcm \in [1..n -> Sample]
    BY DEF Chunk
  <1>2. pcm \in Seq(Sample) /\ Len(pcm) = n
    BY <1>1, ChunkAssumption
  <1>3. Avail \in 0..(Cap - 1)
    BY AvailRange DEF Avail, TypeOK
  <1>4. Free = Cap - 1 - Avail
    BY <1>3, CapAssumption DEF Free
  <1>5. QED
    BY <1>2, <1>3, <1>4, CapAssumption, ChunkAssumption DEF PushCount, Least

\* What a pop of m samples takes.
LEMMA PopCountRange ==
    ASSUME TypeOK, NEW m \in Nat
    PROVE  /\ Avail \in 0..(Cap - 1)
           /\ Least(m, Avail) \in 0..Avail
  <1>1. Avail \in 0..(Cap - 1)
    BY AvailRange DEF Avail, TypeOK
  <1>2. QED
    BY <1>1, CapAssumption DEF Least

-----------------------------------------------------------------------------
(* Invariance.  AvailNeverOverstates is inductive once an avail is known   *)
(* to be either in progress or finished, never both.                       *)

RingInv == /\ TypeOK
           /\ AvailNeverOverstates
           /\ seenW # -1 => avail = -1

\* The ring starts empty, and its indices in range.
LEMMA InitRing == Init => RingInv
  BY CapAssumption, SampleAssumption
     DEF Init, RingInv, TypeOK, AvailNeverOverstates, Avail, AvailOf

\* A push, a pop and the unlocked reads keep the invariant.
LEMMA NextRing == RingInv /\ [Next]_vars => RingInv'
  <1> SUFFICES ASSUME RingInv, [Next]_vars
               PROVE  RingInv'
    OBVIOUS
  <1> USE DEF RingInv
  <1>1. ASSUME NEW pcm \in Chunk, Push(pcm)
        PROVE  RingInv'
    <2> DEFINE n == PushCount(pcm)
    <2>1. /\ pcm \in Seq(Sample)
          /\ n \in 0..(Cap - 1 - AvailOf(w, r))
          /\ n <= Len(pcm)
      BY PushCountRange DEF Avail
    <2>2. w \in 0..(Cap - 1) /\ r \in 0..(Cap - 1)
      BY DEF TypeOK
    <2>a. AvailOf(w, r) \in 0..(Cap - 1)
      BY <2>2, AvailRange
    <2> HIDE DEF n
    <2>3. /\ w' \in 0..(Cap - 1)
          /\ Avail' = Avail + n
      <3>1. w' = (w + n) % Cap /\ r' = r
        BY <1>1 DEF Push, n
      <3>2. QED
        BY <2>1, <2>2, <3>1, PushAvail DEF Avail
    <2>4. buf' \in [0..(Cap - 1) -> Sample]
      <3>1. buf' = AfterCopy(pcm, n)
        BY <1>1 DEF Push, n
      <3>2. n \in Nat /\ w \in Nat /\ w < Cap
        BY <2>1, <2>2, <2>a, CapAssumption
      <3>3. ASSUME NEW i \in 0..(Cap - 1)
            PROVE  buf'[i] \in Sample
        <4>1. CASE i >= w /\ i < w + Least(Cap - w, n)
          <5>1. i - w + 1 \in 1..Len(pcm)
            BY <2>1, <3>2, <4>1, CapAssumption DEF Least
          <5>2. QED
            BY <2>1, <3>1, <4>1, <5>1 DEF AfterCopy
        <4>2. CASE ~(i >= w /\ i < w + Least(Cap - w, n)) /\ i < n - Least(Cap - w, n)
          <5>1. Least(Cap - w, n) + i + 1 \in 1..Len(pcm)
            BY <2>1, <3>2, <4>2, CapAssumption DEF Least
          <5>2. QED
            BY <2>1, <3>1, <4>2, <5>1 DEF AfterCopy
        <4>3. CASE ~(i >= w /\ i < w + Least(Cap - w, n)) /\ ~(i < n - Least(Cap - w, n))
          BY <3>1, <4>3 DEF AfterCopy, TypeOK
        <4>4. QED
          BY <4>1, <4>2, <4>3
      <3>4. QED
        BY <3>1, <3>3 DEF AfterCopy
    <2>5. TypeOK'
      BY <1>1, <2>3, <2>4 DEF Push, TypeOK
    <2>6. AvailNeverOverstates'
      <3>1. /\ r' = r /\ seenW' = seenW /\ avail' = avail
            /\ AvailOf(seenW', r') = AvailOf(seenW, r)
        BY <1>1 DEF Push, AvailOf
      <3>2. /\ Avail' = Avail + n /\ Avail \in Int /\ n \in Nat
            /\ avail \in Int
        BY <2>1, <2>3, <2>a, CapAssumption DEF Avail, TypeOK
      <3>3. seenW # -1 => AvailOf(seenW, r) \in Int
        BY <2>2, AvailRange, CapAssumption DEF TypeOK, AvailOf
      <3>4. QED
        BY <3>1, <3>2, <3>3 DEF AvailNeverOverstates
    <2>7. QED
      BY <1>1, <2>5, <2>6 DEF Push
  <1>2. CASE AvailReadW
    BY <1>2, CapAssumption DEF AvailReadW, TypeOK, AvailNeverOverstates, Avail, AvailOf
  <1>3. CASE AvailReadR
    <2>1. seenW \in 0..(Cap - 1) /\ r \in 0..(Cap - 1)
      BY <1>3, CapAssumption DEF AvailReadR, TypeOK
    <2>2. AvailOf(seenW, r) \in 0..(Cap - 1)
      BY <2>1, AvailRange
    <2>3. QED
      BY <1>3, <2>1, <2>2, CapAssumption
         DEF AvailReadR, TypeOK, AvailNeverOverstates, Avail, AvailOf
  <1>4. CASE PlayPop
    <2>1. CASE /\ avail = 0 /\ avail' = -1
               /\ UNCHANGED <<buf, w, r, out, seenW>>
      BY <2>1, CapAssumption DEF TypeOK, AvailNeverOverstates, Avail, AvailOf
    <2>2. CASE /\ avail > 0 /\ avail' = -1
               /\ Pop(Least(avail, MaxChunk)) /\ UNCHANGED seenW
      <3> DEFINE m == Least(avail, MaxChunk)
      <3> DEFINE n == Least(m, Avail)
      <3>1. m \in Nat /\ n \in 0..AvailOf(w, r) /\ Avail \in 0..(Cap - 1)
        <4>1. m \in Nat
          BY <2>2, ChunkAssumption, CapAssumption DEF TypeOK, Least
        <4>2. QED
          BY <4>1, PopCountRange DEF Avail
      <3>2. w \in 0..(Cap - 1) /\ r \in 0..(Cap - 1)
        BY DEF TypeOK
      <3>3. r' = (r + n) % Cap /\ out' = CopyOut(n) /\ w' = w /\ buf' = buf
        BY <2>2 DEF Pop
      <3> HIDE DEF n
      <3>4. r' \in 0..(Cap - 1)
        BY <3>1, <3>2, <3>3, PopAvail
      <3>5. out' \in Seq(Sample)
        <4>1. n \in Nat
          BY <3>1
        <4>2. ASSUME NEW k \in 1..n
              PROVE  out'[k] \in Sample
          <5>1. CASE k <= Least(Cap - r, n)
            <6>1. r + k - 1 \in 0..(Cap - 1)
              BY <3>1, <3>2, <4>1, <5>1, CapAssumption DEF Least
            <6>2. QED
              BY <3>3, <5>1, <6>1 DEF CopyOut, TypeOK
          <5>2. CASE ~(k <= Least(Cap - r, n))
            <6>1. k - Least(Cap - r, n) - 1 \in 0..(Cap - 1)
              BY <3>1, <3>2, <4>1, <5>2, CapAssumption DEF Least, Avail
            <6>2. QED
              BY <3>3, <5>2, <6>1 DEF CopyOut, TypeOK
          <5>3. QED
            BY <5>1, <5>2
        <4>3. out' \in [1..n -> Sample]
          BY <3>3, <4>2 DEF CopyOut
        <4>4. QED
          BY <4>1, <4>3
      <3>6. seenW = -1 /\ seenW' = -1 /\ avail' = -1
        BY <2>2, CapAssumption DEF TypeOK
      <3>7. epoch' = epoch
        BY <2>2 DEF Pop
      <3>8. QED
        BY <3>2, <3>3, <3>4, <3>5, <3>6, <3>7, CapAssumption DEF TypeOK, AvailNeverOverstates
    <2>3. QED
      BY <1>4, <2>1, <2>2 DEF PlayPop
  <1>5. CASE Reset
    BY <1>5, CapAssumption DEF Reset, TypeOK, AvailNeverOverstates, Avail, AvailOf
  <1>6. CASE UNCHANGED vars
    BY <1>6 DEF vars, TypeOK, AvailNeverOverstates, Avail, AvailOf
  <1>7. QED
    BY <1>1, <1>2, <1>3, <1>4, <1>5, <1>6 DEF Next

\* The invariant holds in every state.
LEMMA RingInvariant == Spec => []RingInv
  BY InitRing, NextRing, PTL DEF Spec

\* audio_ringbuf.c keeps w and r inside the buffer and only ever copies
\* samples, whatever the capacity and the chunk sizes.
THEOREM TypeCorrect == Spec => []TypeOK
  BY RingInvariant, PTL DEF RingInv

\* The play task's unlocked audio_ringbuf_avail never claims samples that
\* are not there, however many pushes run between its two reads.
THEOREM AvailSound == Spec => []AvailNeverOverstates
  BY RingInvariant, PTL DEF RingInv

-----------------------------------------------------------------------------
(* Refinement.                                                             *)

\* The cell of buf that holds the k-th stored sample, without the modulus.
LEMMA CellIndex ==
    ASSUME TypeOK, NEW k \in 1..Cap
    PROVE  /\ (r + k - 1) % Cap \in 0..(Cap - 1)
           /\ (r + k - 1) % Cap = IF r + k - 1 < Cap THEN r + k - 1 ELSE r + k - 1 - Cap
  <1> DEFINE x == r + k - 1
  <1>a. r \in 0..(Cap - 1)
    BY DEF TypeOK
  <1>1. x \in Nat /\ x < 2 * Cap
    BY <1>a, CapAssumption
  <1> HIDE DEF x
  <1>2. x % Cap = IF x < Cap THEN x ELSE x - Cap
    BY <1>1, WrapOnce
  <1> DEFINE y == x % Cap
  <1>3. y = IF r + k - 1 < Cap THEN r + k - 1 ELSE r + k - 1 - Cap
    BY <1>a, <1>2, CapAssumption DEF x
  <1> HIDE DEF y
  <1>4. y \in 0..(Cap - 1)
    BY <1>a, <1>3, CapAssumption
  <1>5. QED
    BY <1>3, <1>4 DEF x, y

\* The stored samples form a sequence of length Avail.
LEMMA ContentsSeq ==
    ASSUME TypeOK
    PROVE  /\ Avail \in 0..(Cap - 1)
           /\ Contents \in Seq(Sample)
           /\ Len(Contents) = Avail
  <1>1. Avail \in 0..(Cap - 1)
    BY AvailRange DEF Avail, TypeOK
  <1>2. ASSUME NEW k \in 1..Avail
        PROVE  buf[(r + k - 1) % Cap] \in Sample
    <2>1. k \in 1..Cap
      BY <1>1, CapAssumption
    <2>2. QED
      BY <2>1, CellIndex DEF TypeOK
  <1>3. Contents \in [1..Avail -> Sample]
    BY <1>2 DEF Contents
  <1>4. QED
    BY <1>1, <1>3

\* A push appends the stored prefix of the chunk and leaves the rest alone.
LEMMA PushAppends ==
    ASSUME TypeOK, NEW pcm \in Chunk, Push(pcm)
    PROVE  Contents' = Contents \o SubSeq(pcm, 1, PushCount(pcm))
  <1> DEFINE n == PushCount(pcm)
  <1> DEFINE first == Least(Cap - w, n)
  <1>1. /\ pcm \in Seq(Sample)
        /\ n \in 0..(Cap - 1 - AvailOf(w, r))
        /\ n <= Len(pcm)
    BY PushCountRange DEF Avail
  <1>2. w \in 0..(Cap - 1) /\ r \in 0..(Cap - 1)
    BY DEF TypeOK
  <1>3. Avail \in 0..(Cap - 1) /\ Contents \in Seq(Sample) /\ Len(Contents) = Avail
    BY ContentsSeq
  <1>4. buf' = AfterCopy(pcm, n) /\ w' = (w + n) % Cap /\ r' = r
    BY DEF Push
  <1>5. first = IF Cap - w < n THEN Cap - w ELSE n
    BY DEF Least
  <1>6. buf' = [i \in 0..(Cap - 1) |->
                  IF i >= w /\ i < w + first THEN pcm[i - w + 1]
                  ELSE IF i < n - first THEN pcm[first + i + 1]
                  ELSE buf[i]]
    BY <1>4 DEF AfterCopy
  <1> HIDE DEF n, first
  <1>7. Avail' = Avail + n
    BY <1>1, <1>2, <1>4, PushAvail DEF Avail
  <1>8. n \in Nat /\ Avail + n < Cap
    BY <1>1, <1>3, CapAssumption DEF Avail
  <1> DEFINE new == SubSeq(pcm, 1, n)
  <1>9. new \in Seq(Sample) /\ Len(new) = n /\ \A k \in 1..n : new[k] = pcm[k]
    BY <1>1, <1>8
  <1> HIDE DEF new
  <1>10. ASSUME NEW k \in 1..(Avail + n)
         PROVE  buf'[(r + k - 1) % Cap] = (Contents \o new)[k]
    <2> DEFINE c == (r + k - 1) % Cap
    <2>1. k \in 1..Cap
      BY <1>3, <1>8, CapAssumption
    <2>2. /\ c \in 0..(Cap - 1)
          /\ c = IF r + k - 1 < Cap THEN r + k - 1 ELSE r + k - 1 - Cap
      BY <2>1, CellIndex
    <2>3. Contents[k] = buf[c] \/ k > Avail
      BY <1>3 DEF Contents
    <2> HIDE DEF c
    <2>4. Avail = IF w >= r THEN w - r ELSE Cap - r + w
      BY DEF Avail, AvailOf
    <2>5. ASSUME k <= Avail
          PROVE  buf'[c] = (Contents \o new)[k]
      <3>1. ~(c >= w /\ c < w + first) /\ ~(c < n - first)
        BY <1>2, <1>5, <1>8, <2>1, <2>2, <2>4, <2>5, CapAssumption
      <3>2. buf'[c] = buf[c]
        BY <1>6, <2>2, <3>1
      <3>3. (Contents \o new)[k] = Contents[k]
        BY <1>3, <1>9, <2>1, <2>5
      <3>4. QED
        BY <1>3, <2>1, <2>3, <2>5, <3>2, <3>3
    <2>6. ASSUME k > Avail
          PROVE  buf'[c] = (Contents \o new)[k]
      <3>1. k - Avail \in 1..n
        BY <1>3, <1>8, <2>6
      <3>2. (Contents \o new)[k] = pcm[k - Avail]
        <4>1. (Contents \o new)[k] = new[k - Avail]
          BY <1>3, <1>8, <1>9, <2>6
        <4>2. QED
          BY <1>9, <3>1, <4>1
      <3>3. ASSUME k - Avail <= Cap - w
            PROVE  buf'[c] = (Contents \o new)[k]
        <4>1. c >= w /\ c < w + first /\ c - w + 1 = k - Avail
          BY <1>2, <1>5, <1>8, <2>1, <2>2, <2>4, <2>6, <3>3, CapAssumption
        <4>2. QED
          BY <1>6, <2>2, <3>2, <4>1
      <3>4. ASSUME k - Avail > Cap - w
            PROVE  buf'[c] = (Contents \o new)[k]
        <4>1. /\ ~(c >= w /\ c < w + first)
              /\ c < n - first
              /\ first + c + 1 = k - Avail
          BY <1>2, <1>5, <1>8, <2>1, <2>2, <2>4, <2>6, <3>1, <3>4, CapAssumption
        <4>2. QED
          BY <1>6, <2>2, <3>2, <4>1
      <3>5. k - Avail <= Cap - w \/ k - Avail > Cap - w
        BY <1>2, <1>3, <2>1, CapAssumption
      <3>6. QED
        BY <3>3, <3>4, <3>5
    <2>7. k <= Avail \/ k > Avail
      BY <1>3, <2>1, CapAssumption
    <2>8. QED
      BY <2>5, <2>6, <2>7 DEF c
  <1>11. Contents' = [k \in 1..(Avail + n) |-> buf'[(r + k - 1) % Cap]]
    BY <1>4, <1>7 DEF Contents
  <1>12. /\ Contents \o new \in Seq(Sample)
         /\ Len(Contents \o new) = Avail + n
    BY <1>3, <1>9
  <1> DEFINE both == Contents \o new
  <1>a. both \in Seq(Sample) /\ Len(both) = Avail + n
    BY <1>12
  <1> HIDE DEF both
  <1>b. both = [k \in 1..(Avail + n) |-> both[k]]
    BY <1>a
  <1>13. Contents \o new = [k \in 1..(Avail + n) |-> (Contents \o new)[k]]
    BY <1>b DEF both
  <1>14. Contents' = Contents \o new
    BY <1>10, <1>11, <1>13
  <1>15. QED
    BY <1>14 DEF new, n

\* A pop copies the oldest samples out, in order, and keeps the rest.
LEMMA PopRemoves ==
    ASSUME TypeOK, NEW m \in Nat \ {0}, Pop(m)
    PROVE  LET n == Least(m, Avail)
           IN  /\ out' = SubSeq(Contents, 1, n)
               /\ Contents' = SubSeq(Contents, n + 1, Len(Contents))
  <1> DEFINE n == Least(m, Avail)
  <1> DEFINE first == Least(Cap - r, n)
  <1>1. n \in 0..AvailOf(w, r) /\ Avail \in 0..(Cap - 1)
    BY PopCountRange DEF Avail
  <1>2. w \in 0..(Cap - 1) /\ r \in 0..(Cap - 1)
    BY DEF TypeOK
  <1>3. Contents \in Seq(Sample) /\ Len(Contents) = Avail
    BY ContentsSeq
  <1>4. out' = CopyOut(n) /\ r' = (r + n) % Cap /\ w' = w /\ buf' = buf
    BY DEF Pop
  <1>5. first = IF Cap - r < n THEN Cap - r ELSE n
    BY DEF Least
  <1>6. out' = [k \in 1..n |-> IF k <= first THEN buf[r + k - 1] ELSE buf[k - first - 1]]
    BY <1>4 DEF CopyOut
  <1> HIDE DEF n, first
  <1>7. /\ r' \in 0..(Cap - 1)
        /\ r' = IF r + n < Cap THEN r + n ELSE r + n - Cap
        /\ Avail' = Avail - n
    <2>1. AvailOf(w, r) = Avail
      BY DEF Avail
    <2>2. Avail' = AvailOf(w', r')
      BY DEF Avail
    <2>3. QED
      BY <1>1, <1>2, <1>4, <2>1, <2>2, PopAvail
  <1>8. n \in Nat /\ n <= Avail
    BY <1>1, CapAssumption DEF Avail
  <1>9. ASSUME NEW k \in 1..n
        PROVE  out'[k] = Contents[k]
    <2>1. k \in 1..Cap /\ k \in 1..Avail
      BY <1>1, <1>8, CapAssumption
    <2> DEFINE c == (r + k - 1) % Cap
    <2>2. c = IF r + k - 1 < Cap THEN r + k - 1 ELSE r + k - 1 - Cap
      BY <2>1, CellIndex
    <2>3. Contents[k] = buf[c]
      BY <2>1 DEF Contents
    <2> HIDE DEF c
    <2>4. c = IF k <= first THEN r + k - 1 ELSE k - first - 1
      BY <1>2, <1>5, <1>8, <2>1, <2>2, CapAssumption
    <2>5. QED
      BY <1>6, <2>3, <2>4
  <1>10. out' = SubSeq(Contents, 1, n)
    <2> DEFINE old == SubSeq(Contents, 1, n)
    <2>1. old \in Seq(Sample) /\ Len(old) = n /\ \A k \in 1..n : old[k] = Contents[k]
      BY <1>1, <1>3, <1>8, CapAssumption
    <2> HIDE DEF old
    <2>2. old = [k \in 1..n |-> old[k]]
      BY <2>1
    <2>3. out' = [k \in 1..n |-> out'[k]]
      BY <1>6
    <2>4. \A k \in 1..n : out'[k] = old[k]
      BY <1>9, <2>1
    <2>5. out' = old
      BY <2>2, <2>3, <2>4, Zenon
    <2>6. QED
      BY <2>5 DEF old
  <1>11. Contents' = SubSeq(Contents, n + 1, Len(Contents))
    <2> DEFINE rest == SubSeq(Contents, n + 1, Len(Contents))
    <2>1. /\ rest \in Seq(Sample)
          /\ Len(rest) = Avail - n
          /\ \A k \in 1..(Avail - n) : rest[k] = Contents[n + k]
      BY <1>1, <1>3, <1>8, CapAssumption
    <2> HIDE DEF rest
    <2>2. Contents' = [k \in 1..(Avail - n) |-> buf[(r' + k - 1) % Cap]]
      BY <1>4, <1>7 DEF Contents
    <2>3. ASSUME NEW k \in 1..(Avail - n)
          PROVE  buf[(r' + k - 1) % Cap] = rest[k]
      <3>1. k \in 1..Cap /\ n + k \in 1..Cap /\ n + k \in 1..Avail
        BY <1>1, <1>8, CapAssumption
      <3> DEFINE c == (r + (n + k) - 1) % Cap
      <3> DEFINE d == (r' + k - 1) % Cap
      <3>2. c = IF r + (n + k) - 1 < Cap THEN r + (n + k) - 1 ELSE r + (n + k) - 1 - Cap
        BY <3>1, CellIndex
      <3>3. d = IF r' + k - 1 < Cap THEN r' + k - 1 ELSE r' + k - 1 - Cap
        <4> DEFINE z == r' + k - 1
        <4>1. z \in Nat /\ z < 2 * Cap
          BY <1>7, <3>1, CapAssumption
        <4> HIDE DEF z
        <4>2. z % Cap = IF z < Cap THEN z ELSE z - Cap
          BY <4>1, WrapOnce
        <4> DEFINE e == z % Cap
        <4>3. e = IF r' + k - 1 < Cap THEN r' + k - 1 ELSE r' + k - 1 - Cap
          BY <1>7, <3>1, <4>2, CapAssumption DEF z
        <4> HIDE DEF e
        <4>4. QED
          BY <4>3 DEF e, z
      <3>4. Contents[n + k] = buf[c]
        BY <3>1 DEF Contents
      <3> HIDE DEF c, d
      <3>5. c = d
        BY <1>2, <1>7, <1>8, <3>1, <3>2, <3>3, CapAssumption
      <3>6. buf[d] = rest[k]
        BY <2>1, <3>4, <3>5
      <3>7. QED
        BY <3>6 DEF d
    <2>4. rest = [k \in 1..(Avail - n) |-> rest[k]]
      BY <2>1
    <2>5. Contents' = rest
      BY <2>2, <2>3, <2>4
    <2>6. QED
      BY <2>5 DEF rest
  <1>12. QED
    BY <1>10, <1>11 DEF n

\* An empty ring is an empty queue.
LEMMA InitRefines == Init => Fifo!FifoInit
  <1> SUFFICES ASSUME Init PROVE Fifo!FifoInit
    OBVIOUS
  <1>1. TypeOK /\ Avail = 0
    BY InitRing, CapAssumption DEF Init, RingInv, Avail, AvailOf
  <1>2. Contents = <<>>
    BY <1>1, ContentsSeq
  <1>3. QED
    BY <1>2 DEF Init, Fifo!FifoInit

\* Every step of the ring is a step of the queue, or none.
LEMMA NextRefines == RingInv /\ [Next]_vars => [Fifo!FifoNext]_(Fifo!fifoVars)
  <1> SUFFICES ASSUME RingInv, [Next]_vars
               PROVE  [Fifo!FifoNext]_(Fifo!fifoVars)
    OBVIOUS
  <1>0. TypeOK
    BY DEF RingInv
  <1>1. /\ Avail \in 0..(Cap - 1)
        /\ Contents \in Seq(Sample)
        /\ Len(Contents) = Avail
    BY <1>0, ContentsSeq
  <1>2. ASSUME UNCHANGED <<buf, w, r, out, epoch>>
        PROVE  UNCHANGED Fifo!fifoVars
    BY <1>2 DEF Contents, Avail, AvailOf, Fifo!fifoVars
  <1>3. ASSUME NEW pcm \in Chunk, Push(pcm)
        PROVE  Fifo!FifoNext
    <2>1. Contents' = Contents \o SubSeq(pcm, 1, PushCount(pcm)) /\ out' = out /\ epoch' = epoch
      BY <1>0, <1>3, PushAppends DEF Push
    <2>2. Free = Cap - 1 - Avail
      BY <1>0, PushCountRange
    <2>3. PushCount(pcm) = Fifo!Least(Len(pcm), (Cap - 1) - Len(Contents))
      BY <1>1, <2>2 DEF PushCount, Least, Fifo!Least
    <2>4. Fifo!FifoPush(pcm)
      BY <2>1, <2>3 DEF Fifo!FifoPush
    <2>5. pcm \in Fifo!Chunk
      BY DEF Chunk, Fifo!Chunk
    <2>6. QED
      BY <2>4, <2>5 DEF Fifo!FifoNext
  <1>4. CASE AvailReadW
    BY <1>2, <1>4 DEF AvailReadW
  <1>5. CASE AvailReadR
    BY <1>2, <1>5 DEF AvailReadR
  <1>6. CASE PlayPop
    <2>1. CASE UNCHANGED <<buf, w, r, out, seenW, epoch>>
      BY <1>2, <2>1
    <2>2. CASE avail > 0 /\ Pop(Least(avail, MaxChunk))
      <3> DEFINE m == Least(avail, MaxChunk)
      <3>1. m \in 1..MaxChunk /\ m \in Nat \ {0}
        BY <1>0, <2>2, CapAssumption, ChunkAssumption DEF TypeOK, Least
      <3> HIDE DEF m
      <3>2. /\ out' = SubSeq(Contents, 1, Least(m, Avail))
            /\ Contents' = SubSeq(Contents, Least(m, Avail) + 1, Len(Contents))
        BY <1>0, <2>2, <3>1, PopRemoves DEF m
      <3>3. Least(m, Avail) = Fifo!Least(m, Len(Contents))
        BY <1>1 DEF Least, Fifo!Least
      <3>4. Fifo!FifoPop(m)
        BY <2>2, <3>2, <3>3 DEF Pop, Fifo!FifoPop
      <3>5. QED
        BY <3>1, <3>4 DEF Fifo!FifoNext
    <2>3. QED
      BY <1>6, <2>1, <2>2 DEF PlayPop
  <1>7. CASE Reset
    <2>1. Avail' = 0 /\ out' = out
      BY <1>7 DEF Reset, Avail, AvailOf
    <2>2. Contents' = <<>>
      BY <2>1 DEF Contents
    <2>3. Fifo!FifoReset
      BY <1>7, <2>1, <2>2 DEF Reset, Fifo!FifoReset
    <2>4. QED
      BY <2>3 DEF Fifo!FifoNext
  <1>8. CASE UNCHANGED vars
    BY <1>2, <1>8 DEF vars
  <1>9. QED
    BY <1>3, <1>4, <1>5, <1>6, <1>7, <1>8 DEF Next

\* The ring of audio_ringbuf.c implements the bounded FIFO of capacity
\* Cap - 1: across the wrap of either index, no sample is lost, duplicated
\* or reordered, and a full ring is never taken for an empty one.
THEOREM RingImplementsFifo == Spec => ImplementsFifo
  BY InitRefines, NextRefines, RingInvariant, PTL
     DEF Spec, ImplementsFifo, Fifo!FifoSpec

-----------------------------------------------------------------------------
(* A request to the cloud.                                                 *)

\* What is held at each step, as the exits before it have left it.
HeldAt(at, held) ==
    reqAt = at => reqHeld = held

UploadHeld ==
    /\ HeldAt("idle", {})
    /\ HeldAt("policy.open", {"wav"}) /\ HeldAt("policy.headers", {"wav"})
    /\ HeldAt("policy.read", {"wav", "policy"}) /\ HeldAt("policy.parse", {"wav", "json"})
    /\ HeldAt("fields", {"wav", "key", "oss_url", "saved"})
    /\ HeldAt("post.init", {"wav"} \cup Upload!Texts)
    /\ HeldAt("post.open", {"wav", "post"} \cup Upload!Texts)
    /\ HeldAt("post.write", {"wav", "post"} \cup Upload!Texts)
    /\ HeldAt("post.answer", {"wav", "post"} \cup Upload!Texts)
    /\ HeldAt("body", {"url"}) /\ HeldAt("ask", {"body", "ctx"})
    /\ HeldAt("stream", {"body", "ctx", "http"}) /\ HeldAt("deliver", {"ctx"})
    /\ reqAt = "uploaded" => \/ reqHeld = {"wav", "url"} \/ reqHeld = {"wav"}
                             \/ /\ reqHeld = {"wav"} \cup Upload!Texts
                                /\ reqFailed \in {"post.init", "post.open"}
    /\ reqAt = "return" => \/ reqHeld = {}
                           \/ /\ reqHeld = Upload!Texts
                              /\ reqFailed \in {"post.init", "post.open"}

\* Where a request is.
Labels == {"idle", "policy.open", "policy.headers", "policy.read", "policy.parse", "fields",
           "post.init", "post.open", "post.write", "post.answer", "uploaded", "body", "ask",
           "stream", "deliver", "return"}

UploadInv == /\ reqAt \in Labels
             /\ UploadHeld
             /\ reqClient \in {"none", "shut", "open"}
             /\ reqAt # "idle" => reqClient # "none"
             /\ reqAt \in {"policy.headers", "policy.read"} <=> reqClient = "open"
             /\ reqLeaks \in 0..MaxLeaks

\* Nothing is held before the first request.
LEMMA UploadInit == MaxLeaks \in Nat /\ Upload!Init => UploadInv
  BY DEF Upload!Init, UploadInv, UploadHeld, HeldAt, Labels

\* Every exit of every step leaves what the step after it expects.
LEMMA UploadNext == MaxLeaks \in Nat /\ UploadInv /\ [Upload!Next]_(Upload!reqVars) => UploadInv'
<1> SUFFICES ASSUME MaxLeaks \in Nat, UploadInv, [Upload!Next]_(Upload!reqVars) PROVE UploadInv'
  OBVIOUS
<1> USE DEF UploadInv, UploadHeld, HeldAt, Labels, Upload!Does, Upload!Quits, Upload!Keep, Upload!Shut, Upload!Texts
<1>1. CASE Upload!Open \/ Upload!Close \/ UNCHANGED Upload!reqVars
  BY <1>1 DEF Upload!Open, Upload!Close, Upload!reqVars
<1>2. CASE Upload!Send
  BY <1>2 DEF Upload!Send
<1>3. CASE Upload!PolicyOpen
  BY <1>3 DEF Upload!PolicyOpen
<1>4. CASE Upload!PolicyHeaders
  BY <1>4 DEF Upload!PolicyHeaders
<1>5. CASE Upload!PolicyRead
  BY <1>5 DEF Upload!PolicyRead
<1>6. CASE Upload!PolicyParse
  BY <1>6 DEF Upload!PolicyParse
<1>7. CASE Upload!FieldBuffer
  BY <1>7 DEF Upload!FieldBuffer
<1>8. CASE Upload!PostInit
  BY <1>8 DEF Upload!PostInit
<1>9. CASE Upload!PostOpen
  BY <1>9 DEF Upload!PostOpen
<1>10. CASE Upload!PostWrite
  BY <1>10 DEF Upload!PostWrite
<1>11. CASE Upload!PostAnswer
  BY <1>11 DEF Upload!PostAnswer
<1>12. CASE Upload!Uploaded
  BY <1>12 DEF Upload!Uploaded
<1>13. CASE Upload!Body
  BY <1>13 DEF Upload!Body
<1>14. CASE Upload!Ask
  BY <1>14 DEF Upload!Ask
<1>15. CASE Upload!Stream
  BY <1>15 DEF Upload!Stream
<1>16. CASE Upload!Deliver
  BY <1>16 DEF Upload!Deliver
<1>17. CASE Upload!Return
  BY <1>17 DEF Upload!Return
<1> QED
  BY <1>1, <1>2, <1>3, <1>4, <1>5, <1>6, <1>7, <1>8, <1>9, <1>10, <1>11, <1>12, <1>13,
     <1>14, <1>15, <1>16, <1>17 DEF Upload!Next, Upload!Request

\* What it says about every state of a request.
LEMMA UploadSafe ==
    UploadInv => /\ Upload!TypeOK /\ Upload!ClientReusable
                 /\ Upload!OnlyPostLeaks /\ Upload!LittleHeldWhilePlaying
<1> SUFFICES ASSUME UploadInv
             PROVE  /\ Upload!TypeOK /\ Upload!ClientReusable
                    /\ Upload!OnlyPostLeaks /\ Upload!LittleHeldWhilePlaying
  OBVIOUS
<1>1. Upload!TypeOK
  BY DEF UploadInv, UploadHeld, HeldAt, Labels, Upload!TypeOK, Upload!Resources, Upload!Texts
<1>2. Upload!ClientReusable /\ Upload!LittleHeldWhilePlaying
  BY DEF UploadInv, UploadHeld, HeldAt, Upload!ClientReusable, Upload!LittleHeldWhilePlaying
<1>3. Upload!OnlyPostLeaks
  BY DEF UploadInv, UploadHeld, Upload!OnlyPostLeaks
<1> QED
  BY <1>1, <1>2, <1>3

\* What omni_client.c keeps, however often an exit leaks: the HTTP client that
\* is reused is open only while it is used, only the exits of the upload leave
\* something behind when a request returns, and while the answer is delivered
\* nothing but its context is held.
THEOREM RequestReleases ==
    ASSUME MaxLeaks \in Nat
    PROVE  Upload!Spec => [](/\ Upload!TypeOK /\ Upload!ClientReusable
                             /\ Upload!OnlyPostLeaks /\ Upload!LittleHeldWhilePlaying)
  BY UploadInit, UploadNext, UploadSafe, PTL DEF Upload!Spec

-----------------------------------------------------------------------------
(* The answer of the cloud.                                                *)

LineRec == [lines : 0..MaxLines, event : Events \cup {Reply!Blank}, got : Nat]
BufRec == [kept : Nat, cap : LineCap..LineMax]
CtxRec == [refused : BOOLEAN, error : BOOLEAN, stripped : BOOLEAN, next : Nat,
           lost : SUBSET Nat, short : BOOLEAN]
ReplyRec == [state : {"collecting", "played", "failed"}, acc : Seq(Nat)]
VolumeRec == [saved : Reply!Quiet..0, target : Reply!Quiet..0]

LineTyped == /\ sseLine \in LineRec
             /\ sseLine.got <= sseLine.event.len
             /\ sseBuf \in BufRec
             /\ sseBuf.kept <= sseLine.got /\ sseBuf.kept < sseBuf.cap

ReplyTyped == /\ sseReply \in ReplyRec /\ Len(sseReply.acc) <= ReplyMax
              /\ sseVolume \in VolumeRec

\* What was dropped of the line that is being read was already more than half of
\* the largest buffer.
DroppedLong == ~sseCtx.short /\ sseBuf.kept # sseLine.got => 2 * (sseLine.got + 1) > LineMax

ReplyInv == /\ LineTyped /\ ReplyTyped /\ sseCtx \in CtxRec
            /\ DroppedLong /\ Reply!ShortLinesKept
            /\ Reply!ErrorNotPlayed

\* What an event of a line is.
LEMMA LineEvents ==
    ASSUME LinesAssumption
    PROVE  \A e \in Events \cup {Reply!Blank} : EventTyped(e)
<1>1. EventTyped(Reply!Blank)
  BY DEF EventTyped, Reply!Blank
<1> QED
  BY <1>1 DEF LinesAssumption

\* It holds before the first line.
LEMMA ReplyInit == LinesAssumption /\ Reply!Init => ReplyInv
<1> SUFFICES ASSUME LinesAssumption, Reply!Init PROVE ReplyInv
  OBVIOUS
<1>1. Reply!Blank.len = 0
  BY DEF Reply!Blank
<1>2. LineTyped
  BY <1>1 DEF LinesAssumption, Reply!Init, LineTyped, LineRec, BufRec
<1>3. ReplyTyped
  BY DEF LinesAssumption, Reply!Init, ReplyTyped, ReplyRec, VolumeRec, Reply!Quiet
<1>4. sseCtx \in CtxRec /\ sseCtx.lost = {}
  BY DEF Reply!Init, CtxRec
<1> QED
  BY <1>2, <1>3, <1>4 DEF Reply!Init, ReplyInv, DroppedLong, Reply!ShortLinesKept, Reply!ErrorNotPlayed

\* The buffer grows to what is needed, and beyond the largest size only if more
\* than half of it is needed.
LEMMA Grown ==
    ASSUME LinesAssumption, LineTyped, NEW needed \in Nat
    PROVE  /\ Reply!NewCap(needed) \in Nat /\ needed <= Reply!NewCap(needed)
           /\ LineCap <= Reply!NewCap(needed)
           /\ Reply!NewCap(needed) > LineMax => 2 * needed > LineMax
  BY DEF LinesAssumption, LineTyped, BufRec, Reply!NewCap

\* A piece of a line is kept, or all of it that was kept is dropped.
LEMMA PieceKeeps ==
    ASSUME LinesAssumption, ReplyInv, NEW n \in 1..sseLine.event.len, Reply!Piece(n)
    PROVE  ReplyInv'
<1> DEFINE cap == Reply!NewCap(sseBuf.kept + n + 1)
<1>1. /\ sseLine \in LineRec /\ sseBuf \in BufRec /\ sseCtx \in CtxRec
      /\ sseLine.got \in Nat /\ sseLine.event.len \in Nat /\ sseBuf.kept \in Nat /\ LineMax \in Nat
      /\ sseBuf.kept <= sseLine.got /\ sseLine.got + n <= sseLine.event.len /\ n \in Nat
  BY LineEvents DEF ReplyInv, LineTyped, LineRec, BufRec, EventTyped, Reply!Piece, LinesAssumption
<1>2. /\ cap \in Nat /\ sseBuf.kept + n + 1 <= cap /\ LineCap <= cap
      /\ cap > LineMax => 2 * (sseBuf.kept + n + 1) > LineMax
  BY <1>1, Grown DEF ReplyInv
<1>3. sseLine' = [sseLine EXCEPT !.got = sseLine.got + n] /\ UNCHANGED <<sseReply, sseVolume>>
  BY DEF Reply!Piece
<1>9. Reply!Fits(cap) <=> ~(cap > LineMax)
  BY <1>1, <1>2 DEF Reply!Fits
<1>10. cap <= LineMax <=> ~(cap > LineMax)
  BY <1>1, <1>2
<1>4. \/ /\ cap <= LineMax /\ sseBuf' = [kept |-> sseBuf.kept + n, cap |-> cap]
         /\ sseCtx' = sseCtx
      \/ /\ cap > LineMax \/ Short
         /\ sseBuf' = [sseBuf EXCEPT !.kept = 0]
         /\ sseCtx' = [sseCtx EXCEPT !.short = sseCtx.short \/ Reply!Fits(cap)]
  BY <1>9, <1>10, Zenon DEF Reply!Piece, Reply!MayDrop
<1> HIDE DEF cap
<1>5. sseLine' \in LineRec /\ sseLine'.got = sseLine.got + n /\ sseLine'.event = sseLine.event
  BY <1>1, <1>3 DEF LineRec
<1>6. ReplyTyped'
  BY <1>3 DEF ReplyInv, ReplyTyped
<1>7. CASE /\ cap <= LineMax /\ sseBuf' = [kept |-> sseBuf.kept + n, cap |-> cap]
           /\ sseCtx' = sseCtx
  <2>1. LineTyped'
    BY <1>1, <1>2, <1>5, <1>7 DEF ReplyInv, LineTyped, BufRec, LinesAssumption
  <2>2. DroppedLong'
    <3> SUFFICES ASSUME ~sseCtx'.short, sseBuf'.kept # sseLine'.got PROVE 2 * (sseLine'.got + 1) > LineMax
      BY DEF DroppedLong
    <3>1. sseBuf.kept # sseLine.got /\ ~sseCtx.short
      BY <1>1, <1>5, <1>7
    <3> QED
      BY <1>1, <1>5, <3>1 DEF ReplyInv, DroppedLong
  <2>3. Reply!ShortLinesKept' /\ Reply!ErrorNotPlayed'
    BY <1>3, <1>7 DEF ReplyInv, Reply!ShortLinesKept, Reply!ErrorNotPlayed
  <2> QED
    BY <1>1, <1>6, <1>7, <2>1, <2>2, <2>3 DEF ReplyInv
<1>8. CASE /\ cap > LineMax \/ Short
           /\ sseBuf' = [sseBuf EXCEPT !.kept = 0]
           /\ sseCtx' = [sseCtx EXCEPT !.short = sseCtx.short \/ Reply!Fits(cap)]
  <2>1. sseBuf' \in BufRec /\ sseBuf'.kept = 0 /\ sseBuf'.cap = sseBuf.cap
    BY <1>1, <1>8 DEF BufRec
  <2>2. LineTyped'
    BY <1>1, <1>5, <2>1 DEF ReplyInv, LineTyped, BufRec
  <2> DEFINE short == sseCtx.short \/ Reply!Fits(cap)
  <2>0. short \in BOOLEAN
    OBVIOUS
  <2> HIDE DEF short
  <2>3. /\ sseCtx' \in CtxRec /\ sseCtx'.lost = sseCtx.lost /\ sseCtx'.error = sseCtx.error
        /\ sseCtx'.refused = sseCtx.refused /\ sseCtx'.short = short
    BY <1>1, <1>8, <2>0 DEF CtxRec, short
  <2>4. DroppedLong'
    <3> SUFFICES ASSUME ~sseCtx'.short PROVE 2 * (sseLine'.got + 1) > LineMax
      BY DEF DroppedLong
    <3>1. cap > LineMax
      BY <1>9, <2>3, Zenon DEF short
    <3> QED
      BY <1>1, <1>2, <1>5, <3>1
  <2>6. sseCtx.short => short
    BY DEF short
  <2>5. Reply!ShortLinesKept' /\ Reply!ErrorNotPlayed'
    BY <1>3, <2>3, <2>6 DEF ReplyInv, Reply!ShortLinesKept, Reply!ErrorNotPlayed
  <2> QED
    BY <1>6, <2>2, <2>3, <2>4, <2>5 DEF ReplyInv
<1> QED
  BY <1>4, <1>7, <1>8

\* Where a line begins the buffer is empty.
LEMMA LineDoneTyped ==
    ASSUME LinesAssumption, ReplyInv, Reply!LineDone, NEW c \in LineCap..LineMax,
           sseBuf' = [kept |-> 0, cap |-> c]
    PROVE  LineTyped' /\ DroppedLong'
<1>1. sseLine' = [sseLine EXCEPT !.event = Reply!Blank, !.got = 0] /\ sseLine \in LineRec
  BY DEF Reply!LineDone, ReplyInv, LineTyped
<1>2. Reply!Blank.len = 0
  BY DEF Reply!Blank
<1>3. sseLine' \in LineRec
  BY <1>1, <1>2 DEF LineRec
<1>4. sseLine'.event = Reply!Blank /\ sseLine'.got = 0
  BY <1>1 DEF LineRec
<1> QED
  BY <1>2, <1>3, <1>4 DEF LineTyped, DroppedLong, BufRec, LinesAssumption

\* What is collected stays within the length of a reply.
LEMMA CollectedTyped ==
    ASSUME LinesAssumption, ReplyTyped, sseCtx \in CtxRec, NEW event, EventTyped(event)
    PROVE  /\ Reply!Collected(Reply!Samples(event)) \in Seq(Nat)
           /\ Len(Reply!Collected(Reply!Samples(event))) <= ReplyMax
<1> DEFINE samples == Reply!Samples(event)
           acc == sseReply.acc
<1>1. samples \in Seq(Nat)
  <2>1. event.pcm \in Nat /\ sseCtx.next \in Nat
    BY DEF EventTyped, CtxRec
  <2> DEFINE sound == [i \in 1..event.pcm |-> sseCtx.next + i - 1]
             header == IF event.riff /\ (sseCtx.stripped \/ event.pcm = 0) THEN <<0>> ELSE <<>>
  <2>2. \A i \in 1..event.pcm : sseCtx.next + i - 1 \in Nat
    BY <2>1
  <2>3. sound \in Seq(Nat)
    BY <2>1, <2>2
  <2>4. header \in Seq(Nat)
    OBVIOUS
  <2>5. samples = header \o sound
    BY DEF Reply!Samples
  <2> QED
    BY <2>3, <2>4, <2>5
<1>2. acc \in Seq(Nat) /\ Len(acc) \in Nat /\ Len(acc) <= ReplyMax /\ ReplyMax \in Nat
  BY DEF ReplyTyped, ReplyRec, LinesAssumption
<1> DEFINE room == ReplyMax - Len(acc)
           n == IF room < Len(samples) THEN room ELSE Len(samples)
<1>3. Reply!Collected(samples) = acc \o SubSeq(samples, 1, n)
  BY DEF Reply!Collected
<1> HIDE DEF samples, acc
<1>4. n \in 0..Len(samples) /\ n <= ReplyMax - Len(acc)
  BY <1>1, <1>2
<1> HIDE DEF n
<1>5. SubSeq(samples, 1, n) \in Seq(Nat) /\ Len(SubSeq(samples, 1, n)) = n
  BY <1>1, <1>4
<1> DEFINE part == SubSeq(samples, 1, n)
<1> HIDE DEF part
<1>6. acc \o part \in Seq(Nat) /\ Len(acc \o part) = Len(acc) + n
  BY <1>2, <1>5 DEF part
<1>7. Len(acc \o part) <= ReplyMax
  BY <1>2, <1>4, <1>6
<1> QED
  BY <1>3, <1>6, <1>7 DEF part, samples

\* A line that is whole does what it says; an error is remembered.
LEMMA LineKeeps ==
    ASSUME LinesAssumption, ReplyInv, Reply!Line
    PROVE  ReplyInv'
<1> DEFINE event == sseLine.event
           cap == Reply!NewCap(sseBuf.kept + Reply!Rest + 1)
<1>1. EventTyped(event) /\ sseLine.got \in Nat /\ sseBuf.kept \in Nat /\ event.len \in Nat /\ sseLine.got <= event.len
  BY LineEvents DEF ReplyInv, LineTyped, LineRec, EventTyped, BufRec
<1>2. sseBuf.kept + Reply!Rest + 1 \in Nat
  BY <1>1 DEF Reply!Rest
<1>3. cap \in Nat /\ LineCap <= cap
  BY <1>2, Grown DEF ReplyInv
<1>4. /\ cap <= LineMax /\ sseBuf' = [kept |-> 0, cap |-> cap] /\ Reply!LineDone
      /\ Reply!Audio(event) \/ Reply!Text(event) \/ Reply!ErrorLine(event) \/ Reply!OtherLine(event)
  BY DEF Reply!Line, Reply!Fits
<1> HIDE DEF cap, event
<1>5. LineTyped' /\ DroppedLong'
  <2>1. cap \in LineCap..LineMax
    BY <1>3, <1>4 DEF LinesAssumption
  <2> QED
    BY <1>4, <2>1, LineDoneTyped
<1>6. sseReply.state = "collecting"
  BY <1>4 DEF Reply!LineDone
<1>7. sseReply \in ReplyRec /\ sseCtx \in CtxRec /\ sseVolume \in VolumeRec
  BY DEF ReplyInv, ReplyTyped
<1>8. ASSUME sseCtx' \in CtxRec, sseCtx'.lost = sseCtx.lost, sseCtx.short => sseCtx'.short,
             sseReply' \in ReplyRec, sseReply'.state = "collecting",
             Len(sseReply'.acc) <= ReplyMax, sseVolume' \in VolumeRec
      PROVE  ReplyInv'
  BY <1>5, <1>8 DEF ReplyInv, ReplyTyped, Reply!ShortLinesKept, Reply!ErrorNotPlayed
<1>9. CASE Reply!Audio(event)
  <2>1. CASE /\ sseReply' = [sseReply EXCEPT !.acc = Reply!Collected(Reply!Samples(event))]
             /\ sseCtx' = [sseCtx EXCEPT !.stripped = @ \/ event.riff, !.next = @ + event.pcm]
    <3>1. sseReply' \in ReplyRec /\ sseReply'.state = "collecting" /\ Len(sseReply'.acc) <= ReplyMax
      BY <1>1, <1>6, <1>7, <2>1, CollectedTyped DEF ReplyRec, ReplyInv
    <3>2. event.riff \in BOOLEAN /\ event.pcm \in Nat
      BY <1>1 DEF EventTyped
    <3> DEFINE stripped == sseCtx.stripped \/ event.riff
               next == sseCtx.next + event.pcm
    <3>5. stripped \in BOOLEAN /\ next \in Nat
      BY <1>7, <3>2 DEF CtxRec
    <3>6. sseCtx' = [sseCtx EXCEPT !.stripped = stripped, !.next = next]
      BY <2>1
    <3> HIDE DEF stripped, next
    <3>3. sseCtx' \in CtxRec
      BY <1>7, <3>5, <3>6 DEF CtxRec
    <3>4. sseCtx'.lost = sseCtx.lost /\ sseCtx'.short = sseCtx.short
      BY <1>7, <3>6 DEF CtxRec
    <3> QED
      BY <1>7, <1>8, <1>9, <3>1, <3>3, <3>4 DEF Reply!Audio
  <2>2. ASSUME NEW stripped \in {sseCtx.stripped, sseCtx.stripped \/ event.riff},
               sseCtx' = [sseCtx EXCEPT !.stripped = stripped, !.short = TRUE,
                                        !.next = @ + event.pcm],
               sseReply' = sseReply
        PROVE  ReplyInv'
    <3>1. event.riff \in BOOLEAN /\ event.pcm \in Nat
      BY <1>1 DEF EventTyped
    <3>2. stripped \in BOOLEAN /\ sseCtx.next + event.pcm \in Nat
      BY <1>7, <2>2, <3>1 DEF CtxRec
    <3>3. sseCtx' \in CtxRec
      BY <1>7, <2>2, <3>2 DEF CtxRec
    <3>4. sseCtx'.lost = sseCtx.lost /\ sseCtx'.short
      BY <1>7, <2>2 DEF CtxRec
    <3>5. Len(sseReply'.acc) <= ReplyMax
      BY <2>2 DEF ReplyInv, ReplyTyped
    <3> QED
      BY <1>6, <1>7, <1>8, <1>9, <2>2, <3>3, <3>4, <3>5 DEF Reply!Audio
  <2> QED
    BY <1>9, <2>1, <2>2 DEF Reply!Audio
<1>10. CASE Reply!Text(event)
  <2> DEFINE old == sseVolume.saved
             new == CASE event.word = "up" -> IF old < 0 THEN old + 1 ELSE 0
                      [] event.word = "down" -> IF old > Reply!Quiet THEN old - 1 ELSE Reply!Quiet
                      [] event.word = "mute" -> Reply!Quiet
  <2>3. old \in Reply!Quiet..0
    BY <1>7 DEF VolumeRec
  <2>4. event.word # "none" => new \in Reply!Quiet..0
    BY <1>1, <2>3 DEF EventTyped, Reply!Quiet
  <2>5. sseVolume' = IF event.word = "none" THEN sseVolume ELSE [saved |-> new, target |-> old]
    BY <1>10 DEF Reply!Text
  <2> HIDE DEF old, new
  <2>1. sseVolume' \in VolumeRec
    BY <1>7, <2>3, <2>4, <2>5 DEF VolumeRec
  <2>2. UNCHANGED <<sseCtx, sseReply>>
    BY <1>10 DEF Reply!Text
  <2> QED
    BY <1>6, <1>7, <1>8, <2>1, <2>2 DEF ReplyInv, ReplyTyped
<1>11. CASE Reply!ErrorLine(event)
  <2>1. sseCtx' = [sseCtx EXCEPT !.error = TRUE] /\ UNCHANGED <<sseReply, sseVolume>>
    BY <1>11 DEF Reply!ErrorLine
  <2>2. sseCtx' \in CtxRec /\ sseCtx'.lost = sseCtx.lost /\ sseCtx'.short = sseCtx.short
    BY <1>7, <2>1 DEF CtxRec
  <2> QED
    BY <1>6, <1>7, <1>8, <2>1, <2>2 DEF ReplyInv, ReplyTyped
<1>12. CASE Reply!OtherLine(event)
  BY <1>6, <1>7, <1>8, <1>12 DEF Reply!OtherLine, ReplyInv, ReplyTyped
<1> QED
  BY <1>4, <1>9, <1>10, <1>11, <1>12

\* A line is lost when the buffer cannot hold it, or could not hold what came of it.
LEMMA LineLostKeeps ==
    ASSUME LinesAssumption, ReplyInv, Reply!LineLost
    PROVE  ReplyInv'
<1> DEFINE len == sseLine.event.len
           cap == Reply!NewCap(sseBuf.kept + Reply!Rest + 1)
           drop == Reply!MayDrop(cap)
<1>1. /\ sseLine.got \in Nat /\ sseBuf.kept \in Nat /\ len \in Nat /\ sseLine.got <= len
      /\ sseBuf.kept <= sseLine.got /\ sseLine.event.pcm \in Nat /\ LineMax \in Nat
  BY LineEvents DEF ReplyInv, LineTyped, LineRec, EventTyped, BufRec, LinesAssumption
<1>2. sseBuf.kept + Reply!Rest + 1 \in Nat /\ sseBuf.kept + Reply!Rest + 1 <= len + 1
  BY <1>1 DEF Reply!Rest
<1>3. cap \in Nat /\ LineCap <= cap /\ (cap > LineMax => 2 * (len + 1) > LineMax)
  <2> DEFINE needed == sseBuf.kept + Reply!Rest + 1
  <2>1. cap \in Nat /\ LineCap <= cap /\ (cap > LineMax => 2 * needed > LineMax)
    BY <1>2, Grown DEF ReplyInv
  <2> HIDE DEF needed, cap, len
  <2>2. needed \in Nat /\ needed <= len + 1 /\ len \in Nat
    BY <1>1, <1>2 DEF needed, len
  <2> QED
    BY <1>1, <2>1, <2>2
<1>4. /\ drop \/ sseBuf.kept # sseLine.got
      /\ sseBuf' = [kept |-> 0, cap |-> IF drop THEN sseBuf.cap ELSE cap]
      /\ sseCtx' = [sseCtx EXCEPT !.lost = @ \cup {len},
                                  !.short = @ \/ (drop /\ Reply!Fits(cap)),
                                  !.next = @ + sseLine.event.pcm]
      /\ Reply!LineDone /\ UNCHANGED <<sseReply, sseVolume>>
  BY DEF Reply!LineLost
<1>5. ~drop => cap <= LineMax
  BY <1>3 DEF Reply!MayDrop, Reply!Fits
<1>6. Reply!Fits(cap) <=> cap <= LineMax
  BY DEF Reply!Fits
<1> HIDE DEF drop, cap
<1>7. LineTyped' /\ DroppedLong'
  <2>1. (IF drop THEN sseBuf.cap ELSE cap) \in LineCap..LineMax
    BY <1>3, <1>5 DEF ReplyInv, LineTyped, BufRec, LinesAssumption
  <2> QED
    BY <1>4, <2>1, LineDoneTyped
<1>8. sseCtx \in CtxRec /\ (drop /\ Reply!Fits(cap)) \in BOOLEAN
  BY DEF ReplyInv
<1> DEFINE short == sseCtx.short \/ (drop /\ Reply!Fits(cap))
           next == sseCtx.next + sseLine.event.pcm
           lost == sseCtx.lost \cup {len}
<1>13. short \in BOOLEAN /\ next \in Nat /\ lost \in SUBSET Nat
  BY <1>1, <1>8 DEF CtxRec
<1>14. sseCtx' = [sseCtx EXCEPT !.lost = lost, !.short = short, !.next = next]
  BY <1>4
<1> HIDE DEF short, next, lost
<1>9. sseCtx' \in CtxRec
  BY <1>8, <1>13, <1>14 DEF CtxRec
<1>10. /\ sseCtx'.lost = lost /\ sseCtx'.error = sseCtx.error
       /\ sseCtx'.refused = sseCtx.refused /\ sseCtx'.short = short
  BY <1>8, <1>14 DEF CtxRec
<1>11. Reply!ShortLinesKept'
  <2> SUFFICES ASSUME ~sseCtx'.short PROVE \A l \in sseCtx'.lost : 2 * (l + 1) > LineMax
    BY DEF Reply!ShortLinesKept
  <2>1. ~sseCtx.short /\ (drop => ~(cap <= LineMax))
    BY <1>6, <1>10, Zenon DEF short
  <2>2. CASE drop
    BY <1>3, <1>10, <2>1, <2>2, <1>1 DEF lost, ReplyInv, Reply!ShortLinesKept
  <2>3. CASE ~drop
    <3>1. 2 * (sseLine.got + 1) > LineMax
      BY <1>4, <2>1, <2>3 DEF ReplyInv, DroppedLong
    <3>2. 2 * (len + 1) > LineMax
      BY <1>1, <3>1
    <3> QED
      BY <1>10, <2>1, <3>2 DEF lost, ReplyInv, Reply!ShortLinesKept
  <2> QED
    BY <2>2, <2>3
<1>12. Reply!ErrorNotPlayed' /\ ReplyTyped'
  BY <1>4, <1>10 DEF ReplyInv, ReplyTyped, Reply!ErrorNotPlayed
<1> QED
  BY <1>7, <1>9, <1>11, <1>12 DEF ReplyInv

\* The invariant is inductive.
LEMMA ReplyNext == LinesAssumption /\ ReplyInv /\ [Reply!Next]_(Reply!sseVars) => ReplyInv'
<1> SUFFICES ASSUME LinesAssumption, ReplyInv, [Reply!Next]_(Reply!sseVars) PROVE ReplyInv'
  OBVIOUS
<1>1. ASSUME NEW event \in Events, Reply!Begin(event) PROVE ReplyInv'
  <2>1. event.len \in Nat
    BY DEF LinesAssumption, EventTyped
  <2>2. /\ sseLine' = [lines |-> sseLine.lines + 1, event |-> event, got |-> 0]
        /\ sseLine.lines + 1 \in 0..MaxLines /\ sseLine.got = 0
        /\ UNCHANGED <<sseBuf, sseCtx, sseReply, sseVolume>>
    BY <1>1 DEF Reply!Begin, ReplyInv, LineTyped, LineRec, LinesAssumption, Reply!Blank
  <2>3. LineTyped' /\ DroppedLong'
    BY <2>1, <2>2 DEF ReplyInv, LineTyped, LineRec, BufRec, DroppedLong
  <2> QED
    BY <2>2, <2>3 DEF ReplyInv, ReplyTyped, Reply!ShortLinesKept, Reply!ErrorNotPlayed
<1>2. CASE Reply!EndPlays
  <2>1. sseReply' \in ReplyRec /\ sseReply'.acc = sseReply.acc
    BY <1>2 DEF Reply!EndPlays, ReplyInv, ReplyTyped, ReplyRec
  <2> QED
    BY <1>2, <2>1 DEF Reply!EndPlays, ReplyInv, LineTyped, ReplyTyped, DroppedLong,
      Reply!ShortLinesKept, Reply!ErrorNotPlayed
<1>3. CASE Reply!EndFails
  <2>1. sseReply' \in ReplyRec /\ sseReply'.acc = <<>> /\ sseReply'.state = "failed"
    BY <1>3 DEF Reply!EndFails, ReplyRec
  <2>2. Len(sseReply'.acc) <= ReplyMax
    BY <2>1 DEF LinesAssumption
  <2> QED
    BY <1>3, <2>1, <2>2 DEF Reply!EndFails, ReplyInv, LineTyped, ReplyTyped, DroppedLong,
      Reply!ShortLinesKept, Reply!ErrorNotPlayed
<1>4. CASE UNCHANGED Reply!sseVars
  BY <1>4 DEF Reply!sseVars, ReplyInv, LineTyped, ReplyTyped, DroppedLong,
    Reply!ShortLinesKept, Reply!ErrorNotPlayed
<1> QED
  BY <1>1, <1>2, <1>3, <1>4, PieceKeeps, LineKeeps, LineLostKeeps DEF Reply!Next

\* What it says about every state of the stream.
LEMMA ReplySafe == ReplyInv => Reply!TypeOK /\ Reply!ShortLinesKept /\ Reply!ErrorNotPlayed
  BY DEF ReplyInv, LineTyped, ReplyTyped, LineRec, BufRec, ReplyRec, VolumeRec, Reply!TypeOK

\* However omni_client.c gets the stream cut: only lines of at least half of the
\* largest buffer are lost unless memory is short, and an answer that reports an
\* error is not played.
THEOREM AnswerRead ==
    ASSUME LinesAssumption
    PROVE  Reply!Spec => [](Reply!TypeOK /\ Reply!ShortLinesKept /\ Reply!ErrorNotPlayed)
  BY ReplyInit, ReplyNext, ReplySafe, PTL DEF Reply!Spec

-----------------------------------------------------------------------------
(* The order of the reply.  Sound is numbered from 1, a header is 0.       *)

Rising(s) == \A i, j \in 1..Len(s) : i < j /\ s[i] > 0 /\ s[j] > 0 => s[i] < s[j]
Below(s, n) == \A i \in 1..Len(s) : s[i] < n
Holds(s, n) == \E j \in 1..Len(s) : s[j] = n
Gapless(s) == \A i \in 1..Len(s) : \A n \in 1..s[i] : Holds(s, n)

\* Whether a header of z samples and the sound from next on go on with s.
GoesOn(part, z, next) == \A k \in 1..Len(part) : part[k] = IF k <= z THEN 0 ELSE next + k - z - 1

\* Sound that goes on where the reply ends leaves it in order, and without a gap
\* if there was none.
LEMMA SoundAppended ==
    ASSUME NEW acc \in Seq(Nat), NEW part \in Seq(Nat), NEW next \in Nat, next > 0,
           NEW pcm \in Nat, NEW z \in Nat, Len(part) <= z + pcm, GoesOn(part, z, next),
           Rising(acc), Below(acc, next)
    PROVE  LET all == acc \o part
           IN  /\ Rising(all) /\ Below(all, next + pcm)
               /\ Gapless(acc) /\ (part = <<>> \/ \A n \in 1..(next - 1) : Holds(acc, n)) => Gapless(all)
               /\ (\A n \in 1..(next - 1) : Holds(acc, n)) /\ Len(part) = z + pcm
                     => \A n \in 1..(next + pcm - 1) : Holds(all, n)
<1> DEFINE all == acc \o part
           a == Len(acc)
           m == Len(part)
<1>1. /\ a \in Nat /\ m \in Nat /\ m <= z + pcm /\ Len(all) = a + m
      /\ \A k \in 1..a : all[k] = acc[k] /\ acc[k] \in Nat
      /\ \A k \in 1..m : all[a + k] = part[k]
      /\ all \in Seq(Nat)
  OBVIOUS
<1> HIDE DEF all, a, m
<1>2. \A k \in 1..m : part[k] = IF k <= z THEN 0 ELSE next + k - z - 1
  BY DEF GoesOn, m
<1>3. \A i \in 1..(a + m) : i \in 1..a \/ (i - a \in 1..m /\ all[i] = part[i - a])
  <2> SUFFICES ASSUME NEW i \in 1..(a + m), ~(i \in 1..a)
               PROVE  i - a \in 1..m /\ all[i] = part[i - a]
    OBVIOUS
  <2>1. i - a \in 1..m /\ i = a + (i - a)
    BY <1>1
  <2> QED
    BY <1>1, <2>1
<1>4. \A i \in 1..a : acc[i] < next
  BY DEF Below, a
<1>5. Rising(all)
  <2> SUFFICES ASSUME NEW i \in 1..(a + m), NEW j \in 1..(a + m), i < j, all[i] > 0, all[j] > 0
               PROVE  all[i] < all[j]
    BY <1>1 DEF Rising
  <2>1. CASE i \in 1..a /\ j \in 1..a
    BY <1>1, <2>1 DEF Rising, a
  <2>2. CASE i \in 1..a /\ ~(j \in 1..a)
    <3>1. j - a \in 1..m /\ all[j] = part[j - a]
      BY <1>3, <2>2
    <3>4. all[j] = IF j - a <= z THEN 0 ELSE next + (j - a) - z - 1
      BY <1>2, <3>1
    <3>2. all[j] >= next /\ all[j] \in Nat
      BY <1>1, <3>1, <3>4
    <3>3. all[i] < next /\ all[i] \in Nat
      BY <1>1, <1>4, <2>2
    <3> QED
      BY <3>2, <3>3
  <2>3. CASE ~(i \in 1..a)
    <3>1. i - a \in 1..m /\ all[i] = part[i - a]
      BY <1>3, <2>3
    <3>2. j - a \in 1..m /\ all[j] = part[j - a]
      BY <1>1, <1>3, <2>3
    <3>3. all[i] = next + (i - a) - z - 1
      BY <1>2, <3>1
    <3>4. all[j] = next + (j - a) - z - 1
      BY <1>2, <3>2
    <3> QED
      BY <1>1, <3>3, <3>4
  <2> QED
    BY <2>1, <2>2, <2>3
<1>6. Below(all, next + pcm)
  <2> SUFFICES ASSUME NEW i \in 1..(a + m) PROVE all[i] < next + pcm
    BY <1>1 DEF Below
  <2>1. CASE i \in 1..a
    <3>1. all[i] \in Nat /\ all[i] < next
      BY <1>1, <1>4, <2>1
    <3> QED
      BY <3>1
  <2>2. CASE i - a \in 1..m /\ all[i] = part[i - a]
    <3>1. all[i] = IF i - a <= z THEN 0 ELSE next + (i - a) - z - 1
      BY <1>2, <2>2
    <3> QED
      BY <1>1, <2>2, <3>1
  <2> QED
    BY <1>3, <2>1, <2>2
<1>7. \A n : Holds(acc, n) => Holds(all, n)
  <2> SUFFICES ASSUME NEW n, NEW j \in 1..a, acc[j] = n PROVE \E k \in 1..(a + m) : all[k] = n
    BY <1>1 DEF Holds, a
  <2>1. j \in 1..(a + m) /\ all[j] = n
    BY <1>1
  <2> QED
    BY <2>1
<1>8. \A k \in 1..m : k > z => Holds(all, next + k - z - 1)
  <2> SUFFICES ASSUME NEW k \in 1..m, k > z PROVE Holds(all, next + k - z - 1)
    OBVIOUS
  <2>2. all[a + k] = part[k] /\ part[k] = next + k - z - 1
    BY <1>1, <1>2
  <2>1. a + k \in 1..(a + m) /\ all[a + k] = next + k - z - 1
    BY <1>1, <2>2
  <2> QED
    BY <1>1, <2>1 DEF Holds
<1>9. ASSUME \A n \in 1..(next - 1) : Holds(acc, n), NEW k \in 0..m
      PROVE  \A n \in 1..(next + k - z - 1) : Holds(all, n)
  <2> SUFFICES ASSUME NEW n \in 1..(next + k - z - 1) PROVE Holds(all, n)
    OBVIOUS
  <2>1. CASE n < next
    <3>1. n \in 1..(next - 1)
      BY <2>1
    <3> QED
      BY <1>7, <1>9, <3>1
  <2>2. CASE n >= next
    <3> DEFINE d == n - next + z + 1
    <3>1. d \in 1..m /\ d > z /\ next + d - z - 1 = n
      BY <1>1, <2>2
    <3> HIDE DEF d
    <3> QED
      BY <1>8, <3>1
  <2> QED
    BY <2>1, <2>2
<1>10. ASSUME Gapless(acc), part = <<>> \/ \A n \in 1..(next - 1) : Holds(acc, n)
       PROVE  Gapless(all)
  <2> SUFFICES ASSUME NEW i \in 1..(a + m), NEW n \in 1..all[i] PROVE Holds(all, n)
    BY <1>1 DEF Gapless
  <2>1. CASE i \in 1..a
    <3>1. Holds(acc, n)
      BY <1>1, <1>10, <2>1 DEF Gapless, a
    <3> QED
      BY <1>7, <3>1
  <2>2. CASE i - a \in 1..m /\ all[i] = part[i - a]
    <3>1. part # <<>>
      BY <1>1, <2>2 DEF m
    <3>2. all[i] = IF i - a <= z THEN 0 ELSE next + (i - a) - z - 1
      BY <1>2, <2>2
    <3>3. n \in 1..(next + (i - a) - z - 1) /\ i - a \in 0..m
      BY <1>1, <2>2, <3>2
    <3> QED
      BY <1>9, <1>10, <3>1, <3>3
  <2> QED
    BY <1>3, <2>1, <2>2
<1>11. ASSUME \A n \in 1..(next - 1) : Holds(acc, n), m = z + pcm
       PROVE  \A n \in 1..(next + pcm - 1) : Holds(all, n)
  <2>1. m \in 0..m /\ next + m - z - 1 = next + pcm - 1
    BY <1>1, <1>11
  <2> QED
    BY <1>9, <1>11, <2>1
<1> QED
  BY <1>5, <1>6, <1>10, <1>11 DEF all, m

\* What is collected goes on where the reply ends, and ends before the line does
\* only when the reply is full.
LEMMA CollectedGoesOn ==
    ASSUME LinesAssumption, ReplyTyped, sseCtx \in CtxRec, NEW event, EventTyped(event)
    PROVE  \E part \in Seq(Nat), z \in 0..1 :
              /\ Reply!Collected(Reply!Samples(event)) = sseReply.acc \o part
              /\ Len(part) <= z + event.pcm /\ GoesOn(part, z, sseCtx.next)
              /\ part # <<>> => Len(sseReply.acc) < ReplyMax
              /\ Len(sseReply.acc \o part) < ReplyMax => Len(part) = z + event.pcm
<1> DEFINE samples == Reply!Samples(event)
           acc == sseReply.acc
           played == event.riff /\ (sseCtx.stripped \/ event.pcm = 0)
           z == IF played THEN 1 ELSE 0
           header == IF played THEN <<0>> ELSE <<>>
           sound == [i \in 1..event.pcm |-> sseCtx.next + i - 1]
           room == ReplyMax - Len(acc)
           n == IF room < Len(samples) THEN room ELSE Len(samples)
           part == SubSeq(samples, 1, n)
<1>1. event.pcm \in Nat /\ sseCtx.next \in Nat
  BY DEF EventTyped, CtxRec
<1>2. /\ sound \in Seq(Nat) /\ Len(sound) = event.pcm
      /\ \A i \in 1..event.pcm : sound[i] = sseCtx.next + i - 1
  <2>1. \A i \in 1..event.pcm : sseCtx.next + i - 1 \in Nat
    BY <1>1
  <2> QED
    BY <1>1, <2>1
<1>3. header \in Seq(Nat) /\ Len(header) = z /\ z \in 0..1 /\ \A k \in 1..z : header[k] = 0
  OBVIOUS
<1>4. samples = header \o sound
  BY DEF Reply!Samples
<1> HIDE DEF header, sound, z, played
<1>5. /\ samples \in Seq(Nat) /\ Len(samples) = z + event.pcm
      /\ \A k \in 1..(z + event.pcm) : samples[k] = IF k <= z THEN 0 ELSE sseCtx.next + k - z - 1
  <2> DEFINE s == header \o sound
  <2>1. /\ s \in Seq(Nat) /\ Len(s) = z + event.pcm
        /\ \A k \in 1..(z + event.pcm) : s[k] = IF k <= z THEN header[k] ELSE sound[k - z]
    BY <1>1, <1>2, <1>3
  <2>2. s = samples
    BY <1>4
  <2> HIDE DEF s
  <2>3. ASSUME NEW k \in 1..(z + event.pcm)
        PROVE  s[k] = IF k <= z THEN 0 ELSE sseCtx.next + k - z - 1
    <3>1. CASE k <= z
      BY <1>3, <2>1, <3>1
    <3>2. CASE ~(k <= z)
      <4>1. k - z \in 1..event.pcm
        BY <1>1, <1>3, <3>2
      <4> QED
        BY <1>1, <1>2, <1>3, <2>1, <3>2, <4>1
    <3> QED
      BY <3>1, <3>2
  <2> QED
    BY <2>1, <2>2, <2>3
<1>6. acc \in Seq(Nat) /\ Len(acc) \in Nat /\ Len(acc) <= ReplyMax /\ ReplyMax \in Nat
  BY DEF ReplyTyped, ReplyRec, LinesAssumption
<1>7. Reply!Collected(samples) = acc \o part
  BY DEF Reply!Collected
<1> HIDE DEF samples, acc
<1>8. n \in 0..Len(samples) /\ n <= room /\ (n < Len(samples) => n = room) /\ (n # 0 => room > 0)
  BY <1>1, <1>3, <1>5, <1>6
<1> HIDE DEF n
<1>9. part \in Seq(Nat) /\ Len(part) = n /\ \A k \in 1..n : part[k] = samples[k]
  BY <1>5, <1>8
<1> HIDE DEF part
<1>10. GoesOn(part, z, sseCtx.next)
  <2> SUFFICES ASSUME NEW k \in 1..n
               PROVE  part[k] = IF k <= z THEN 0 ELSE sseCtx.next + k - z - 1
    BY <1>9 DEF GoesOn
  <2>1. k \in 1..(z + event.pcm)
    BY <1>5, <1>8
  <2> QED
    BY <1>5, <1>9, <2>1
<1>11. part # <<>> => Len(acc) < ReplyMax
  <2>1. part # <<>> => n # 0
    BY <1>9
  <2> QED
    BY <1>6, <1>8, <2>1
<1>12. Len(acc \o part) < ReplyMax => Len(part) = z + event.pcm
  <2>1. Len(acc \o part) = Len(acc) + n
    BY <1>6, <1>9, ConcatProperties
  <2> QED
    BY <1>5, <1>6, <1>8, <1>9, <2>1
<1>13. Len(part) <= z + event.pcm
  BY <1>5, <1>8, <1>9
<1> QED
  BY <1>3, <1>7, <1>9, <1>10, <1>11, <1>12, <1>13 DEF samples, acc

\* Nothing was lost so far.
Unbroken == sseCtx.lost = {} /\ ~sseCtx.short

OrderInv ==
    /\ sseCtx.next > 0
    /\ Rising(sseReply.acc) /\ Below(sseReply.acc, sseCtx.next)
    /\ Unbroken => Gapless(sseReply.acc)
    /\ Unbroken /\ sseReply.state = "collecting" /\ Len(sseReply.acc) < ReplyMax =>
          \A n \in 1..(sseCtx.next - 1) : Holds(sseReply.acc, n)

\* The reply stays in order where it stays as it is, or is thrown away.
LEMMA SilentKeeps ==
    ASSUME ReplyInv, OrderInv, sseCtx' \in CtxRec,
           \/ sseReply'.acc = sseReply.acc
           \/ sseReply'.acc = <<>> /\ sseReply'.state = "failed",
           sseReply'.state = "collecting" => sseReply.state = "collecting",
           sseCtx.next <= sseCtx'.next,
           Unbroken' => Unbroken /\ sseCtx'.next = sseCtx.next
    PROVE  OrderInv'
<1>1. sseCtx.next \in Nat /\ sseCtx'.next \in Nat /\ sseReply.acc \in Seq(Nat)
  BY DEF ReplyInv, ReplyTyped, ReplyRec, CtxRec
<1>2. sseCtx'.next > 0
  BY <1>1 DEF OrderInv
<1>3. CASE sseReply'.acc = sseReply.acc
  <2>1. \A i \in 1..Len(sseReply.acc) : sseReply.acc[i] \in Nat
    BY <1>1
  <2>2. Below(sseReply.acc, sseCtx'.next)
    BY <1>1, <2>1 DEF OrderInv, Below
  <2> QED
    BY <1>2, <1>3, <2>2 DEF OrderInv, Rising, Below, Gapless, Holds
<1>4. CASE sseReply'.acc = <<>> /\ sseReply'.state = "failed"
  <2>1. 1..Len(sseReply'.acc) = {}
    BY <1>4
  <2>2. Rising(sseReply.acc)' /\ Below(sseReply.acc, sseCtx.next)' /\ Gapless(sseReply.acc)'
    BY <2>1 DEF Rising, Below, Gapless
  <2>3. sseReply'.state # "collecting"
    BY <1>4
  <2> QED
    BY <1>2, <2>2, <2>3 DEF OrderInv
<1> QED
  BY <1>3, <1>4

\* The samples of a line, or none of them, are appended.
LEMMA AudioOrder ==
    ASSUME LinesAssumption, ReplyInv, OrderInv, NEW event, EventTyped(event), Reply!Audio(event),
           sseReply.state = "collecting"
    PROVE  OrderInv'
<1>1. sseCtx \in CtxRec /\ sseReply \in ReplyRec /\ ReplyTyped /\ event.pcm \in Nat
      /\ sseCtx.next \in Nat /\ event.riff \in BOOLEAN
  BY DEF ReplyInv, ReplyTyped, CtxRec, EventTyped
<1>2. ASSUME sseReply' = [sseReply EXCEPT !.acc = Reply!Collected(Reply!Samples(event))],
             sseCtx' = [sseCtx EXCEPT !.stripped = @ \/ event.riff, !.next = @ + event.pcm]
      PROVE  OrderInv'
  <2>1. PICK part \in Seq(Nat), z \in 0..1 :
              /\ Reply!Collected(Reply!Samples(event)) = sseReply.acc \o part
              /\ Len(part) <= z + event.pcm /\ GoesOn(part, z, sseCtx.next)
              /\ part # <<>> => Len(sseReply.acc) < ReplyMax
              /\ Len(sseReply.acc \o part) < ReplyMax => Len(part) = z + event.pcm
    BY <1>1, CollectedGoesOn
  <2> DEFINE acc == sseReply.acc
             next == sseCtx.next
             all == acc \o part
  <2>2. acc \in Seq(Nat) /\ next \in Nat /\ next > 0 /\ z \in Nat /\ Rising(acc) /\ Below(acc, next)
    BY <1>1 DEF OrderInv, ReplyRec
  <2>3. /\ sseReply'.acc = all /\ sseReply'.state = "collecting"
    BY <1>1, <1>2, <2>1 DEF ReplyRec
  <2>4. /\ sseCtx'.next = next + event.pcm /\ sseCtx'.lost = sseCtx.lost
        /\ sseCtx'.short = sseCtx.short
    BY <1>1, <1>2 DEF CtxRec
  <2> HIDE DEF acc, next
  <2>5. /\ Rising(all) /\ Below(all, next + event.pcm)
        /\ Gapless(acc) /\ (part = <<>> \/ \A n \in 1..(next - 1) : Holds(acc, n)) => Gapless(all)
        /\ (\A n \in 1..(next - 1) : Holds(acc, n)) /\ Len(part) = z + event.pcm
              => \A n \in 1..(next + event.pcm - 1) : Holds(all, n)
    BY <1>1, <2>1, <2>2, SoundAppended DEF next
  <2>6. Len(acc) <= Len(all)
    BY <2>2
  <2>7. Unbroken' <=> Unbroken
    BY <2>4 DEF Unbroken
  <2>8. Unbroken /\ Len(acc) < ReplyMax => \A n \in 1..(next - 1) : Holds(acc, n)
    BY DEF OrderInv, acc, next
  <2>9. Unbroken => Gapless(all)
    BY <2>1, <2>5, <2>8 DEF OrderInv, acc
  <2>10. Unbroken /\ Len(all) < ReplyMax => \A n \in 1..(next + event.pcm - 1) : Holds(all, n)
    <3> SUFFICES ASSUME Unbroken, Len(all) < ReplyMax
                 PROVE  \A n \in 1..(next + event.pcm - 1) : Holds(all, n)
      OBVIOUS
    <3>1. Len(acc) < ReplyMax
      BY <2>2, <2>6 DEF LinesAssumption
    <3> QED
      BY <2>1, <2>5, <2>8, <3>1 DEF acc
  <2>11. sseCtx'.next > 0
    BY <1>1, <2>2, <2>4
  <2> HIDE DEF all
  <2>12. Rising(sseReply.acc)' /\ Below(sseReply.acc, sseCtx.next)'
    BY <2>3, <2>4, <2>5 DEF Rising, Below
  <2>13. Unbroken => Gapless(sseReply.acc)'
    BY <2>3, <2>9 DEF Gapless, Holds
  <2>14. Unbroken /\ Len(sseReply'.acc) < ReplyMax =>
            \A n \in 1..(sseCtx'.next - 1) : Holds(sseReply'.acc, n)
    <3> SUFFICES ASSUME Unbroken, Len(sseReply'.acc) < ReplyMax, NEW n \in 1..(sseCtx'.next - 1)
                 PROVE  \E j \in 1..Len(sseReply'.acc) : sseReply'.acc[j] = n
      BY DEF Holds
    <3>1. Len(all) < ReplyMax /\ n \in 1..(next + event.pcm - 1)
      BY <1>1, <2>2, <2>3, <2>4
    <3>2. Holds(all, n)
      BY <2>10, <3>1
    <3> QED
      BY <2>3, <3>2 DEF Holds
  <2> QED
    BY <2>7, <2>11, <2>12, <2>13, <2>14 DEF OrderInv, Holds
<1>3. ASSUME NEW stripped \in {sseCtx.stripped, sseCtx.stripped \/ event.riff},
             sseCtx' = [sseCtx EXCEPT !.stripped = stripped, !.short = TRUE,
                                      !.next = @ + event.pcm],
             sseReply' = sseReply
      PROVE  OrderInv'
  <2>1. stripped \in BOOLEAN /\ sseCtx.next + event.pcm \in Nat
    BY <1>1, <1>3 DEF CtxRec
  <2>2. sseCtx' \in CtxRec /\ sseCtx'.short /\ sseCtx'.next = sseCtx.next + event.pcm
    BY <1>1, <1>3, <2>1 DEF CtxRec
  <2>3. ~Unbroken' /\ sseCtx.next <= sseCtx'.next
    BY <1>1, <2>2 DEF Unbroken
  <2> QED
    BY <1>3, <2>2, <2>3, SilentKeeps
<1> QED
  BY <1>2, <1>3 DEF Reply!Audio

LEMMA OrderInit == Reply!Init => OrderInv
<1> SUFFICES ASSUME Reply!Init PROVE OrderInv
  OBVIOUS
<1>1. sseCtx.next = 1 /\ sseReply.acc = <<>> /\ 1..Len(sseReply.acc) = {}
  BY DEF Reply!Init
<1>2. 1..(sseCtx.next - 1) = {}
  BY <1>1
<1> QED
  BY <1>1, <1>2 DEF OrderInv, Rising, Below, Gapless

\* No other step touches what was collected, but the failure that throws it away.
LEMMA OrderNext ==
    LinesAssumption /\ ReplyInv /\ ReplyInv' /\ OrderInv /\ [Reply!Next]_(Reply!sseVars) => OrderInv'
<1> SUFFICES ASSUME LinesAssumption, ReplyInv, ReplyInv', OrderInv, [Reply!Next]_(Reply!sseVars)
             PROVE  OrderInv'
  OBVIOUS
<1>1. sseCtx \in CtxRec /\ sseCtx' \in CtxRec /\ sseReply \in ReplyRec /\ sseCtx.next \in Nat
  BY DEF ReplyInv, ReplyTyped, CtxRec
<1>2. ASSUME sseReply' = sseReply \/ Reply!EndPlays, sseCtx'.next = sseCtx.next,
             sseCtx'.lost = sseCtx.lost, sseCtx.short => sseCtx'.short
      PROVE  OrderInv'
  <2>1. sseReply'.acc = sseReply.acc /\ (sseReply'.state = "collecting" => sseReply.state = "collecting")
    BY <1>1, <1>2 DEF Reply!EndPlays, ReplyRec
  <2>2. Unbroken' => Unbroken
    BY <1>2 DEF Unbroken
  <2> QED
    BY <1>1, <1>2, <2>1, <2>2, SilentKeeps
<1>3. ASSUME NEW event \in Events, Reply!Begin(event) PROVE OrderInv'
  BY <1>2, <1>3 DEF Reply!Begin
<1>4. ASSUME NEW n \in 1..sseLine.event.len, Reply!Piece(n) PROVE OrderInv'
  <2> DEFINE fits == Reply!Fits(Reply!NewCap(sseBuf.kept + n + 1))
  <2>1. /\ sseReply' = sseReply
        /\ sseCtx' = sseCtx \/ sseCtx' = [sseCtx EXCEPT !.short = sseCtx.short \/ fits]
    BY <1>4 DEF Reply!Piece
  <2> HIDE DEF fits
  <2>2. sseCtx'.next = sseCtx.next /\ sseCtx'.lost = sseCtx.lost
    BY <1>1, <2>1 DEF CtxRec
  <2>3. sseCtx.short => sseCtx'.short
    BY <1>1, <2>1 DEF CtxRec
  <2> QED
    BY <1>2, <2>1, <2>2, <2>3
<1>5. CASE Reply!Line
  <2>1. EventTyped(sseLine.event)
    BY LineEvents DEF ReplyInv, LineTyped, LineRec
  <2>2. /\ sseReply.state = "collecting"
        /\ \/ Reply!Audio(sseLine.event) \/ Reply!Text(sseLine.event)
           \/ Reply!ErrorLine(sseLine.event) \/ Reply!OtherLine(sseLine.event)
    BY <1>5 DEF Reply!Line, Reply!LineDone
  <2>3. CASE Reply!Text(sseLine.event) \/ Reply!OtherLine(sseLine.event)
    BY <1>2, <2>3 DEF Reply!Text, Reply!OtherLine
  <2>4. CASE Reply!ErrorLine(sseLine.event)
    <3>1. sseReply' = sseReply /\ sseCtx' = [sseCtx EXCEPT !.error = TRUE]
      BY <2>4 DEF Reply!ErrorLine
    <3>2. sseCtx'.next = sseCtx.next /\ sseCtx'.lost = sseCtx.lost /\ sseCtx'.short = sseCtx.short
      BY <1>1, <3>1 DEF CtxRec
    <3> QED
      BY <1>2, <3>1, <3>2
  <2> QED
    BY <2>1, <2>2, <2>3, <2>4, AudioOrder
<1>6. CASE Reply!LineLost
  <2> DEFINE len == sseLine.event.len
             next == sseCtx.next + sseLine.event.pcm
             cap == Reply!NewCap(sseBuf.kept + Reply!Rest + 1)
             short == sseCtx.short \/ (Reply!MayDrop(cap) /\ Reply!Fits(cap))
             lost == sseCtx.lost \cup {len}
  <2>1. sseReply' = sseReply /\ sseCtx' = [sseCtx EXCEPT !.lost = lost, !.short = short, !.next = next]
    BY <1>6 DEF Reply!LineLost
  <2>5. sseLine.event.pcm \in Nat
    BY LineEvents DEF ReplyInv, LineTyped, LineRec, EventTyped
  <2>2. next \in Nat /\ sseCtx.next <= next /\ lost # {}
    BY <1>1, <2>5
  <2> HIDE DEF next, short, lost
  <2>3. sseCtx'.next = next /\ sseCtx'.lost = lost
    BY <1>1, <2>1 DEF CtxRec
  <2>4. ~Unbroken'
    BY <2>2, <2>3 DEF Unbroken
  <2> QED
    BY <1>1, <2>1, <2>2, <2>3, <2>4, SilentKeeps
<1>7. CASE Reply!EndPlays
  BY <1>2, <1>7 DEF Reply!EndPlays
<1>8. CASE Reply!EndFails
  <2>1. sseReply' = [state |-> "failed", acc |-> <<>>] /\ sseCtx' = sseCtx
    BY <1>8 DEF Reply!EndFails
  <2>2. Unbroken' => Unbroken
    BY <2>1 DEF Unbroken
  <2> QED
    BY <1>1, <2>1, <2>2, SilentKeeps
<1>9. CASE UNCHANGED Reply!sseVars
  BY <1>2, <1>9 DEF Reply!sseVars
<1> QED
  BY <1>3, <1>4, <1>5, <1>6, <1>7, <1>8, <1>9 DEF Reply!Next

\* Sound that rises, and without a gap where nothing broke it, is in order.
LEMMA OrderSafe == OrderInv => Reply!ReplyInOrder
  BY DEF OrderInv, Reply!ReplyInOrder, Reply!Heard, Rising, Gapless, Holds, Unbroken

\* However the stream is cut and however long it is, the reply that
\* voice_controller.c collects is the sound of the stream in its order, and unless
\* a line was lost or memory was short there is no gap in it, only an end.
THEOREM ReplyOrdered ==
    ASSUME LinesAssumption
    PROVE  Reply!Spec => []Reply!ReplyInOrder
  BY OrderSafe, ReplyInit, ReplyNext, OrderInit, OrderNext, PTL DEF Reply!Spec

-----------------------------------------------------------------------------
(* The boot.                                                               *)

BootValues == DOMAIN Builds \cup {0}

BootTyped ==
    /\ pvBuild \in DOMAIN Builds
    /\ pvFlash \in [Boot!Fields -> BootValues]
    /\ pvRam \in [Boot!VoiceFields -> BootValues]
    /\ pvLoaded \in BOOLEAN /\ pvLoaded = (\E f \in Boot!VoiceFields : pvRam[f] # 0)
    /\ pvAt \in {"nvs", "settings", "url", "model", "key", "compare", "ssid", "pass", "wifi",
                 "idle", "faulted", "load", "start", "up"}
    /\ pvWifi \in [ssid : BootValues, pass : BootValues]
    /\ pvConfig \in [Boot!VoiceFields -> BootValues]
    /\ pvCtrl \in [init : BOOLEAN, config : [Boot!VoiceFields -> BootValues]]

\* The flash holds the running firmware's credentials, where the boot knows.
OwnPair == pvFlash["ssid"] = pvBuild /\ pvFlash["pass"] = pvBuild

\* How far the credentials are saved at each step of the boot.
WifiKnown ==
    /\ pvAt = "pass" => pvFlash["ssid"] = pvBuild
    /\ pvAt = "wifi" /\ Boot!HasWifi => OwnPair
    /\ pvWifi.ssid # 0 => /\ pvWifi = [ssid |-> pvBuild, pass |-> pvBuild]
                          /\ OwnPair
                          /\ pvAt \in {"load", "start", "up"}

\* The key that counts: the one in flash, else the compiled one.
Expected == IF pvFlash["key"] # 0 THEN pvFlash["key"] ELSE Boot!Compiled("key")

\* Where the key of the voice comes from at each step of the boot.
KeyKnown ==
    /\ pvAt \in {"url", "model", "key"} => pvFlash["key"] = 0 /\ pvRam["key"] = 0
    /\ pvAt \notin {"nvs", "settings"} =>
          \/ pvRam["key"] = pvFlash["key"]
          \/ pvFlash["key"] = 0 /\ pvRam["key"] = Boot!Compiled("key")
    /\ pvAt = "start" => pvConfig["key"] = Expected
    /\ ~Reminders /\ pvCtrl.init => pvAt = "up" /\ pvCtrl.config["key"] = Expected
    /\ ~Reminders /\ pvAt = "up" => pvCtrl.init

BootInv == BootTyped /\ WifiKnown /\ KeyKnown

\* A compiled value is a firmware or none.
LEMMA CompiledValue ==
    ASSUME BuildsAssumption, pvBuild \in DOMAIN Builds, NEW f
    PROVE  Boot!Compiled(f) \in BootValues
  BY DEF Boot!Compiled, Boot!None, BootValues

\* settings_set_*: the value in RAM, and in flash where it can be written.
LEMMA SetVoiceTyped ==
    ASSUME BuildsAssumption, BootTyped, NEW f \in Boot!VoiceFields,
           Boot!Compiled(f) # 0, Boot!SetVoice(f, Boot!Compiled(f))
    PROVE  /\ pvFlash' \in [Boot!Fields -> BootValues]
           /\ pvRam' \in [Boot!VoiceFields -> BootValues]
           /\ pvLoaded' \in BOOLEAN /\ pvLoaded' = (\E g \in Boot!VoiceFields : pvRam'[g] # 0)
<1> DEFINE v == Boot!Compiled(f)
<1>1. v \in BootValues /\ v # 0 /\ f \in Boot!Fields
  BY CompiledValue DEF BootTyped, Boot!VoiceFields, Boot!Fields
<1>2. pvRam' = [pvRam EXCEPT ![f] = v] /\ pvLoaded' = TRUE
      /\ (pvFlash' = [pvFlash EXCEPT ![f] = v] \/ pvFlash' = pvFlash)
  BY DEF Boot!SetVoice
<1> HIDE DEF v
<1>3. pvRam'[f] # 0
  BY <1>1, <1>2 DEF BootTyped
<1> QED
  BY <1>1, <1>2, <1>3 DEF BootTyped

\* A new device.
LEMMA BootInit == BuildsAssumption /\ Boot!Init => BootInv
<1> SUFFICES ASSUME BuildsAssumption, Boot!Init PROVE BootInv
  OBVIOUS
<1> QED
  BY DEF Boot!Init, Boot!Empty, Boot!NoWifi, Boot!NoCtrl, Boot!None, Boot!Fields, Boot!VoiceFields,
     Boot!Firmware, BootValues, BootInv, BootTyped, WifiKnown, KeyKnown, OwnPair, Expected, BuildsAssumption

\* Every step of a boot, and a boot that ends anywhere.
LEMMA BootNext == BuildsAssumption /\ BootInv /\ [Boot!Next]_(Boot!pvVars) => BootInv'
<1> SUFFICES ASSUME BuildsAssumption, BootInv, [Boot!Next]_(Boot!pvVars) PROVE BootInv'
  OBVIOUS
<1> USE DEF BootInv, Boot!None, Boot!Fields, Boot!VoiceFields, Boot!Firmware, BuildsAssumption
<1>1. CASE UNCHANGED Boot!pvVars
  BY <1>1 DEF Boot!pvVars, BootTyped, WifiKnown, KeyKnown, OwnPair, Expected, Boot!HasWifi, Boot!Compiled
<1>2. ASSUME NEW b \in DOMAIN Builds, Boot!Reboot(b) PROVE BootInv'
  BY <1>2 DEF Boot!Reboot, Boot!Fresh, Boot!Empty, Boot!NoWifi, Boot!NoCtrl, BootTyped, WifiKnown, KeyKnown, BootValues
<1>3. CASE Boot!InitNvs
  BY <1>3 DEF Boot!InitNvs, BootTyped, WifiKnown, KeyKnown, BootValues, OwnPair
<1>4. CASE Boot!InitSettings
  <2>1. BootTyped'
    BY <1>4 DEF Boot!InitSettings, Boot!Stored, BootTyped
  <2> QED
    BY <1>4, <2>1 DEF Boot!InitSettings, Boot!Stored, BootTyped, WifiKnown, KeyKnown, BootValues
<1>5. ASSUME NEW f \in Boot!VoiceFields, Boot!Seed(f) PROVE BootInv'
  <2>1. BootTyped'
    <3>1. pvAt' \in {"model", "key", "compare"} /\ UNCHANGED <<pvBuild, pvWifi, pvConfig, pvCtrl>>
      BY <1>5 DEF Boot!Seed, Boot!After
    <3>2. \/ Boot!Compiled(f) # 0 /\ Boot!SetVoice(f, Boot!Compiled(f))
          \/ UNCHANGED <<pvFlash, pvRam, pvLoaded>>
      BY <1>5 DEF Boot!Seed
    <3> HIDE DEF Boot!Fields, Boot!VoiceFields
    <3> QED
      BY <1>5, <3>1, <3>2, SetVoiceTyped DEF BootTyped
  <2>2. WifiKnown'
    BY <1>5, <2>1 DEF Boot!Seed, Boot!SetVoice, Boot!After, BootTyped, WifiKnown
  <2>3. KeyKnown'
    BY <1>5, <2>1, CompiledValue DEF Boot!Seed, Boot!SetVoice, Boot!After, BootTyped, KeyKnown, Boot!Compiled
  <2> QED
    BY <2>1, <2>2, <2>3
<1>6. CASE Boot!Compare
  BY <1>6 DEF Boot!Compare, Boot!Same, BootTyped, WifiKnown, KeyKnown, OwnPair, Boot!HasWifi, Boot!Compiled, Expected
<1>7. ASSUME NEW f \in {"ssid", "pass"}, Boot!Save(f) PROVE BootInv'
  <2>1. BootTyped'
    BY <1>7 DEF Boot!Save, Boot!SaveNext, BootTyped, BootValues
  <2>2. WifiKnown'
    BY <1>7, <2>1 DEF Boot!Save, Boot!SaveNext, BootTyped, WifiKnown, OwnPair, Boot!HasWifi
  <2>3. KeyKnown'
    BY <1>7, <2>1 DEF Boot!Save, Boot!SaveNext, BootTyped, KeyKnown, Boot!Compiled, Expected
  <2> QED
    BY <2>1, <2>2, <2>3
<1>8. CASE Boot!Wifi
  <2>1. BootTyped'
    BY <1>8 DEF Boot!Wifi, BootTyped, BootValues, Boot!NoWifi
  <2>2. WifiKnown'
    BY <1>8, <2>1 DEF Boot!Wifi, BootTyped, WifiKnown, OwnPair, Boot!HasWifi, Boot!NoWifi
  <2>3. KeyKnown'
    BY <1>8, <2>1 DEF Boot!Wifi, BootTyped, KeyKnown, Boot!Compiled, Expected
  <2> QED
    BY <2>1, <2>2, <2>3
<1>9. CASE Boot!Load
  <2>1. BootTyped'
    <3>1. pvAt' = "start" /\ UNCHANGED <<pvBuild, pvWifi, pvCtrl>>
          /\ pvConfig' = [f \in Boot!VoiceFields |-> Boot!LoadedField(f)]
      BY <1>9 DEF Boot!Load
    <3>2. \/ Boot!Compiled("model") # 0 /\ Boot!SetVoice("model", Boot!Compiled("model"))
          \/ UNCHANGED <<pvFlash, pvRam, pvLoaded>>
      BY <1>9 DEF Boot!Load
    <3>3. "model" \in Boot!VoiceFields
      OBVIOUS
    <3> HIDE DEF Boot!Fields, Boot!VoiceFields
    <3>4. pvConfig' \in [Boot!VoiceFields -> BootValues]
      BY <3>1, CompiledValue DEF Boot!LoadedField, BootTyped
    <3> QED
      BY <3>1, <3>2, <3>3, <3>4, SetVoiceTyped DEF BootTyped
  <2>2. WifiKnown'
    BY <1>9, <2>1 DEF Boot!Load, Boot!SetVoice, BootTyped, WifiKnown, OwnPair
  <2>3. KeyKnown'
    BY <1>9, <2>1 DEF Boot!Load, Boot!LoadedField, Boot!SetVoice, BootTyped, KeyKnown, Boot!Compiled, Expected
  <2> QED
    BY <2>1, <2>2, <2>3
<1>10. CASE Boot!Start \/ Boot!Reminder
  <2>1. BootTyped'
    <3>1. /\ pvCtrl' = Boot!Started /\ pvAt' \in {pvAt, "up"}
          /\ UNCHANGED <<pvBuild, pvFlash, pvRam, pvLoaded, pvWifi, pvConfig>>
      BY <1>10 DEF Boot!Start, Boot!Reminder
    <3> HIDE DEF Boot!Fields, Boot!VoiceFields
    <3>2. pvCtrl' \in [init : BOOLEAN, config : [Boot!VoiceFields -> BootValues]]
      BY <3>1, CompiledValue DEF Boot!Started, BootTyped
    <3> QED
      BY <3>1, <3>2 DEF BootTyped
  <2>2. WifiKnown'
    BY <1>10, <2>1 DEF Boot!Start, Boot!Reminder, BootTyped, WifiKnown, OwnPair, Boot!HasWifi
  <2>3. KeyKnown'
    BY <1>10, <2>1 DEF Boot!Start, Boot!Reminder, Boot!Started, BootTyped, KeyKnown, Boot!Compiled, Expected
  <2> QED
    BY <2>1, <2>2, <2>3
<1> QED
  BY <1>1, <1>2, <1>3, <1>4, <1>5, <1>6, <1>7, <1>8, <1>9, <1>10 DEF Boot!Next, Boot!Boot

\* What it says about every state of the boot.
LEMMA BootSafe == BootInv => Boot!TypeOK /\ Boot!StoredPaired /\ Boot!KeyReady
<1> SUFFICES ASSUME BootInv PROVE Boot!TypeOK /\ Boot!StoredPaired /\ Boot!KeyReady
  OBVIOUS
<1>1. Boot!TypeOK
  BY DEF BootInv, BootTyped, Boot!TypeOK, BootValues, Boot!None, Boot!Firmware
<1>2. Boot!StoredPaired
  BY DEF BootInv, WifiKnown, OwnPair, Boot!StoredPaired, Boot!None
<1>3. Boot!KeyReady
  BY DEF BootInv, KeyKnown, Expected, Boot!KeyReady, Boot!None
<1> QED
  BY <1>1, <1>2, <1>3

\* What settings.c and main.c keep, for any firmwares flashed over each other and
\* any boots that end on the way: once the station has credentials the flash holds
\* the same pair, and the voice uses the stored key, else the compiled one.
THEOREM BootReady ==
    ASSUME BuildsAssumption
    PROVE  Boot!Spec => [](Boot!TypeOK /\ Boot!StoredPaired /\ Boot!KeyReady)
  BY BootInit, BootNext, BootSafe, PTL DEF Boot!Spec

-----------------------------------------------------------------------------
(* The Wi-Fi station.                                                      *)

WifiStates == [connected : BOOLEAN, bits : SUBSET {"fail", "connected"}]

\* With an attempt that is refused without an event nothing would be under way.
WifiInv == /\ Wifi!TypeOK
           /\ wifiState \in WifiStates
           /\ ~Refuses => Wifi!SomethingUnderWay

\* The station starts with nothing under way, as it was not started.
LEMMA WifiInit == FastRetries \in Nat /\ Wifi!Init => WifiInv
  BY DEF Wifi!Init, WifiInv, WifiStates, Wifi!TypeOK, Wifi!SomethingUnderWay, Wifi!Started,
    Wifi!MaxRetry, Wifi!Unarmed

\* Each event leaves an attempt that will be answered, a connection, or a timer.
LEMMA WifiNext == FastRetries \in Nat /\ WifiInv /\ [Wifi!Next]_(Wifi!wifiVars) => WifiInv'
<1> SUFFICES ASSUME FastRetries \in Nat, WifiInv, [Wifi!Next]_(Wifi!wifiVars) PROVE WifiInv'
  OBVIOUS
<1> USE DEF WifiInv, WifiStates, Wifi!TypeOK, Wifi!SomethingUnderWay, Wifi!Started,
    Wifi!MaxRetry, Wifi!Unarmed
<1>1. CASE Wifi!InitSta
  BY <1>1 DEF Wifi!InitSta, Wifi!Connect
<1>2. CASE Wifi!Disconnected
  <2>1. wifiTimer' \in 0..6 \cup {Wifi!Unarmed} /\ (wifiLink' = "idle" /\ ~Refuses => wifiTimer' # Wifi!Unarmed)
    BY <1>2 DEF Wifi!Disconnected, Wifi!Retry, Wifi!Delay, Wifi!Connect
  <2>2. wifiLink' \in {"connecting", "idle"} /\ wifiRetry' \in 0..Wifi!MaxRetry
    BY <1>2 DEF Wifi!Disconnected, Wifi!Retry, Wifi!Connect
  <2>3. /\ wifiState' \in WifiStates /\ wifiState'.connected = FALSE
    BY <1>2 DEF Wifi!Disconnected
  <2> QED
    BY <2>1, <2>2, <2>3
<1>3. CASE Wifi!Joined \/ Wifi!Time \/ Wifi!ApChanges \/ UNCHANGED Wifi!wifiVars
  BY <1>3 DEF Wifi!Joined, Wifi!Time, Wifi!ApChanges, Wifi!wifiVars
<1>5. CASE Wifi!GotIp
  BY <1>5 DEF Wifi!GotIp
<1>4. CASE Wifi!TimerFires
  BY <1>4 DEF Wifi!TimerFires, Wifi!Connect
<1> QED
  BY <1>1, <1>2, <1>3, <1>4, <1>5 DEF Wifi!Next, Wifi!Driver

\* wifi.c always goes on trying: once it was started it is connected, waits for the
\* answer to an attempt, or for its retry timer, whatever the access point does.
THEOREM AlwaysTrying ==
    ASSUME FastRetries \in Nat
    PROVE  Wifi!Spec => [](Wifi!TypeOK /\ (~Refuses => Wifi!SomethingUnderWay))
<1>1. WifiInv => Wifi!TypeOK /\ (~Refuses => Wifi!SomethingUnderWay)
  BY DEF WifiInv
<1> QED
  BY <1>1, WifiInit, WifiNext, PTL DEF Wifi!Spec

-----------------------------------------------------------------------------
(* What the device shows.                                                  *)

Flags == {"faulted", "config", "recovering", "streaming", "establishing", "discoverable", "network"}
States == Flags \cup {"boot"}

\* The operations a handler may have left.
Sets == {<<"set", flag, on>> : flag \in Flags, on \in BOOLEAN}
Shows == {<<"show", state>> : state \in States}
Reports == {<<"report", active>> : active \in BOOLEAN} \cup {<<"tell", active>> : active \in BOOLEAN}
Names == {"push", "reconcile", "halt", "wait", "monitor", "hook", "start airplay", "start voice",
          "stop voice", "stop airplay"}
Calls == {<<name>> : name \in Names}
Op == Sets \cup Shows \cup Reports \cup Calls

ShownInv ==
    /\ devFlags \subseteq Flags /\ ~(Shown!SessionFlags \subseteq devFlags)
    /\ devShown \in States
    /\ devUp \subseteq {"airplay", "voice", "hook"}
    /\ devMain \in Seq(Op) /\ devClient \in Seq(Op)
    /\ devNet \in BOOLEAN

LEMMA OrderedFlags == \A i \in 1..7 : Shown!Order[i] \in Flags
<1>1. /\ Shown!Order[1] \in Flags /\ Shown!Order[2] \in Flags /\ Shown!Order[3] \in Flags
      /\ Shown!Order[4] \in Flags /\ Shown!Order[5] \in Flags /\ Shown!Order[6] \in Flags
      /\ Shown!Order[7] \in Flags
  BY DEF Shown!Order, Flags
<1>2. \A i \in 1..7 : i = 1 \/ i = 2 \/ i = 3 \/ i = 4 \/ i = 5 \/ i = 6 \/ i = 7
  OBVIOUS
<1> QED
  BY <1>1, <1>2

LEMMA FlagsOrdered == {Shown!Order[i] : i \in 1..7} = Flags
<1>1. /\ Shown!Order[1] = "faulted" /\ Shown!Order[2] = "config" /\ Shown!Order[3] = "recovering"
      /\ Shown!Order[4] = "streaming" /\ Shown!Order[5] = "establishing"
      /\ Shown!Order[6] = "discoverable" /\ Shown!Order[7] = "network"
  BY DEF Shown!Order
<1>2. /\ 1 \in 1..7 /\ 2 \in 1..7 /\ 3 \in 1..7 /\ 4 \in 1..7 /\ 5 \in 1..7 /\ 6 \in 1..7 /\ 7 \in 1..7
  OBVIOUS
<1>3. \A flag \in Flags : \E i \in 1..7 : Shown!Order[i] = flag
  BY <1>1, <1>2 DEF Flags
<1> QED
  BY <1>3, OrderedFlags

\* The state chosen is one of the flags that are set.
LEMMA ChosenState ==
    ASSUME NEW flags \in SUBSET Flags
    PROVE  Shown!Chosen(flags) \in States
<1>1. CASE flags = {}
  BY <1>1 DEF Shown!Chosen, States
<1>2. CASE flags # {}
  <2> DEFINE Set(i) == Shown!Order[i] \in flags
             least == CHOOSE i \in 1..7 : /\ Set(i)
                                          /\ \A j \in 1..(i - 1) : Shown!Order[j] \notin flags
  <2>1. \E i \in 1..7 : Set(i)
    BY <1>2, FlagsOrdered
  <2>2. \E i \in 1..7 : Set(i) /\ \A j \in 1..(i - 1) : ~Set(j)
    <3> HIDE DEF Set
    <3>1. CASE Set(1)
      BY <3>1
    <3>2. CASE ~Set(1) /\ Set(2)
      BY <3>2
    <3>3. CASE ~Set(1) /\ ~Set(2) /\ Set(3)
      BY <3>3
    <3>4. CASE ~Set(1) /\ ~Set(2) /\ ~Set(3) /\ Set(4)
      BY <3>4
    <3>5. CASE ~Set(1) /\ ~Set(2) /\ ~Set(3) /\ ~Set(4) /\ Set(5)
      BY <3>5
    <3>6. CASE ~Set(1) /\ ~Set(2) /\ ~Set(3) /\ ~Set(4) /\ ~Set(5) /\ Set(6)
      BY <3>6
    <3>7. CASE ~Set(1) /\ ~Set(2) /\ ~Set(3) /\ ~Set(4) /\ ~Set(5) /\ ~Set(6)
      BY <2>1, <3>7
    <3> QED
      BY <3>1, <3>2, <3>3, <3>4, <3>5, <3>6, <3>7
  <2>3. least \in 1..7
    BY <2>2
  <2>4. Shown!Chosen(flags) = Shown!Order[least]
    BY <1>2 DEF Shown!Chosen
  <2> HIDE DEF least
  <2> QED
    BY <2>3, <2>4, OrderedFlags DEF States
<1> QED
  BY <1>1, <1>2

\* No setter leaves a session both establishing and streaming.
LEMMA SetterKeeps ==
    ASSUME devFlags \subseteq Flags, ~(Shown!SessionFlags \subseteq devFlags),
           NEW flag \in Flags, NEW on \in BOOLEAN
    PROVE  /\ Shown!After(flag, on) \subseteq Flags
           /\ ~(Shown!SessionFlags \subseteq Shown!After(flag, on))
<1>1. CASE on
  <2>1. Shown!After(flag, on) = (devFlags \ (Shown!Cleared(flag, on) \cup {flag})) \cup {flag}
    BY <1>1 DEF Shown!After
  <2>2. CASE flag = "establishing"
    BY <1>1, <2>1, <2>2 DEF Shown!Cleared, Shown!SessionFlags, Flags
  <2>3. CASE flag = "streaming"
    BY <1>1, <2>1, <2>3 DEF Shown!Cleared, Shown!SessionFlags, Flags
  <2>4. CASE flag \notin Shown!SessionFlags
    BY <2>1, <2>4 DEF Shown!SessionFlags
  <2> QED
    BY <2>2, <2>3, <2>4 DEF Shown!SessionFlags
<1>2. CASE ~on
  BY <1>2 DEF Shown!After
<1> QED
  BY <1>1, <1>2

\* Short handlers.
LEMMA Tuples ==
    ASSUME NEW S
    PROVE  /\ \A a \in S : <<a>> \in Seq(S)
           /\ \A a, b \in S : <<a, b>> \in Seq(S)
           /\ \A a, b, c \in S : <<a, b, c>> \in Seq(S)
           /\ \A a, b, c, d \in S : <<a, b, c, d>> \in Seq(S)
           /\ \A a, b, c, d, e \in S : <<a, b, c, d, e>> \in Seq(S)
  OBVIOUS

\* The operations of the handlers.
LEMMA OpsKnown ==
    /\ \A flag \in Flags : Shown!On(flag) \in Op /\ Shown!Off(flag) \in Op
    /\ \A active \in BOOLEAN : Shown!Tell(active) \in Op
    /\ Shown!Push \in Op /\ Shown!Reconcile \in Op
    /\ Calls \subseteq Op /\ Sets \subseteq Op /\ Shows \subseteq Op /\ Reports \subseteq Op
<1>1. \A flag \in Flags : Shown!On(flag) \in Sets /\ Shown!Off(flag) \in Sets
  <2> SUFFICES ASSUME NEW flag \in Flags PROVE Shown!On(flag) \in Sets /\ Shown!Off(flag) \in Sets
    OBVIOUS
  <2>1. Shown!On(flag) = <<"set", flag, TRUE>> /\ Shown!Off(flag) = <<"set", flag, FALSE>>
    BY DEF Shown!On, Shown!Off
  <2>2. \A on \in BOOLEAN : <<"set", flag, on>> \in Sets
    BY DEF Sets
  <2> QED
    BY <2>1, <2>2
<1>2. \A active \in BOOLEAN : Shown!Tell(active) \in Reports
  BY DEF Shown!Tell, Reports
<1>3. Shown!Push \in Calls /\ Shown!Reconcile \in Calls
  BY DEF Shown!Push, Shown!Reconcile, Calls, Names
<1> QED
  BY <1>1, <1>2, <1>3 DEF Op

LEMMA HandlersKnown ==
    /\ Shown!BootWays \subseteq Seq(Op)
    /\ Shown!Start \in Seq(Op) /\ Shown!Connected \in Seq(Op) /\ Shown!GivenUp \in Seq(Op)
    /\ \A e \in {"connected", "playing", "paused", "disconnected"} : Shown!Event(e) \in Seq(Op)
    /\ \A had, has, started \in BOOLEAN : Shown!Round(had, has, started) \in Seq(Op)
<1>1. /\ <<"halt">> \in Op /\ <<"wait">> \in Op /\ <<"monitor">> \in Op /\ <<"hook">> \in Op
      /\ <<"start airplay">> \in Op /\ <<"start voice">> \in Op
      /\ <<"stop airplay">> \in Op /\ <<"stop voice">> \in Op
  BY OpsKnown DEF Calls, Names
<1>2. /\ "faulted" \in Flags /\ "config" \in Flags /\ "recovering" \in Flags /\ "streaming" \in Flags
      /\ "establishing" \in Flags /\ "discoverable" \in Flags /\ "network" \in Flags
  BY DEF Flags
<1>3. Shown!BootWays \subseteq Seq(Op)
  <2>1. /\ Shown!Push \in Op /\ Shown!On("faulted") \in Op /\ Shown!On("config") \in Op
        /\ Shown!Off("network") \in Op
    BY <1>2, OpsKnown
  <2>2. <<Shown!Push, Shown!On("faulted"), Shown!Push, <<"halt">> >> \in Seq(Op)
    BY <1>1, <2>1, Tuples, Zenon
  <2>3. <<Shown!Push, Shown!On("config"), Shown!Off("network"), Shown!Push, <<"halt">> >> \in Seq(Op)
    BY <1>1, <2>1, Tuples, Zenon
  <2>4. <<Shown!Push, <<"wait">>, <<"monitor">> >> \in Seq(Op)
    BY <1>1, <2>1, Tuples, Zenon
  <2> QED
    BY <2>2, <2>3, <2>4, Zenon DEF Shown!BootWays
<1>4. Shown!Start \in Seq(Op)
  BY <1>1, OpsKnown, Tuples, Zenon DEF Shown!Start
<1>5. Shown!GivenUp \in Seq(Op)
  BY <1>2, OpsKnown, Tuples, Zenon DEF Shown!GivenUp
<1>6. Shown!Connected \in Seq(Op)
  <2>1. <<Shown!On("network")>> \in Seq(Op) /\ <<Shown!Push>> \in Seq(Op)
    BY <1>2, OpsKnown, Tuples, Zenon
  <2>2. <<Shown!On("network")>> \o Shown!Start \in Seq(Op)
    BY <1>4, <2>1, ConcatProperties
  <2> QED
    BY <2>1, <2>2, ConcatProperties DEF Shown!Connected
<1>7. \A e \in {"connected", "playing", "paused", "disconnected"} : Shown!Event(e) \in Seq(Op)
  <2>1. /\ Shown!On("establishing") \in Op /\ Shown!On("streaming") \in Op /\ Shown!Off("streaming") \in Op
        /\ Shown!Off("establishing") \in Op /\ Shown!On("discoverable") \in Op
        /\ Shown!Tell(TRUE) \in Op /\ Shown!Tell(FALSE) \in Op /\ Shown!Push \in Op
    BY <1>2, OpsKnown
  <2>2. /\ Shown!Event("connected") = <<Shown!On("establishing"), Shown!Tell(TRUE), Shown!Push>>
        /\ Shown!Event("playing") = <<Shown!On("streaming"), Shown!Tell(TRUE), Shown!Push>>
        /\ Shown!Event("paused") = <<Shown!Off("streaming"), Shown!On("establishing"), Shown!Tell(TRUE), Shown!Push>>
        /\ Shown!Event("disconnected") = <<Shown!Off("streaming"), Shown!Off("establishing"),
                                           Shown!On("discoverable"), Shown!Tell(FALSE), Shown!Push>>
    BY DEF Shown!Event
  <2>3. /\ <<Shown!On("establishing"), Shown!Tell(TRUE), Shown!Push>> \in Seq(Op)
        /\ <<Shown!On("streaming"), Shown!Tell(TRUE), Shown!Push>> \in Seq(Op)
    BY <2>1, Tuples, Zenon
  <2>4. <<Shown!Off("streaming"), Shown!On("establishing"), Shown!Tell(TRUE), Shown!Push>> \in Seq(Op)
    BY <2>1, Tuples, Zenon
  <2>5. <<Shown!Off("streaming"), Shown!Off("establishing"), Shown!On("discoverable"), Shown!Tell(FALSE),
          Shown!Push>> \in Seq(Op)
    BY <2>1, Tuples, Zenon
  <2> QED
    BY <2>2, <2>3, <2>4, <2>5
<1>8. ASSUME NEW had \in BOOLEAN, NEW has \in BOOLEAN, NEW started \in BOOLEAN
      PROVE  Shown!Round(had, has, started) \in Seq(Op)
  <2> DEFINE first == << <<"set", "network", has>>, Shown!Push, Shown!Reconcile>>
             second == CASE has /\ ~had -> <<Shown!Off("config"), Shown!Off("recovering")>> \o Shown!Start
                         [] ~has /\ had -> <<Shown!On("recovering"), <<"stop voice">>, <<"stop airplay">> >>
                         [] has /\ had /\ ~started -> Shown!Start
                         [] OTHER -> <<>>
  <2>1. <<"set", "network", has>> \in Op
    BY <1>2, OpsKnown DEF Sets
  <2>2. first \in Seq(Op)
    BY <2>1, OpsKnown, Tuples, Zenon
  <2>3. <<Shown!Off("config"), Shown!Off("recovering")>> \in Seq(Op)
    BY <1>2, OpsKnown, Tuples, Zenon
  <2>4. <<Shown!Off("config"), Shown!Off("recovering")>> \o Shown!Start \in Seq(Op)
    BY <1>4, <2>3, ConcatProperties
  <2>5. <<Shown!On("recovering"), <<"stop voice">>, <<"stop airplay">> >> \in Seq(Op)
    BY <1>1, <1>2, OpsKnown, Tuples, Zenon
  <2>8. <<>> \in Seq(Op)
    BY EmptySeq
  <2>6. second \in Seq(Op)
    <3>1. CASE has /\ ~had
      BY <2>4, <3>1
    <3>2. CASE ~has /\ had
      BY <2>5, <3>2
    <3>3. CASE has /\ had /\ ~started
      BY <1>4, <3>3
    <3>4. CASE ~(has /\ ~had) /\ ~(~has /\ had) /\ ~(has /\ had /\ ~started)
      BY <2>8, <3>4
    <3> QED
      BY <3>1, <3>2, <3>3, <3>4
  <2>7. Shown!Round(had, has, started) = first \o second
    BY DEF Shown!Round
  <2> HIDE DEF first, second
  <2> QED
    BY <2>2, <2>6, <2>7, ConcatProperties
<1> QED
  BY <1>3, <1>4, <1>5, <1>6, <1>7, <1>8

\* What an operation leaves to do.
LEMMA LeftKnown ==
    ASSUME devFlags \subseteq Flags, NEW op \in Op, NEW rest \in Seq(Op)
    PROVE  Shown!Left(op, rest) \in Seq(Op)
<1>1. << <<"show", Shown!Chosen(devFlags)>> >> \in Seq(Op)
  <2>1. <<"show", Shown!Chosen(devFlags)>> \in Shows
    BY ChosenState DEF Shows
  <2> QED
    BY <2>1, OpsKnown
<1>2. << <<"report", devFlags \cap Shown!SessionFlags # {}>> >> \in Seq(Op)
  <2> DEFINE active == devFlags \cap Shown!SessionFlags # {}
  <2>1. active \in BOOLEAN
    OBVIOUS
  <2> HIDE DEF active
  <2>2. <<"report", active>> \in Op
    BY <2>1, OpsKnown DEF Reports
  <2> QED
    BY <2>2 DEF active
<1>3. CASE op[1] = "push"
  BY <1>1, <1>3, ConcatProperties DEF Shown!Left
<1>4. CASE op[1] = "reconcile"
  BY <1>2, <1>4, ConcatProperties DEF Shown!Left
<1>5. CASE op[1] \notin {"push", "reconcile"}
  BY <1>5 DEF Shown!Left
<1> QED
  BY <1>3, <1>4, <1>5

\* What the operations of both tasks do to the flags and to what is shown.
LEMMA CommonKeeps ==
    ASSUME ShownInv, NEW op \in Op, Shown!Common(op)
    PROVE  devFlags' \subseteq Flags /\ ~(Shown!SessionFlags \subseteq devFlags') /\ devShown' \in States
<1>1. CASE op[1] = "set" /\ devFlags' = Shown!After(op[2], op[3]) /\ devShown' = devShown
  <2>1. op[2] \in Flags /\ op[3] \in BOOLEAN
    <3>1. \A o \in Shows : o[1] # "set"
      BY DEF Shows
    <3>2. \A o \in Reports : o[1] # "set"
      BY DEF Reports
    <3>5. \A o \in Calls : o[1] \in Names
      BY DEF Calls
    <3>3. \A o \in Calls : o[1] # "set"
      BY <3>5 DEF Names
    <3>4. op \in Sets
      BY <1>1, <3>1, <3>2, <3>3 DEF Op
    <3> QED
      BY <3>4 DEF Sets
  <2> QED
    BY <1>1, <2>1, SetterKeeps DEF ShownInv
<1>2. CASE op[1] = "show" /\ devShown' = op[2] /\ devFlags' = devFlags
  <2>1. op[2] \in States
    <3>1. \A o \in Sets : o[1] # "show"
      BY DEF Sets
    <3>2. \A o \in Reports : o[1] # "show"
      BY DEF Reports
    <3>5. \A o \in Calls : o[1] \in Names
      BY DEF Calls
    <3>3. \A o \in Calls : o[1] # "show"
      BY <3>5 DEF Names
    <3>4. op \in Shows
      BY <1>2, <3>1, <3>2, <3>3 DEF Op
    <3> QED
      BY <3>4 DEF Shows
  <2> QED
    BY <1>2, <2>1 DEF ShownInv
<1>3. CASE UNCHANGED <<devFlags, devShown>>
  BY <1>3 DEF ShownInv
<1> QED
  BY <1>1, <1>2, <1>3 DEF Shown!Common

LEMMA ShownNext == ShownInv /\ [Shown!Next]_(Shown!devVars) => ShownInv'
<1> SUFFICES ASSUME ShownInv, [Shown!Next]_(Shown!devVars) PROVE ShownInv'
  OBVIOUS
<1>1. CASE Shown!Main
  <2> DEFINE op == Head(devMain)
             rest == Tail(devMain)
  <2>1. devMain # <<>> /\ op \in Op /\ rest \in Seq(Op) /\ devNet' = devNet
    BY <1>1, HeadTailProperties DEF Shown!Main, ShownInv
  <2>2. CASE Shown!Common(op) /\ devMain' = Shown!Left(op, rest) /\ UNCHANGED <<devUp, devHad, devClient, devSession>>
    <3>1. devMain' \in Seq(Op)
      BY <2>1, <2>2, LeftKnown DEF ShownInv
    <3>2. devFlags' \subseteq Flags /\ ~(Shown!SessionFlags \subseteq devFlags') /\ devShown' \in States
      BY <2>1, <2>2, CommonKeeps
    <3> QED
      BY <2>1, <2>2, <3>1, <3>2 DEF ShownInv
  <2>3. CASE Shown!Waited(rest) /\ UNCHANGED <<devFlags, devShown, devUp, devClient>>
    <3>1. devMain' \in Seq(Op)
      BY <2>1, <2>3, HandlersKnown, ConcatProperties DEF Shown!Waited
    <3> QED
      BY <2>1, <2>3, <3>1 DEF ShownInv
  <2>4. CASE devMain' = << <<"set", "network", devNet>>, Shown!Push>> /\ UNCHANGED <<devFlags, devShown, devUp, devClient>>
    <3>1. <<"set", "network", devNet>> \in Op
      BY OpsKnown DEF ShownInv, Sets, Flags
    <3>2. devMain' \in Seq(Op)
      BY <2>4, <3>1, OpsKnown
    <3> QED
      BY <2>1, <2>4, <3>2 DEF ShownInv
  <2>5. CASE Shown!StartAirplay(rest) /\ UNCHANGED <<devFlags, devShown, devClient>>
    <3>1. /\ <<Shown!On("discoverable"), Shown!Off("recovering"), Shown!Off("recovering"), <<"hook">> >> \in Seq(Op)
          /\ <<Shown!On("recovering")>> \in Seq(Op)
      <4>1. /\ Shown!On("discoverable") \in Op /\ Shown!Off("recovering") \in Op
            /\ Shown!On("recovering") \in Op /\ <<"hook">> \in Op
        BY OpsKnown DEF Flags, Calls, Names
      <4> QED
        BY <4>1, Tuples, Zenon
    <3>2. devMain' \in Seq(Op)
      BY <2>1, <2>5, <3>1, ConcatProperties DEF Shown!StartAirplay
    <3>3. devUp' \subseteq {"airplay", "voice", "hook"}
      BY <2>5 DEF Shown!StartAirplay, ShownInv
    <3> QED
      BY <2>1, <2>5, <3>2, <3>3 DEF ShownInv
  <2>6. CASE /\ devMain' = rest /\ devUp' \subseteq devUp \cup {"voice", "hook"}
             /\ UNCHANGED <<devFlags, devShown, devClient>>
    BY <2>1, <2>6 DEF ShownInv
  <2>7. CASE Shown!StopAirplay(rest) /\ UNCHANGED <<devFlags, devShown>>
    <3>1. <<Shown!Off("discoverable"), Shown!Off("establishing"), Shown!Off("streaming"), Shown!Tell(FALSE)>> \in Seq(Op)
      <4>1. /\ Shown!Off("discoverable") \in Op /\ Shown!Off("establishing") \in Op
            /\ Shown!Off("streaming") \in Op /\ Shown!Tell(FALSE) \in Op
        BY OpsKnown DEF Flags
      <4> QED
        BY <4>1, Tuples, Zenon
    <3>2. devMain' \in Seq(Op)
      BY <2>1, <2>7, <3>1, ConcatProperties DEF Shown!StopAirplay
    <3>3. (IF devSession = "none" THEN <<>> ELSE Shown!Event("disconnected")) \in Seq(Op)
      BY HandlersKnown
    <3>4. devClient' \in Seq(Op)
      BY <2>7, <3>3, ConcatProperties DEF Shown!StopAirplay, ShownInv
    <3>5. devUp' \subseteq devUp
      BY <2>7 DEF Shown!StopAirplay
    <3> QED
      BY <2>1, <2>7, <3>2, <3>4, <3>5 DEF ShownInv
  <2> QED
    BY <1>1, <2>2, <2>3, <2>4, <2>5, <2>6, <2>7 DEF Shown!Main, Shown!StartVoice
<1>2. CASE Shown!Monitor
  <2> DEFINE had == devHad = "yes"
             started == "airplay" \in devUp
  <2>1. had \in BOOLEAN /\ started \in BOOLEAN /\ devNet \in BOOLEAN
    BY DEF ShownInv
  <2>2. devMain' = Shown!Round(had, devNet, started)
    BY <1>2 DEF Shown!Monitor
  <2> HIDE DEF had, started
  <2>3. devMain' \in Seq(Op)
    BY <2>1, <2>2, HandlersKnown
  <2> QED
    BY <1>2, <2>3 DEF Shown!Monitor, ShownInv
<1>3. CASE Shown!Client
  <2> DEFINE op == Head(devClient)
             rest == Tail(devClient)
  <2>1. op \in Op /\ rest \in Seq(Op)
    BY <1>3, HeadTailProperties DEF Shown!Client, ShownInv
  <2>2. /\ Shown!Common(op) /\ devClient' = Shown!Left(op, rest)
        /\ UNCHANGED <<devNet, devUp, devMain, devHad, devSession>>
    BY <1>3 DEF Shown!Client
  <2> HIDE DEF op, rest
  <2>3. devClient' \in Seq(Op)
    BY <2>1, <2>2, LeftKnown DEF ShownInv
  <2>4. devFlags' \subseteq Flags /\ ~(Shown!SessionFlags \subseteq devFlags') /\ devShown' \in States
    BY <2>1, <2>2, CommonKeeps
  <2> QED
    BY <2>2, <2>3, <2>4 DEF ShownInv
<1>4. CASE Shown!Wifi
  BY <1>4 DEF Shown!Wifi, ShownInv
<1>5. ASSUME NEW from, NEW to, NEW e \in {"connected", "playing", "paused", "disconnected"},
             Shown!Session(from, to, e)
      PROVE  ShownInv'
  BY <1>5, HandlersKnown DEF Shown!Session, ShownInv
<1>6. CASE UNCHANGED Shown!devVars
  BY <1>6 DEF Shown!devVars, ShownInv
<1> QED
  BY <1>1, <1>2, <1>3, <1>4, <1>5, <1>6 DEF Shown!Next

\* It holds before the first operation, and types what is shown.
LEMMA ShownInit == Shown!Init => ShownInv
  BY HandlersKnown DEF Shown!Init, ShownInv, States, Shown!SessionFlags

LEMMA ShownSafe == ShownInv => Shown!TypeOK
  BY FlagsOrdered DEF ShownInv, Shown!TypeOK, States

\* Whichever of the two tasks sets a flag of receiver_state.c, and in whatever order,
\* a session is never at once being established and streaming, and what the screen is
\* told is one of the states.
THEOREM OneSessionState == Shown!Spec => []Shown!TypeOK
  BY ShownInit, ShownNext, ShownSafe, PTL DEF Shown!Spec

-----------------------------------------------------------------------------
(* The sensors.                                                            *)

One(bus) == IF bus = "none" THEN 0 ELSE 1

HwRec == [valid : BOOLEAN, bus : Sensors!Buses, sht : Sensors!Buses \cup {"none"},
          qmp : Sensors!Buses \cup {"none"}]
DataRec == [count : Int, fresh : BOOLEAN]
UnitRec == [at : Sensors!Buses \cup {"away"}, noisy : BOOLEAN, moves : 0..MaxMoves,
            awake : BOOLEAN]

SensorsInv ==
    /\ envHw \in HwRec
    /\ envHw.valid <=> envHw.qmp # "none"
    /\ envAt \in {"probe", "sht.add", "sht", "qmp.add", "sample", "qmp"}
    /\ envHw.valid => envAt \in {"sample", "sht", "qmp"}
    /\ envData \in DataRec
    /\ envData.count = One(envHw.sht) + One(envHw.qmp)
    /\ envUnit \in UnitRec

\* Before the first tick no device is on a bus.
LEMMA SensorsInit == MaxMoves \in Nat /\ Sensors!Init => SensorsInv
<1> SUFFICES ASSUME MaxMoves \in Nat, Sensors!Init PROVE SensorsInv
  OBVIOUS
<1>1. envUnit \in UnitRec
  <2>1. 0 \in 0..MaxMoves /\ FALSE \in BOOLEAN
    OBVIOUS
  <2>2. {FALSE} \subseteq BOOLEAN /\ {0} \subseteq 0..MaxMoves
    BY <2>1
  <2>3. [at : Sensors!Buses \cup {"away"}, noisy : {FALSE}, moves : {0}, awake : {FALSE}] \subseteq UnitRec
    BY <2>2, Zenon DEF UnitRec
  <2> QED
    BY <2>3 DEF Sensors!Init
<1> QED
  BY <1>1 DEF Sensors!Init, SensorsInv, One, Sensors!Buses, HwRec, DataRec

\* A tick, a scan and a device that goes keep the handles counted.
LEMMA SensorsNext == MaxMoves \in Nat /\ SensorsInv /\ [Sensors!Next]_(Sensors!sensorVars) => SensorsInv'
<1> SUFFICES ASSUME MaxMoves \in Nat, SensorsInv, [Sensors!Next]_(Sensors!sensorVars) PROVE SensorsInv'
  OBVIOUS
<1> USE DEF SensorsInv, One, Sensors!Buses
<1>1. CASE UNCHANGED Sensors!sensorVars
  BY <1>1 DEF Sensors!sensorVars
<1>2. CASE Sensors!Probe
  BY <1>2 DEF Sensors!Probe, HwRec
<1>3. CASE Sensors!AddSht
  BY <1>3 DEF Sensors!AddSht, HwRec, DataRec
<1>4. CASE Sensors!ShtOk \/ Sensors!ShtFails
  BY <1>4 DEF Sensors!ShtOk, Sensors!ShtFails, Sensors!Failed, DataRec, HwRec
<1>5. CASE Sensors!ShtReset
  <2>1. CASE envHw' = Sensors!ReAdd /\ UNCHANGED <<envAt, envData>>
    BY <1>5, <2>1 DEF Sensors!ShtReset, Sensors!ReAdd, HwRec
  <2>2. CASE /\ envHw' = [envHw EXCEPT !.sht = "none"] /\ envAt' = Sensors!Failed
             /\ envData' = [count |-> envData.count - 1, fresh |-> FALSE]
    <3>1. envHw' \in HwRec /\ envHw'.sht = "none" /\ envHw'.qmp = envHw.qmp /\ envHw'.valid = envHw.valid
      BY <2>2 DEF HwRec
    <3>2. envData' \in DataRec /\ envData'.count = envData.count - 1
      BY <2>2 DEF DataRec
    <3>3. envUnit' = envUnit /\ envHw.sht # "none"
      BY <1>5 DEF Sensors!ShtReset
    <3>4. One(envHw.sht) = 1 /\ One(envHw.qmp) \in {0, 1}
      BY <3>3
    <3> QED
      BY <2>2, <3>1, <3>2, <3>3, <3>4 DEF Sensors!Failed
  <2> QED
    BY <1>5, <2>1, <2>2 DEF Sensors!ShtReset
<1>6. CASE Sensors!AddQmp
  <2>1. CASE /\ envHw' = [envHw EXCEPT !.qmp = envHw.bus, !.valid = TRUE]
             /\ envUnit' = [envUnit EXCEPT !.awake = TRUE]
             /\ envData' = [envData EXCEPT !.count = @ + 1]
             /\ envAt' = "sample"
    <3>1. envHw' \in HwRec /\ envHw'.sht = envHw.sht
      BY <2>1 DEF HwRec
    <3>2. envHw'.qmp = envHw.bus /\ envHw'.valid = TRUE /\ envHw.bus \in Sensors!Buses
      BY <2>1 DEF HwRec
    <3>3. envData' \in DataRec /\ envData'.count = envData.count + 1
      BY <2>1 DEF DataRec
    <3>4. envUnit' \in UnitRec
      BY <2>1 DEF UnitRec
    <3>5. envHw.qmp = "none"
      BY <1>6 DEF Sensors!AddQmp, HwRec
    <3>6. envHw'.qmp # "none"
      BY <3>2
    <3>7. One(envHw.qmp) = 0 /\ One(envHw'.qmp) = 1 /\ One(envHw.sht) \in {0, 1}
      BY <3>5, <3>6
    <3> QED
      BY <2>1, <3>1, <3>2, <3>3, <3>4, <3>6, <3>7
  <2>2. CASE UNCHANGED <<envUnit, envHw, envData>> /\ envAt' = "probe"
    BY <1>6, <2>2 DEF Sensors!AddQmp
  <2> QED
    BY <1>6, <2>1, <2>2 DEF Sensors!AddQmp, Sensors!BadQmp
<1>7. CASE Sensors!NextSample \/ Sensors!QmpRead
  BY <1>7 DEF Sensors!NextSample, Sensors!QmpRead, DataRec, HwRec
<1>8. CASE Sensors!Move \/ Sensors!Noise
  <2>1. envUnit' \in UnitRec
    <3>1. CASE Sensors!Move
      <4>1. PICK at \in Sensors!Buses \cup {"away"} :
                envUnit' = [envUnit EXCEPT !.at = at, !.awake = FALSE, !.moves = @ + 1]
        BY <3>1 DEF Sensors!Move
      <4>2. envUnit.moves + 1 \in 0..MaxMoves
        BY <3>1 DEF Sensors!Move, UnitRec
      <4> QED
        BY <4>1, <4>2 DEF UnitRec
    <3>2. CASE Sensors!Noise
      <4>1. (~envUnit.noisy) \in BOOLEAN
        OBVIOUS
      <4> QED
        BY <3>2, <4>1, Zenon DEF Sensors!Noise, UnitRec
    <3> QED
      BY <1>8, <3>1, <3>2
  <2> QED
    BY <1>8, <2>1 DEF Sensors!Move, Sensors!Noise
<1> QED
  BY <1>1, <1>2, <1>3, <1>4, <1>5, <1>6, <1>7, <1>8 DEF Sensors!Next, Sensors!Task

\* What it says about every state of the task.
LEMMA SensorsSafe == SensorsInv => Sensors!TypeOK /\ Sensors!NoStrayDevice
<1>1. SensorsInv => Sensors!TypeOK
  BY DEF SensorsInv, Sensors!TypeOK, HwRec, UnitRec
<1>2. SensorsInv => Sensors!NoStrayDevice
  <2> SUFFICES ASSUME SensorsInv PROVE Sensors!NoStrayDevice
    OBVIOUS
  <2> DEFINE D == {d \in {"sht", "qmp"} : envHw[d] # "none"}
  <2>1. envData.count = One(envHw.sht) + One(envHw.qmp)
    BY DEF SensorsInv, HwRec
  <2>2. \/ D = {} /\ envHw.sht = "none" /\ envHw.qmp = "none"
        \/ D = {"sht"} /\ envHw.sht # "none" /\ envHw.qmp = "none"
        \/ D = {"qmp"} /\ envHw.sht = "none" /\ envHw.qmp # "none"
        \/ D = {"sht"} \cup {"qmp"} /\ envHw.sht # "none" /\ envHw.qmp # "none"
    BY DEF SensorsInv, HwRec
  <2>3. /\ Cardinality({}) = 0
        /\ IsFiniteSet({"sht"}) /\ Cardinality({"sht"}) = 1
        /\ Cardinality({"qmp"}) = 1
    BY FS_EmptySet, FS_Singleton
  <2>4. Cardinality({"sht"} \cup {"qmp"}) = 2
    BY <2>3, FS_AddElement
  <2> HIDE DEF D
  <2>5. envData.count = Cardinality(D)
    BY <2>1, <2>2, <2>3, <2>4 DEF One
  <2>6. Cardinality(D) = Sensors!Cardinality(D)
    BY DEF Cardinality, Sensors!Cardinality
  <2> QED
    BY <2>5, <2>6 DEF D, Sensors!NoStrayDevice
<1> QED
  BY <1>1, <1>2

\* What env_monitor.c keeps, however often the unit is moved, with additions of a
\* device that fail or not: the devices on the buses are those there are handles
\* of, none is left behind.
THEOREM NoDeviceLeaks ==
    ASSUME MaxMoves \in Nat
    PROVE  Sensors!Spec => [](Sensors!TypeOK /\ Sensors!NoStrayDevice)
  BY SensorsInit, SensorsNext, SensorsSafe, PTL DEF Sensors!Spec

-----------------------------------------------------------------------------
(* The spoken reminders.                                                   *)

\* The ages after a reminder, or a round, are ages.
LEMMA RemindedTyped ==
    ASSUME ReadingsAssumption, Reminder!TypeOK, NEW mask
    PROVE  Reminder!Reminded(mask) \in [Reminder!Issues -> 0..Cooldown]
  BY DEF ReadingsAssumption, Reminder!TypeOK, Reminder!Reminded

\* What try_send_pending and maybe_schedule_reminder leave behind is typed.
LEMMA SpeechTyped ==
    ASSUME ReadingsAssumption, Reminder!TypeOK,
           NEW mask \in SUBSET Reminder!Issues, NEW answer,
           Reminder!TrySend(answer) \/ Reminder!Schedule(mask, answer)
    PROVE  remPending' \subseteq Reminder!Issues /\ remAge' \in [Reminder!Issues -> 0..Cooldown]
  <1>1. \A m : Reminder!Reminded(m) \in [Reminder!Issues -> 0..Cooldown]
    BY RemindedTyped
  <1>2. remPending \subseteq Reminder!Issues /\ remAge \in [Reminder!Issues -> 0..Cooldown]
    BY DEF Reminder!TypeOK
  <1>3. CASE Reminder!TrySend(answer)
    BY <1>1, <1>2, <1>3 DEF Reminder!TrySend, Reminder!Quiet
  <1>4. CASE Reminder!Schedule(mask, answer)
    BY <1>1, <1>2, <1>4 DEF Reminder!Schedule, Reminder!Quiet, Reminder!PutOff
  <1> QED
    BY <1>3, <1>4

\* No step of the task breaks the types: no two opposite issues are active.
LEMMA ReminderNext ==
    ReadingsAssumption /\ Reminder!TypeOK /\ [Reminder!Next]_(Reminder!remVars) => Reminder!TypeOK'
<1> SUFFICES ASSUME ReadingsAssumption, Reminder!TypeOK, [Reminder!Next]_(Reminder!remVars)
             PROVE  Reminder!TypeOK'
  OBVIOUS
<1>1. ASSUME NEW answer \in Answers, Reminder!First(answer) \/ Reminder!Last(answer)
      PROVE  Reminder!TypeOK'
  <2>1. Reminder!TrySend(answer) /\ remActive' = remActive
    BY <1>1 DEF Reminder!First, Reminder!Last
  <2> QED
    BY <2>1, SpeechTyped DEF Reminder!TypeOK
<1>2. ASSUME NEW reading \in Readings, NEW answer \in Answers, Reminder!Sampled(reading, answer)
      PROVE  Reminder!TypeOK'
  <2> DEFINE mask == Reminder!Triggers(reading)
  <2>1. Reminder!Schedule(mask, answer) /\ remActive' = mask
    BY <1>2 DEF Reminder!Sampled
  <2>2. reading.temp \in -2..2 /\ reading.humid \in -2..2
    BY DEF ReadingsAssumption
  <2>3. mask \subseteq Reminder!Issues
    BY DEF Reminder!Triggers
  <2>4. ~({"hot", "cold"} \subseteq mask)
    BY <2>2 DEF Reminder!Triggers, Reminder!Issues
  <2>5. ~({"dry", "humid"} \subseteq mask)
    BY <2>2 DEF Reminder!Triggers, Reminder!Issues
  <2> HIDE DEF mask
  <2>6. remPending' \subseteq Reminder!Issues /\ remAge' \in [Reminder!Issues -> 0..Cooldown]
    BY <2>1, <2>3, SpeechTyped
  <2> QED
    BY <2>1, <2>3, <2>4, <2>5, <2>6 DEF Reminder!TypeOK
<1>3. CASE Reminder!NoSample \/ Reminder!Wait \/ UNCHANGED Reminder!remVars
  <2>1. remActive' = remActive /\ remPending' = remPending
    BY <1>3 DEF Reminder!NoSample, Reminder!Wait, Reminder!Quiet, Reminder!remVars
  <2>2. remAge' \in [Reminder!Issues -> 0..Cooldown]
    BY <1>3 DEF Reminder!NoSample, Reminder!Wait, Reminder!Quiet, Reminder!remVars, Reminder!TypeOK,
      ReadingsAssumption
  <2> QED
    BY <2>1, <2>2 DEF Reminder!TypeOK
<1> QED
  BY <1>1, <1>2, <1>3 DEF Reminder!Next

\* A step that speaks has waited for the pause of all it speaks of, or speaks what
\* was pending; nothing else ends what is pending.
LEMMA ReminderSteps ==
    ReadingsAssumption /\ Reminder!TypeOK /\ Reminder!Next =>
        Reminder!ForgetsNone /\ Reminder!RepeatsDeferred
<1> SUFFICES ASSUME ReadingsAssumption, Reminder!TypeOK, Reminder!Next
             PROVE  Reminder!ForgetsNone /\ Reminder!RepeatsDeferred
  OBVIOUS
<1>1. ASSUME NEW answer \in Answers, Reminder!First(answer) \/ Reminder!Last(answer)
      PROVE  Reminder!ForgetsNone /\ Reminder!RepeatsDeferred
  BY <1>1 DEF Reminder!First, Reminder!Last, Reminder!TrySend, Reminder!Quiet,
    Reminder!ForgetsNone, Reminder!RepeatsDeferred
<1>2. ASSUME NEW reading \in Readings, NEW answer \in Answers, Reminder!Sampled(reading, answer)
      PROVE  Reminder!ForgetsNone /\ Reminder!RepeatsDeferred
  <2> DEFINE mask == Reminder!Triggers(reading)
  <2>1. Reminder!Schedule(mask, answer)
    BY <1>2 DEF Reminder!Sampled
  <2> HIDE DEF mask
  <2>2. Reminder!ForgetsNone
    BY <2>1 DEF Reminder!Schedule, Reminder!Quiet, Reminder!PutOff, Reminder!ForgetsNone
  <2>3. remSaid' = {} \/ (remSaid' = mask /\ \A i \in mask : remAge[i] = Cooldown)
    BY <2>1 DEF Reminder!Schedule, Reminder!Quiet, Reminder!PutOff, Reminder!CooldownReady
  <2>4. Reminder!RepeatsDeferred
    BY <2>3 DEF Reminder!RepeatsDeferred, ReadingsAssumption
  <2> QED
    BY <2>2, <2>4
<1>3. CASE Reminder!NoSample \/ Reminder!Wait
  BY <1>3 DEF Reminder!NoSample, Reminder!Wait, Reminder!Quiet, Reminder!ForgetsNone, Reminder!RepeatsDeferred
<1> QED
  BY <1>1, <1>2, <1>3 DEF Reminder!Next

\* No issue is active before the first reading.
LEMMA ReminderInit == ReadingsAssumption /\ Reminder!Init => Reminder!TypeOK
  BY DEF Reminder!Init, Reminder!TypeOK, Reminder!Issues, ReadingsAssumption

\* A reminder that env_monitor.c puts off is not forgotten, and an issue is spoken
\* of again within its pause only in one that was put off.
THEOREM NoneForgotten ==
    ASSUME ReadingsAssumption
    PROVE  Reminder!Spec => /\ []Reminder!TypeOK
                            /\ Reminder!DeferredNotForgotten /\ Reminder!RepeatOnlyDeferred
<1>1. ReadingsAssumption /\ Reminder!TypeOK /\ [Reminder!Next]_(Reminder!remVars) =>
          [Reminder!ForgetsNone /\ Reminder!RepeatsDeferred]_(Reminder!remVars)
  BY ReminderSteps
<1> QED
  BY <1>1, ReminderInit, ReminderNext, PTL
    DEF Reminder!Spec, Reminder!DeferredNotForgotten, Reminder!RepeatOnlyDeferred

-----------------------------------------------------------------------------
(* The face on the screen.                                                 *)

CallRec == [at : {"idle", "dirty", "lock"}, voice : Voices \cup {"off"}]

ScreenTyped == Screen!TypeOK /\ uiCalls \in [Writers -> CallRec]

\* One task that always gets the lock: while its call is under way it still has to
\* paint the last state, afterwards it has.
Painted == \A writer \in Writers : Writers = {writer} /\ ~Timeouts =>
    /\ uiCalls[writer].at # "idle" => uiCalls[writer].voice = uiVoice /\ uiVoice # "off"
    /\ uiCalls[writer].at = "idle" =>
          /\ uiButton = IF uiVoice = "off" THEN "standby" ELSE uiVoice
          /\ uiVoice \notin {"off", "error"} => uiColour = uiVoice

ScreenInv == ScreenTyped /\ Painted

\* It holds before the first call.
LEMMA ScreenInit == FaceAssumption /\ Screen!Init => ScreenInv
  BY DEF FaceAssumption, Screen!Init, ScreenInv, ScreenTyped, CallRec, Painted, Screen!TypeOK, Screen!Quiet

\* The calls leave states that are shown, and the last painter the last state.
LEMMA WriterKeeps ==
    ASSUME FaceAssumption, ScreenInv, NEW writer \in Writers, NEW voice \in Voices,
           Screen!Report(writer, voice) \/ Screen!Write(writer)
    PROVE  ScreenInv'
<1>1. CASE Screen!Report(writer, voice)
  <2> DEFINE v == Screen!AsVisible(voice)
             at == IF uiVoice = v THEN "lock" ELSE "dirty"
  <2>1. v \in Voices /\ v # "off"
    BY DEF FaceAssumption, Screen!AsVisible
  <2>2. /\ uiVoice' = v /\ uiCalls' = [uiCalls EXCEPT ![writer] = [at |-> at, voice |-> v]]
        /\ UNCHANGED <<uiBlink, uiColour, uiButton, uiAnim, uiPush>>
    BY <1>1 DEF Screen!Report
  <2>3. at \in {"lock", "dirty"}
    OBVIOUS
  <2> HIDE DEF v, at
  <2>4. uiCalls' \in [Writers -> CallRec] /\ uiCalls'[writer].at = at /\ uiCalls'[writer].voice = v
    BY <2>1, <2>2, <2>3 DEF ScreenInv, ScreenTyped, CallRec
  <2>5. ScreenTyped'
    BY <2>1, <2>2, <2>4 DEF ScreenInv, ScreenTyped, CallRec, Screen!TypeOK
  <2> QED
    BY <2>1, <2>2, <2>3, <2>4, <2>5 DEF ScreenInv, Painted
<1>2. ASSUME NEW at \in {"lock", "idle"}, Screen!Goto(writer, at)
      PROVE  /\ uiCalls' \in [Writers -> CallRec]
             /\ \A o \in Writers : uiCalls'[o].voice = uiCalls[o].voice
             /\ \A o \in Writers : uiCalls'[o].at = IF o = writer THEN at ELSE uiCalls[o].at
  BY <1>2 DEF Screen!Goto, ScreenInv, ScreenTyped, CallRec
<1>3. CASE Screen!MarkDirty(writer)
  <2>1. /\ uiCalls' \in [Writers -> CallRec]
        /\ \A o \in Writers : uiCalls'[o].voice = uiCalls[o].voice
        /\ \A o \in Writers : uiCalls'[o].at = IF o = writer THEN "lock" ELSE uiCalls[o].at
    BY <1>2, <1>3 DEF Screen!MarkDirty
  <2>2. uiCalls[writer].at = "dirty" /\ UNCHANGED <<uiVoice, uiBlink, uiColour, uiButton, uiAnim, uiPush>>
    BY <1>3 DEF Screen!MarkDirty
  <2>3. ScreenTyped'
    BY <2>1, <2>2 DEF ScreenInv, ScreenTyped, Screen!TypeOK, Screen!Quiet
  <2> QED
    BY <2>1, <2>2, <2>3 DEF ScreenInv, Painted
<1>4. CASE Screen!Paint(writer)
  <2>1. /\ uiCalls' \in [Writers -> CallRec]
        /\ \A o \in Writers : uiCalls'[o].voice = uiCalls[o].voice
        /\ \A o \in Writers : uiCalls'[o].at = IF o = writer THEN "idle" ELSE uiCalls[o].at
    BY <1>2, <1>4 DEF Screen!Paint
  <2> DEFINE v == uiCalls[writer].voice
  <2>2. /\ uiCalls[writer].at = "lock" /\ UNCHANGED <<uiVoice, uiBlink, uiAnim, uiPush>>
        /\ uiColour' = IF v \in {"error", "off"} THEN uiColour ELSE v
        /\ uiButton' = IF v = "off" THEN uiButton ELSE v
    BY <1>4 DEF Screen!Paint, Screen!Coloured, Screen!Pressed
  <2>3. v \in Voices \cup {"off"}
    BY DEF ScreenInv, ScreenTyped, CallRec
  <2> HIDE DEF v
  <2>4. ScreenTyped'
    BY <2>1, <2>2, <2>3 DEF ScreenInv, ScreenTyped, Screen!TypeOK, Screen!Quiet
  <2> QED
    BY <2>1, <2>2, <2>4 DEF ScreenInv, Painted, v
<1>5. CASE Screen!LockTimeout(writer)
  <2>1. /\ uiCalls' \in [Writers -> CallRec]
        /\ \A o \in Writers : uiCalls'[o].voice = uiCalls[o].voice
        /\ \A o \in Writers : uiCalls'[o].at = IF o = writer THEN "idle" ELSE uiCalls[o].at
    BY <1>2, <1>5 DEF Screen!LockTimeout
  <2>2. Timeouts /\ UNCHANGED <<uiVoice, uiBlink, uiColour, uiButton, uiAnim, uiPush>>
    BY <1>5 DEF Screen!LockTimeout
  <2>3. ScreenTyped'
    BY <2>1, <2>2 DEF ScreenInv, ScreenTyped, Screen!TypeOK, Screen!Quiet
  <2> QED
    BY <2>2, <2>3 DEF ScreenInv, Painted
<1> QED
  BY <1>1, <1>3, <1>4, <1>5 DEF Screen!Write

\* Neither the timer nor the state of the receiver changes the look.
LEMMA ScreenNext == FaceAssumption /\ ScreenInv /\ [Screen!Next]_(Screen!uiVars) => ScreenInv'
<1> SUFFICES ASSUME FaceAssumption, ScreenInv, [Screen!Next]_(Screen!uiVars) PROVE ScreenInv'
  OBVIOUS
<1>1. ASSUME UNCHANGED <<uiVoice, uiColour, uiButton, uiCalls>>,
             uiBlink' \in 0..BlinkDur, uiAnim' \in {"idle", "draw", "clear"}, uiPush' \in {"idle", "store"}
      PROVE  ScreenInv'
  <2>1. ScreenTyped'
    BY <1>1 DEF ScreenInv, ScreenTyped, Screen!TypeOK, Screen!Quiet
  <2> QED
    BY <1>1, <2>1 DEF ScreenInv, Painted
<1>2. CASE Screen!Tick
  <2>1. uiBlink' \in 0..BlinkDur
    BY <1>2 DEF Screen!Tick, Screen!BlinkStep, Screen!OpenAgain, ScreenInv, ScreenTyped, Screen!TypeOK,
      FaceAssumption
  <2>2. /\ UNCHANGED <<uiVoice, uiColour, uiButton, uiCalls, uiPush>> /\ uiAnim' \in {"draw", "idle"}
    BY <1>2 DEF Screen!Tick
  <2> QED
    BY <1>1, <2>1, <2>2 DEF ScreenInv, ScreenTyped, Screen!TypeOK
<1>3. CASE Screen!Draw \/ Screen!Clear \/ UNCHANGED Screen!uiVars
  BY <1>1, <1>3 DEF Screen!Draw, Screen!Clear, Screen!uiVars, ScreenInv, ScreenTyped, Screen!TypeOK
<1>4. CASE Screen!PushStreaming
  BY <1>1, <1>4 DEF Screen!PushStreaming, ScreenInv, ScreenTyped, Screen!TypeOK
<1>5. ASSUME NEW dot, NEW streaming, Screen!PushState(dot, streaming)
      PROVE  ScreenInv'
  BY <1>1, <1>5 DEF Screen!PushState, ScreenInv, ScreenTyped, Screen!TypeOK
<1>6. ASSUME NEW writer \in Writers, Screen!Write(writer)
      PROVE  ScreenInv'
  BY <1>6, WriterKeeps DEF FaceAssumption
<1> QED
  BY <1>2, <1>3, <1>4, <1>5, <1>6, WriterKeeps DEF Screen!Next, Screen!Animate

\* What it says about every state of the screen.
LEMMA ScreenSafe == FaceAssumption /\ ScreenInv => Screen!TypeOK /\ Screen!LookAgrees
<1> SUFFICES ASSUME FaceAssumption PROVE ScreenInv => Screen!TypeOK /\ Screen!LookAgrees
  OBVIOUS
<1>1. ScreenInv => Screen!TypeOK
  BY DEF ScreenInv, ScreenTyped
<1>2. ScreenInv => Screen!LookAgrees
  <2> SUFFICES ASSUME ScreenInv, Screen!Cardinality(Writers) = 1, ~Timeouts, Screen!Quiet
               PROVE  /\ uiButton = IF uiVoice = "off" THEN "standby" ELSE uiVoice
                      /\ uiVoice \notin {"off", "error"} => uiColour = uiVoice
    BY DEF Screen!LookAgrees
  <2>1. Cardinality(Writers) = Screen!Cardinality(Writers)
    BY DEF Cardinality, Screen!Cardinality
  <2>2. PICK writer : Writers = {writer}
    BY <2>1, FS_Singleton DEF FaceAssumption
  <2> QED
    BY <2>2 DEF ScreenInv, Painted, Screen!Quiet
<1> QED
  BY <1>1, <1>2

\* The button and the colours that screen_ui.c leaves fit the state, as long as one
\* task reports it and gets the lock.
THEOREM LookFits ==
    ASSUME FaceAssumption
    PROVE  Screen!Spec => [](Screen!TypeOK /\ Screen!LookAgrees)
  BY ScreenInit, ScreenNext, ScreenSafe, PTL DEF Screen!Spec

-----------------------------------------------------------------------------
(* The back light.                                                         *)

\* The table of als_to_brightness, entry by entry.
LEMMA Table ==
    /\ Light!MaxLight \in Nat /\ Light!MaxLight > 800
    /\ DOMAIN Light!Segments = 1..6
    /\ Light!Segments[1].to = 5 /\ Light!Segments[1].low = 5
    /\ Light!Segments[2] = [to |-> 30, low |-> 20, high |-> 40]
    /\ Light!Segments[3] = [to |-> 100, low |-> 40, high |-> 60]
    /\ Light!Segments[4] = [to |-> 300, low |-> 60, high |-> 80]
    /\ Light!Segments[5] = [to |-> 800, low |-> 80, high |-> 95]
    /\ Light!Segments[6] = [to |-> Light!MaxLight, low |-> 95, high |-> 100]
<1>1. DOMAIN Light!Segments = 1..6
  BY DEF Light!Segments
<1>2. Light!Segments[1].to = 5 /\ Light!Segments[1].low = 5
  BY DEF Light!Segments
<1>3. Light!Segments[2] = [to |-> 30, low |-> 20, high |-> 40]
  BY DEF Light!Segments
<1>4. Light!Segments[3] = [to |-> 100, low |-> 40, high |-> 60]
  BY DEF Light!Segments
<1>5. Light!Segments[4] = [to |-> 300, low |-> 60, high |-> 80]
  BY DEF Light!Segments
<1>6. Light!Segments[5] = [to |-> 800, low |-> 80, high |-> 95]
  BY DEF Light!Segments
<1>7. Light!Segments[6] = [to |-> Light!MaxLight, low |-> 95, high |-> 100]
  BY DEF Light!Segments
<1>8. Light!MaxLight \in Nat /\ Light!MaxLight > 800
  BY DEF Light!MaxLight
<1> QED
  BY <1>1, <1>2, <1>3, <1>4, <1>5, <1>6, <1>7, <1>8

\* Between two entries the brightness is that of the first and a share of the step.
LEMMA WithinWhole ==
    ASSUME NEW als \in Nat, NEW from \in Nat, NEW to \in Nat, NEW low \in Nat, NEW high \in Nat,
           from < als, from < to, low <= high
    PROVE  low + ((als - from) * (high - low)) \div (to - from) \in Nat
<1> DEFINE x == als - from
           y == high - low
           p == x * y
           d == to - from
<1>1. x \in Nat /\ y \in Nat /\ d \in Nat /\ d > 0
  OBVIOUS
<1> HIDE DEF x, y, d
<1>2. p \in Nat
  BY <1>1
<1> HIDE DEF p
<1>3. p \div d \in Nat
  BY <1>1, <1>2
<1> QED
  BY <1>3 DEF p, x, y, d

\* Each light asks for a whole number of percents.
LEMMA BrightnessWhole ==
    ASSUME NEW als \in 0..Light!MaxLight
    PROVE  Light!Brightness(als) \in Nat
<1> DEFINE S == {k \in DOMAIN Light!Segments : als <= Light!Segments[k].to}
           i == Light!Min(S)
<1>1. S \subseteq 1..6 /\ 6 \in S
  BY Table
<1>2. \A k \in 1..6 : k \notin S => ~(als <= Light!Segments[k].to)
  BY Table
<1>3. Light!Brightness(als) = IF i = 1 THEN Light!Segments[1].low ELSE Light!Within(i, als)
  BY DEF Light!Brightness
<1> HIDE DEF S
<1>4. \E k \in S : \A l \in S : k <= l
  <2>2. CASE 1 \in S
    BY <1>1, <2>2
  <2>3. CASE 1 \notin S /\ 2 \in S
    BY <1>1, <2>3
  <2>4. CASE 1 \notin S /\ 2 \notin S /\ 3 \in S
    BY <1>1, <2>4
  <2>5. CASE 1 \notin S /\ 2 \notin S /\ 3 \notin S /\ 4 \in S
    BY <1>1, <2>5
  <2>6. CASE 1 \notin S /\ 2 \notin S /\ 3 \notin S /\ 4 \notin S /\ 5 \in S
    BY <1>1, <2>6
  <2>7. CASE 1 \notin S /\ 2 \notin S /\ 3 \notin S /\ 4 \notin S /\ 5 \notin S
    BY <1>1, <2>7
  <2> QED
    BY <2>2, <2>3, <2>4, <2>5, <2>6, <2>7
<1>5. i \in S /\ \A l \in S : i <= l
  BY <1>4 DEF Light!Min
<1> HIDE DEF i
<1>6. i \in 1..6
  BY <1>1, <1>5
<1>7. CASE i = 1
  BY <1>3, <1>7, Table
<1>8. ASSUME i # 1 PROVE Light!Within(i, als) \in Nat
  <2>1. i - 1 \in 1..6 /\ i - 1 \notin S
    BY <1>1, <1>5, <1>6, <1>8
  <2>2. ~(als <= Light!Segments[i - 1].to)
    BY <1>2, <2>1
  <2>3. CASE i = 2
    <3>1. i - 1 = 1 /\ Light!Segments[i - 1].to = 5
      BY <2>3, Table
    <3>2. Light!Segments[i] = Light!Segments[2]
      BY <2>3
    <3>3. /\ Light!Segments[i].to = 30 /\ Light!Segments[i].low = 20
          /\ Light!Segments[i].high = 40
      BY <3>2, Table
    <3>4. als > 5
      BY <2>2, <2>3, Table
    <3>5. Light!Within(i, als) = 20 + ((als - 5) * (40 - 20)) \div (30 - 5)
      BY <3>1, <3>3 DEF Light!Within
    <3> QED
      BY <3>4, <3>5, WithinWhole, Table
  <2>4. CASE i = 3
    <3>1. i - 1 = 2 /\ Light!Segments[i - 1].to = 30
      BY <2>4, Table
    <3>2. Light!Segments[i] = Light!Segments[3]
      BY <2>4
    <3>3. /\ Light!Segments[i].to = 100 /\ Light!Segments[i].low = 40
          /\ Light!Segments[i].high = 60
      BY <3>2, Table
    <3>4. als > 30
      BY <2>2, <2>4, Table
    <3>5. Light!Within(i, als) = 40 + ((als - 30) * (60 - 40)) \div (100 - 30)
      BY <3>1, <3>3 DEF Light!Within
    <3> QED
      BY <3>4, <3>5, WithinWhole, Table
  <2>5. CASE i = 4
    <3>1. i - 1 = 3 /\ Light!Segments[i - 1].to = 100
      BY <2>5, Table
    <3>2. Light!Segments[i] = Light!Segments[4]
      BY <2>5
    <3>3. /\ Light!Segments[i].to = 300 /\ Light!Segments[i].low = 60
          /\ Light!Segments[i].high = 80
      BY <3>2, Table
    <3>4. als > 100
      BY <2>2, <2>5, Table
    <3>5. Light!Within(i, als) = 60 + ((als - 100) * (80 - 60)) \div (300 - 100)
      BY <3>1, <3>3 DEF Light!Within
    <3> QED
      BY <3>4, <3>5, WithinWhole, Table
  <2>6. CASE i = 5
    <3>1. i - 1 = 4 /\ Light!Segments[i - 1].to = 300
      BY <2>6, Table
    <3>2. Light!Segments[i] = Light!Segments[5]
      BY <2>6
    <3>3. /\ Light!Segments[i].to = 800 /\ Light!Segments[i].low = 80
          /\ Light!Segments[i].high = 95
      BY <3>2, Table
    <3>4. als > 300
      BY <2>2, <2>6, Table
    <3>5. Light!Within(i, als) = 80 + ((als - 300) * (95 - 80)) \div (800 - 300)
      BY <3>1, <3>3 DEF Light!Within
    <3> QED
      BY <3>4, <3>5, WithinWhole, Table
  <2>7. CASE i = 6
    <3>1. i - 1 = 5 /\ Light!Segments[i - 1].to = 800
      BY <2>7, Table
    <3>2. Light!Segments[i] = Light!Segments[6]
      BY <2>7
    <3>3. /\ Light!Segments[i].to = Light!MaxLight /\ Light!Segments[i].low = 95
          /\ Light!Segments[i].high = 100
      BY <3>2, Table
    <3>4. als > 800
      BY <2>2, <2>7, Table
    <3>5. Light!Within(i, als) = 95 + ((als - 800) * (100 - 95)) \div (Light!MaxLight - 800)
      BY <3>1, <3>3 DEF Light!Within
    <3> QED
      BY <3>4, <3>5, WithinWhole, Table
  <2> QED
    BY <1>6, <1>8, <2>3, <2>4, <2>5, <2>6, <2>7
<1> QED
  BY <1>3, <1>7, <1>8

\* It stays between those that some light asks for.
Between(b) == b \in Nat /\ \E a, c \in Lights : Light!Brightness(a) <= b /\ b <= Light!Brightness(c)

LightInv ==
    /\ abLight.als \in Lights /\ abLight \in [als : Lights, moves : Nat]
    /\ abCurrent = Light!Unset \/ Between(abCurrent)
    /\ abApplied = Light!Unset \/ Between(abApplied)
    /\ abRunning = "yes" <=> abSensor = "active"

\* The mean of what was and what is asked for lies between them.
LEMMA SmoothedBetween ==
    ASSUME LightsAssumption, NEW als \in Lights, abCurrent = Light!Unset \/ Between(abCurrent)
    PROVE  Between(Light!Smoothed(Light!Brightness(als)))
<1> DEFINE target == Light!Brightness(als)
<1>1. \A a \in Lights : Light!Brightness(a) \in Nat
  <2> SUFFICES ASSUME NEW a \in Lights PROVE Light!Brightness(a) \in Nat
    OBVIOUS
  <2>1. a \in 0..Light!MaxLight
    BY DEF LightsAssumption
  <2> QED
    BY <2>1, BrightnessWhole
<1>2. target \in Nat
  BY <1>1
<1> HIDE DEF target
<1>3. CASE abCurrent = Light!Unset
  <2>1. Light!Smoothed(target) = target
    BY <1>3 DEF Light!Smoothed, Light!Unset
  <2>2. target <= target
    BY <1>2
  <2> QED
    BY <1>2, <2>1, <2>2 DEF Between, target
<1>4. CASE Between(abCurrent)
  <2> DEFINE b == (abCurrent + target) \div 2
  <2>1. PICK a \in Lights, c \in Lights :
              Light!Brightness(a) <= abCurrent /\ abCurrent <= Light!Brightness(c)
    BY <1>4 DEF Between
  <2>2. abCurrent \in Nat
    BY <1>4 DEF Between
  <2>3. Light!Smoothed(target) = b
    BY <2>2 DEF Light!Smoothed
  <2>4. b \in Nat
    BY <1>2, <2>2
  <2>5. CASE abCurrent <= target
    <3>1. abCurrent <= b /\ b <= target
      BY <1>2, <2>2, <2>5
    <3> HIDE DEF b
    <3>2. Light!Brightness(a) <= b
      BY <1>1, <2>1, <2>2, <2>4, <3>1
    <3> QED
      BY <2>3, <2>4, <3>1, <3>2 DEF Between, target
  <2>6. CASE ~(abCurrent <= target)
    <3>1. target <= b /\ b <= abCurrent
      BY <1>2, <2>2, <2>6
    <3> HIDE DEF b
    <3>2. b <= Light!Brightness(c)
      BY <1>1, <2>1, <2>2, <2>4, <3>1
    <3> QED
      BY <2>3, <2>4, <3>1, <3>2 DEF Between, target
  <2> QED
    BY <2>5, <2>6
<1> QED
  BY <1>3, <1>4 DEF target

LEMMA LightNext == LightsAssumption /\ LightInv /\ [Light!Next]_(Light!abVars) => LightInv'
<1> SUFFICES ASSUME LightsAssumption, LightInv, [Light!Next]_(Light!abVars) PROVE LightInv'
  OBVIOUS
<1>1. CASE Light!Start
  BY <1>1 DEF Light!Start, LightInv, Between
<1>2. CASE Light!Poll \/ Light!PollUnset
  <2>1. Between(Light!Smoothed(Light!Brightness(abLight.als)))
    BY SmoothedBetween DEF LightInv
  <2>2. /\ abCurrent' = Light!Smoothed(Light!Brightness(abLight.als))
        /\ abApplied' \in {abCurrent', abApplied} /\ UNCHANGED <<abLight, abSensor, abRunning>>
    BY <1>2 DEF Light!Poll, Light!PollUnset
  <2> QED
    BY <2>1, <2>2 DEF LightInv, Between
<1>3. ASSUME NEW a \in Lights, Light!Move(a) PROVE LightInv'
  <2>1. abLight' = [als |-> a, moves |-> abLight.moves + 1] /\ abLight.moves \in Nat
    BY <1>3 DEF Light!Move, LightInv
  <2> QED
    BY <1>3, <2>1 DEF Light!Move, LightInv, Between
<1>4. CASE UNCHANGED Light!abVars
  BY <1>4 DEF Light!abVars, LightInv, Between
<1> QED
  BY <1>1, <1>2, <1>3, <1>4 DEF Light!Next

\* It holds before the first poll, and bounds what is applied.
LEMMA LightInit == Light!Init => LightInv
  BY DEF Light!Init, LightInv

LEMMA LightSafe == LightInv => Light!TypeOK
  BY DEF LightInv, Light!TypeOK, Between

\* However auto_brightness.c smooths and rounds, the back light it sets is never
\* dimmer or brighter than all the light it has seen asks for.
THEOREM LightBounded ==
    ASSUME LightsAssumption
    PROVE  Light!Spec => []Light!TypeOK
  BY LightInit, LightNext, LightSafe, PTL DEF Light!Spec

-----------------------------------------------------------------------------
(* The requests of a connection.                                           *)

Req == [start : Nat, body : Nat]

\* The place after the last byte of a request.
End(k) == rtReqs[k].start + HeadLen + rtReqs[k].body

\* The requests follow one another.
Contiguous ==
    /\ rtReqs \in Seq(Req)
    /\ \A k \in 1..Len(rtReqs) : End(k) <= Framing!Sent
    /\ \A j, k \in 1..Len(rtReqs) : j < k => End(j) <= rtReqs[k].start
    /\ \A k \in 1..Len(rtReqs) : k + 1 \in 1..Len(rtReqs) => rtReqs[k + 1].start = End(k)
    /\ rtReqs # <<>> => Framing!Sent = End(Len(rtReqs))
    /\ Framing!Sent \in Nat

\* What was dispatched lies before the buffer.
Handled ==
    /\ rtHandled \in Seq(Nat)
    /\ \A i \in 1..Len(rtHandled) : rtHandled[i] \in 1..Len(rtReqs) /\ End(rtHandled[i]) <= rtBase
    /\ Framing!InOrder

Buffer == /\ rtCap \in {Initial, Large}
          /\ rtLen \in 0..rtCap /\ rtBase \in Nat
          /\ rtBase + rtLen <= Framing!Sent

FramingInv == Contiguous /\ Buffer /\ Handled /\ Framing!InSync

\* A new connection.
LEMMA FramingInit == SizesAssumption /\ Framing!Init => FramingInv
  BY DEF SizesAssumption, Framing!Init, FramingInv, Contiguous, Buffer, Handled, Framing!Sent, Framing!InOrder,
    Framing!InSync, Req

\* The numbers of a request.
LEMMA Place ==
    ASSUME SizesAssumption, Contiguous, NEW k \in 1..Len(rtReqs)
    PROVE  /\ rtReqs[k].start \in Nat /\ rtReqs[k].body \in Nat
           /\ HeadLen \in Nat /\ HeadLen >= 1
           /\ End(k) \in Nat /\ End(k) = rtReqs[k].start + HeadLen + rtReqs[k].body
           /\ End(k) <= Framing!Sent /\ Framing!Sent \in Nat
           /\ Framing!HeaderEnd(k) = rtReqs[k].start + HeadLen
<1>1. rtReqs[k] \in Req
  BY DEF Contiguous
<1>2. rtReqs[k].start \in Nat /\ rtReqs[k].body \in Nat
  BY <1>1 DEF Req
<1>3. HeadLen \in Nat /\ HeadLen >= 1
  BY DEF SizesAssumption
<1> QED
  BY <1>2, <1>3 DEF End, Contiguous, Framing!HeaderEnd

\* A header is never empty, and it is within its request.
LEMMA HeaderFirst ==
    ASSUME NEW a \in Nat, NEW b \in Nat, NEW h \in Nat, h >= 1
    PROVE  a + h \in Nat /\ a < a + h /\ a + h <= a + h + b /\ a < a + h + b
  OBVIOUS

LEMMA StartsBefore ==
    ASSUME SizesAssumption, Contiguous, NEW k \in 1..Len(rtReqs)
    PROVE  /\ Framing!HeaderEnd(k) \in Nat
           /\ rtReqs[k].start < Framing!HeaderEnd(k) /\ Framing!HeaderEnd(k) <= End(k)
           /\ rtReqs[k].start < End(k)
<1> DEFINE a == rtReqs[k].start
           b == rtReqs[k].body
<1>1. /\ a \in Nat /\ b \in Nat /\ HeadLen \in Nat /\ HeadLen >= 1
      /\ Framing!HeaderEnd(k) = a + HeadLen /\ End(k) = a + HeadLen + b
  BY Place
<1> HIDE DEF a, b
<1>2. /\ a + HeadLen \in Nat /\ a < a + HeadLen
      /\ a + HeadLen <= a + HeadLen + b /\ a < a + HeadLen + b
  BY <1>1, HeaderFirst
<1>3. /\ Framing!HeaderEnd(k) \in Nat /\ a < Framing!HeaderEnd(k)
      /\ Framing!HeaderEnd(k) <= End(k) /\ a < End(k)
  BY <1>1, <1>2
<1> QED
  BY <1>3 DEF a

\* A request that was dispatched is one of the client's.
LEMMA HandledFew ==
    ASSUME Contiguous, Handled, \A i \in 1..Len(rtHandled) : rtHandled[i] = i
    PROVE  Len(rtHandled) \in 0..Len(rtReqs)
  BY DEF Contiguous, Handled

\* A new request begins where the last one ends.
LEMMA RequestKeeps ==
    ASSUME SizesAssumption, FramingInv, NEW body \in Bodies, Framing!Request(body)
    PROVE  FramingInv'
<1>0. PICK n \in Nat : n = Len(rtReqs)
  BY DEF FramingInv, Contiguous
<1> DEFINE request == [start |-> Framing!Sent, body |-> body]
<1>1. /\ rtReqs' = Append(rtReqs, request) /\ request \in Req
      /\ UNCHANGED <<rtAt, rtBase, rtLen, rtCap, rtHandled>>
  BY DEF Framing!Request, FramingInv, Contiguous, SizesAssumption, Req
<1>2. n \in Nat /\ rtReqs' \in Seq(Req) /\ Len(rtReqs') = n + 1
      /\ rtReqs'[n + 1] = request /\ \A k \in 1..n : rtReqs'[k] = rtReqs[k]
  BY <1>0, <1>1 DEF FramingInv, Contiguous
<1>3. /\ \A k \in 1..n : End(k)' = End(k) /\ End(k) \in Nat
      /\ End(n + 1)' = Framing!Sent + HeadLen + body
      /\ Framing!Sent' = End(n + 1)'
  <2>1. \A k \in 1..n : rtReqs[k] \in Req
    BY <1>0 DEF FramingInv, Contiguous
  <2>2. rtReqs' # <<>>
    BY <1>0, <1>2
  <2>3. \A k \in 1..n : End(k)' = End(k) /\ End(k) \in Nat
    <3> SUFFICES ASSUME NEW k \in 1..n PROVE End(k)' = End(k) /\ End(k) \in Nat
      OBVIOUS
    <3>1. rtReqs'[k] = rtReqs[k]
      BY <1>0, <1>2
    <3>2. End(k)' = End(k)
      BY <3>1 DEF End
    <3> QED
      BY <1>0, <3>2, Place DEF FramingInv
  <2>4. End(n + 1)' = Framing!Sent + HeadLen + body
    <3>1. rtReqs'[n + 1].start = Framing!Sent /\ rtReqs'[n + 1].body = body
      BY <1>0, <1>2
    <3> QED
      BY <3>1 DEF End
  <2>5. Framing!Sent' = End(n + 1)'
    BY <1>0, <1>2, <2>2 DEF End, Framing!Sent
  <2> QED
    BY <2>3, <2>4, <2>5
<1>4. Framing!Sent \in Nat /\ body \in Nat /\ HeadLen \in Nat \ {0} /\ Framing!Sent <= Framing!Sent'
  BY <1>3 DEF FramingInv, Contiguous, SizesAssumption
<1>5. Contiguous'
  <2>1. \A k \in 1..(n + 1) : End(k)' <= Framing!Sent'
    <3> SUFFICES ASSUME NEW k \in 1..(n + 1) PROVE End(k)' <= Framing!Sent'
      OBVIOUS
    <3>1. CASE k = n + 1
      BY <1>0, <1>2, <1>3, <1>4, <3>1
    <3>2. CASE k # n + 1
      <4>1. k \in 1..n
        BY <1>0, <1>2, <3>2
      <4>2. End(k) <= Framing!Sent /\ End(k) \in Nat /\ End(k)' = End(k)
        BY <1>0, <4>1, <1>3 DEF FramingInv, Contiguous
      <4> QED
        BY <4>2, <1>3, <1>4
    <3> QED
      BY <3>1, <3>2
  <2>2. \A j, k \in 1..(n + 1) : j < k => End(j)' <= rtReqs'[k].start
    <3> SUFFICES ASSUME NEW j \in 1..(n + 1), NEW k \in 1..(n + 1), j < k
                 PROVE  End(j)' <= rtReqs'[k].start
      OBVIOUS
    <3>1. CASE k = n + 1
      BY <1>0, <1>2, <1>3, <1>4, <3>1 DEF FramingInv, Contiguous
    <3>2. CASE k # n + 1
      BY <1>0, <1>2, <1>3, <3>2 DEF FramingInv, Contiguous
    <3> QED
      BY <3>1, <3>2
  <2>3. \A k \in 1..(n + 1) : k + 1 \in 1..(n + 1) => rtReqs'[k + 1].start = End(k)'
    <3> SUFFICES ASSUME NEW k \in 1..(n + 1), k + 1 \in 1..(n + 1)
                 PROVE  rtReqs'[k + 1].start = End(k)'
      OBVIOUS
    <3>1. CASE k = n
      <4>1. rtReqs # <<>>
        BY <1>0, <1>2, <3>1
      <4>2. Framing!Sent = End(n)
        BY <1>0, <4>1 DEF FramingInv, Contiguous
      <4> QED
        BY <1>0, <1>2, <1>3, <3>1, <4>2
    <3>2. CASE k # n
      <4>1. k \in 1..n /\ k + 1 \in 1..n
        BY <1>0, <1>2, <3>2
      <4> QED
        BY <1>0, <1>2, <1>3, <4>1 DEF FramingInv, Contiguous
    <3> QED
      BY <3>1, <3>2
  <2>4. Framing!Sent' \in Nat /\ Framing!Sent' = End(Len(rtReqs))'
    BY <1>0, <1>2, <1>3, <1>4
  <2> QED
    BY <1>0, <1>2, <2>1, <2>2, <2>3, <2>4 DEF Contiguous
<1>6. Buffer'
  BY <1>0, <1>1, <1>3, <1>4 DEF FramingInv, Buffer, SizesAssumption
<1>7. Handled'
  BY <1>0, <1>1, <1>2, <1>3 DEF FramingInv, Handled, Framing!InOrder
<1>8. Framing!InSync'
  <2> SUFFICES ASSUME ~AllocFails, \A k \in 1..(n + 1) : Framing!Small(k)'
               PROVE  /\ \A i \in 1..Len(rtHandled) : rtHandled[i] = i
                      /\ rtBase = IF Len(rtHandled) = n + 1 THEN Framing!Sent'
                                  ELSE rtReqs'[Len(rtHandled) + 1].start
    BY <1>0, <1>1, <1>2 DEF Framing!InSync
  <2>1. \A k \in 1..n : Framing!Small(k)
    BY <1>0, <1>2 DEF Framing!Small
  <2>2. /\ \A i \in 1..Len(rtHandled) : rtHandled[i] = i
        /\ rtBase = IF Len(rtHandled) = n THEN Framing!Sent ELSE rtReqs[Len(rtHandled) + 1].start
    BY <1>0, <2>1 DEF FramingInv, Framing!InSync
  <2>3. Len(rtHandled) \in 0..n
    BY <1>0, <2>2, HandledFew DEF FramingInv
  <2> QED
    BY <1>0, <1>2, <2>2, <2>3
<1> QED
  BY <1>5, <1>6, <1>7, <1>8 DEF FramingInv

\* What a step needs to know that leaves the requests alone.
LEMMA SameReqs ==
    ASSUME UNCHANGED rtReqs
    PROVE  /\ Contiguous => Contiguous'
           /\ Framing!Sent' = Framing!Sent
           /\ \A k : End(k)' = End(k)
  BY DEF Contiguous, End, Framing!Sent

\* What was dispatched stays before the buffer, since that only moves on.
LEMMA HandledStays ==
    ASSUME SizesAssumption, Contiguous, Handled, UNCHANGED <<rtReqs, rtHandled>>,
           rtBase \in Nat, rtBase' \in Nat, rtBase <= rtBase'
    PROVE  Handled'
<1>1. ASSUME NEW i \in 1..Len(rtHandled)
      PROVE  rtHandled[i] \in 1..Len(rtReqs) /\ End(rtHandled[i])' <= rtBase'
  <2>1. rtHandled[i] \in 1..Len(rtReqs) /\ End(rtHandled[i]) <= rtBase
    BY DEF Handled
  <2>2. End(rtHandled[i]) \in Nat
    BY <2>1, Place
  <2>3. End(rtHandled[i])' = End(rtHandled[i])
    BY DEF End
  <2> QED
    BY <2>1, <2>2, <2>3
<1> QED
  BY <1>1 DEF Handled, Framing!InOrder

\* In the loop that fills the buffer, or when it ends, no request is cut.
LEMMA FillKeeps ==
    ASSUME SizesAssumption, FramingInv,
           Framing!MakeRoom \/ Framing!Receive \/ Framing!NoHeader \/ Framing!Leave
    PROVE  FramingInv'
<1>1. UNCHANGED <<rtReqs, rtBase, rtHandled>>
  BY DEF Framing!MakeRoom, Framing!Receive, Framing!NoHeader, Framing!Leave
<1>2. Contiguous' /\ Handled' /\ Framing!InSync'
  BY <1>1, SameReqs DEF FramingInv, Handled, Framing!InOrder, Framing!InSync, Framing!Small, Framing!Sent
<1>3. Buffer'
  <2>1. CASE Framing!MakeRoom
    BY <1>1, <2>1, SameReqs DEF Framing!MakeRoom, Framing!Grow, FramingInv, Buffer, SizesAssumption
  <2>2. CASE Framing!Receive
    BY <1>1, <2>2, SameReqs DEF Framing!Receive, FramingInv, Buffer, SizesAssumption
  <2>3. CASE Framing!NoHeader \/ Framing!Leave
    BY <1>1, <2>3, SameReqs DEF Framing!NoHeader, Framing!Leave, FramingInv, Buffer
  <2> QED
    BY <2>1, <2>2, <2>3
<1> QED
  BY <1>2, <1>3 DEF FramingInv

\* When nothing was lost, the first header in the buffer is that of the next
\* request.
LEMMA NextInBuffer ==
    ASSUME SizesAssumption, FramingInv, NEW k \in 1..Len(rtReqs), Framing!First(k),
           \A i \in 1..Len(rtHandled) : rtHandled[i] = i,
           rtBase = IF Len(rtHandled) = Len(rtReqs) THEN Framing!Sent
                    ELSE rtReqs[Len(rtHandled) + 1].start
    PROVE  k = Len(rtHandled) + 1 /\ rtBase = rtReqs[k].start
<1> DEFINE m == Len(rtHandled) + 1
<1>1. m \in 1..(Len(rtReqs) + 1)
  <2>1. Len(rtHandled) \in 0..Len(rtReqs)
    BY HandledFew DEF FramingInv
  <2>2. Len(rtReqs) \in Nat
    BY DEF FramingInv, Contiguous
  <2> QED
    BY <2>1, <2>2
<1>2. \A j \in 1..Len(rtReqs) :
         /\ rtReqs[j].start \in Nat /\ rtReqs[j].body \in Nat
         /\ Framing!HeaderEnd(j) = rtReqs[j].start + HeadLen
         /\ Framing!HeaderEnd(j) \in Nat /\ End(j) \in Nat
         /\ rtReqs[j].start < Framing!HeaderEnd(j) /\ Framing!HeaderEnd(j) <= End(j)
         /\ End(j) <= Framing!Sent /\ Framing!Sent \in Nat
  <2> SUFFICES ASSUME NEW j \in 1..Len(rtReqs)
               PROVE  /\ rtReqs[j].start \in Nat /\ rtReqs[j].body \in Nat
                      /\ Framing!HeaderEnd(j) = rtReqs[j].start + HeadLen
                      /\ Framing!HeaderEnd(j) \in Nat /\ End(j) \in Nat
                      /\ rtReqs[j].start < Framing!HeaderEnd(j) /\ Framing!HeaderEnd(j) <= End(j)
                      /\ End(j) <= Framing!Sent /\ Framing!Sent \in Nat
    OBVIOUS
  <2>1. /\ rtReqs[j].start \in Nat /\ rtReqs[j].body \in Nat
        /\ HeadLen \in Nat /\ HeadLen >= 1
        /\ End(j) \in Nat /\ End(j) = rtReqs[j].start + HeadLen + rtReqs[j].body
        /\ End(j) <= Framing!Sent /\ Framing!Sent \in Nat
        /\ Framing!HeaderEnd(j) = rtReqs[j].start + HeadLen
    BY Place DEF FramingInv
  <2>2. /\ Framing!HeaderEnd(j) \in Nat /\ rtReqs[j].start < Framing!HeaderEnd(j)
        /\ Framing!HeaderEnd(j) <= End(j)
    BY StartsBefore DEF FramingInv
  <2> QED
    BY <2>1, <2>2
<1>3. /\ rtBase <= Framing!HeaderEnd(k) - 1
      /\ Framing!HeaderEnd(k) - 1 <= rtBase + rtLen - 1
  BY <1>2 DEF Framing!First, Framing!InBuffer, FramingInv, Buffer, SizesAssumption
<1>4. m # Len(rtReqs) + 1
  <2> SUFFICES ASSUME m = Len(rtReqs) + 1 PROVE FALSE
    OBVIOUS
  <2>1. Len(rtHandled) = Len(rtReqs)
    BY <1>1 DEF FramingInv, Handled, Contiguous
  <2>2. rtBase = Framing!Sent
    BY <2>1
  <2> QED
    BY <1>2, <1>3, <2>2
<1>5. m \in 1..Len(rtReqs) /\ rtBase = rtReqs[m].start
  BY <1>1, <1>4
<1>6. ~(k < m)
  <2> SUFFICES ASSUME k < m PROVE FALSE
    OBVIOUS
  <2>1. End(k) <= rtReqs[m].start
    BY <1>5 DEF FramingInv, Contiguous
  <2> QED
    BY <1>2, <1>3, <1>5, <2>1
<1>7. ~(m < k)
  <2> SUFFICES ASSUME m < k PROVE FALSE
    OBVIOUS
  <2>1. End(m) <= rtReqs[k].start
    BY <1>5 DEF FramingInv, Contiguous
  <2>2. Framing!HeaderEnd(m) - 1 \in rtBase..(rtBase + rtLen - 1)
    <3>1. rtLen \in Nat /\ rtBase \in Nat
      BY DEF FramingInv, Buffer, SizesAssumption
    <3>2. rtBase <= Framing!HeaderEnd(m) - 1
      BY <1>2, <1>5
    <3>3. Framing!HeaderEnd(m) <= Framing!HeaderEnd(k)
      BY <1>2, <1>5, <2>1
    <3> QED
      BY <1>2, <1>3, <1>5, <3>1, <3>2, <3>3
  <2> QED
    BY <1>5, <2>2 DEF Framing!First, Framing!InBuffer
<1> QED
  BY <1>5, <1>6, <1>7

\* A message that is dispatched, thrown away, or not all there.
LEMMA MessageKeeps ==
    ASSUME SizesAssumption, FramingInv, Framing!Message
    PROVE  FramingInv'
<1>1. PICK k \in 1..Len(rtReqs) : Framing!First(k) /\ \E body \in Framing!ContentLength(k) :
           \/ Framing!Dispatch(k, body)
           \/ /\ Framing!Total(k, body) > Large \/ AllocFails
              /\ Framing!Drop
              /\ UNCHANGED rtHandled
           \/ UNCHANGED <<rtBase, rtLen, rtHandled>>
  BY DEF Framing!Message
<1>2. PICK body \in Framing!ContentLength(k) :
           \/ Framing!Dispatch(k, body)
           \/ /\ Framing!Total(k, body) > Large \/ AllocFails
              /\ Framing!Drop
              /\ UNCHANGED rtHandled
           \/ UNCHANGED <<rtBase, rtLen, rtHandled>>
  BY <1>1
<1>3. UNCHANGED <<rtReqs, rtCap>>
  BY DEF Framing!Message
<1>4. Contiguous' /\ Framing!Sent' = Framing!Sent /\ \A j : End(j)' = End(j)
  BY <1>3, SameReqs DEF FramingInv
<1>5. /\ rtReqs[k].start \in Nat /\ rtReqs[k].body \in Nat /\ body \in Nat
      /\ rtBase <= rtReqs[k].start => body = rtReqs[k].body
  <2>1. rtReqs[k] \in Req
    BY DEF FramingInv, Contiguous
  <2> QED
    BY <1>2, <2>1 DEF Req, Framing!ContentLength, FramingInv, Buffer
<1> DEFINE total == Framing!Total(k, body)
<1>6. total \in Nat /\ total > 0
      /\ rtBase + total = rtReqs[k].start + HeadLen + body
      /\ rtBase \in Nat /\ rtLen \in Nat /\ HeadLen \in Nat
  <2>1. Framing!HeaderEnd(k) = rtReqs[k].start + HeadLen /\ HeadLen \in Nat
    BY Place DEF FramingInv
  <2>2. Framing!HeaderEnd(k) - 1 >= rtBase /\ rtBase \in Nat /\ rtLen \in Nat
    BY <1>1, <1>5, <2>1 DEF Framing!First, Framing!InBuffer, FramingInv, Buffer, SizesAssumption
  <2> QED
    BY <1>5, <2>1, <2>2 DEF Framing!Total
<1> HIDE DEF total
<1>7. ASSUME ~AllocFails, \A j \in 1..Len(rtReqs) : Framing!Small(j)
      PROVE  /\ k = Len(rtHandled) + 1 /\ rtBase = rtReqs[k].start
             /\ \A i \in 1..Len(rtHandled) : rtHandled[i] = i
             /\ total <= Large
  <2>1. /\ \A i \in 1..Len(rtHandled) : rtHandled[i] = i
        /\ rtBase = IF Len(rtHandled) = Len(rtReqs) THEN Framing!Sent
                    ELSE rtReqs[Len(rtHandled) + 1].start
    BY <1>7 DEF FramingInv, Framing!InSync
  <2>2. k = Len(rtHandled) + 1 /\ rtBase = rtReqs[k].start
    BY <1>1, <2>1, NextInBuffer
  <2>3. HeadLen + rtReqs[k].body <= Large - Slack
    BY <1>7 DEF Framing!Small
  <2> QED
    <3>1. body = rtReqs[k].body
      BY <1>5, <2>2
    <3>2. total = HeadLen + body
      BY <1>5, <1>6, <2>2 DEF SizesAssumption
    <3> QED
      BY <1>5, <2>1, <2>2, <2>3, <3>1, <3>2 DEF SizesAssumption
<1>8. CASE UNCHANGED <<rtBase, rtLen, rtHandled>>
  BY <1>3, <1>4, <1>8 DEF FramingInv, Buffer, Handled, Framing!InOrder, Framing!InSync, Framing!Small, End
<1>9. CASE /\ total > Large \/ AllocFails
           /\ Framing!Drop
           /\ UNCHANGED rtHandled
  <2>1. rtLen' = 0 /\ rtBase' = rtBase + rtLen /\ rtHandled' = rtHandled
    BY <1>9 DEF Framing!Drop
  <2>2. Buffer'
    BY <1>3, <1>4, <2>1 DEF FramingInv, Buffer, SizesAssumption
  <2>3. Handled'
    <3>1. rtBase' \in Nat /\ rtBase <= rtBase'
      BY <1>6, <2>1
    <3> QED
      BY <1>3, <1>6, <2>1, <3>1, HandledStays DEF FramingInv
  <2>4. Framing!InSync'
    <3> SUFFICES ASSUME ~AllocFails, \A j \in 1..Len(rtReqs) : Framing!Small(j) PROVE FALSE
      BY <1>3 DEF Framing!InSync, Framing!Small
    <3> QED
      BY <1>5, <1>6, <1>7, <1>9 DEF SizesAssumption
  <2> QED
    BY <1>4, <2>2, <2>3, <2>4 DEF FramingInv
<1>10. CASE Framing!Dispatch(k, body)
  <2>1. /\ total <= Large /\ rtLen >= total
        /\ rtBase' = rtBase + total /\ rtLen' = rtLen - total
        /\ rtHandled' = IF rtBase = rtReqs[k].start THEN Append(rtHandled, k) ELSE rtHandled
    BY <1>10 DEF Framing!Dispatch, total
  <2>2. Buffer'
    <3>1. rtCap \in Nat /\ rtLen <= rtCap /\ rtBase + rtLen <= Framing!Sent /\ rtCap \in {Initial, Large}
      BY DEF FramingInv, Buffer, SizesAssumption
    <3>2. rtLen' \in Nat /\ rtLen' <= rtCap /\ rtBase' \in Nat /\ rtBase' + rtLen' = rtBase + rtLen
      BY <1>6, <2>1, <3>1
    <3> QED
      BY <1>3, <1>4, <3>1, <3>2 DEF Buffer
  <2>3. CASE rtBase # rtReqs[k].start
    <3>1. rtHandled' = rtHandled
      BY <2>1, <2>3
    <3>2. Handled'
      <4>1. rtBase' \in Nat /\ rtBase <= rtBase'
        BY <1>6, <2>1
      <4> QED
        BY <1>3, <1>6, <3>1, <4>1, HandledStays DEF FramingInv
    <3>3. Framing!InSync'
      <4> SUFFICES ASSUME ~AllocFails, \A j \in 1..Len(rtReqs) : Framing!Small(j) PROVE FALSE
        BY <1>3 DEF Framing!InSync, Framing!Small
      <4> QED
        BY <1>7, <2>3
    <3> QED
      BY <1>4, <2>2, <3>2, <3>3 DEF FramingInv
  <2>4. CASE rtBase = rtReqs[k].start
    <3> DEFINE n == Len(rtHandled)
    <3>1. /\ rtHandled' = Append(rtHandled, k) /\ n \in Nat /\ Len(rtHandled') = n + 1
          /\ rtHandled' \in Seq(Nat) /\ rtHandled'[n + 1] = k
          /\ \A i \in 1..n : rtHandled'[i] = rtHandled[i]
      BY <2>1, <2>4 DEF FramingInv, Handled
    <3>2. body = rtReqs[k].body /\ rtBase' = End(k)
      <4>1. body = rtReqs[k].body
        BY <1>5, <2>4
      <4>2. rtBase' = rtReqs[k].start + HeadLen + body
        BY <1>6, <2>1
      <4> QED
        BY <4>1, <4>2 DEF End
    <3>3. \A i \in 1..n : rtHandled[i] \in 1..Len(rtReqs) /\ End(rtHandled[i]) <= rtBase
      BY DEF FramingInv, Handled
    <3>4. \A i \in 1..n : rtHandled[i] < k
      <4> SUFFICES ASSUME NEW i \in 1..n, k <= rtHandled[i] PROVE FALSE
        BY <3>3
      <4> DEFINE h == rtHandled[i]
      <4>1. h \in 1..Len(rtReqs) /\ End(h) <= rtReqs[k].start
        BY <2>4, <3>3
      <4>2. /\ rtReqs[h].start \in Nat /\ rtReqs[h].body \in Nat /\ HeadLen \in Nat /\ HeadLen >= 1
            /\ End(h) \in Nat /\ End(h) = rtReqs[h].start + HeadLen + rtReqs[h].body
        BY <4>1, Place DEF FramingInv
      <4>3. CASE h = k
        BY <4>1, <4>2, <4>3
      <4>4. CASE k < h
        <5>1. End(k) <= rtReqs[h].start
          BY <4>1, <4>4 DEF FramingInv, Contiguous
        <5>2. /\ rtReqs[k].start \in Nat /\ rtReqs[k].body \in Nat
              /\ End(k) \in Nat /\ End(k) = rtReqs[k].start + HeadLen + rtReqs[k].body
          BY Place DEF FramingInv
        <5>3. rtReqs[k].start < End(k)
          BY StartsBefore DEF FramingInv
        <5>4. rtReqs[h].start < End(h)
          BY <4>1, StartsBefore DEF FramingInv
        <5> HIDE DEF h
        <5> QED
          BY <5>1, <5>2, <5>3, <5>4, <4>1, <4>2
      <4> QED
        BY <4>1, <4>3, <4>4
    <3>5. rtBase' >= rtBase
      BY <1>6, <2>1 DEF FramingInv, Buffer
    <3>6. Framing!InOrder'
      BY <3>1, <3>3, <3>4 DEF Framing!InOrder, FramingInv, Handled
    <3>7. \A i \in 1..(n + 1) : rtHandled'[i] \in 1..Len(rtReqs) /\ End(rtHandled'[i]) <= rtBase'
      <4> SUFFICES ASSUME NEW i \in 1..(n + 1)
                   PROVE  rtHandled'[i] \in 1..Len(rtReqs) /\ End(rtHandled'[i]) <= rtBase'
        OBVIOUS
      <4>1. CASE i = n + 1
        <5>1. rtBase' \in Nat
          BY <2>2 DEF Buffer
        <5> QED
          BY <3>1, <3>2, <4>1, <5>1
      <4>2. CASE i # n + 1
        <5> DEFINE h == rtHandled[i]
        <5>1. i \in 1..n /\ rtHandled'[i] = h /\ h \in 1..Len(rtReqs) /\ End(h) <= rtBase
          BY <3>1, <3>3, <4>2
        <5>2. End(h) \in Nat
          BY <5>1, Place DEF FramingInv
        <5>3. End(h) \in Nat /\ rtBase \in Nat /\ rtBase' \in Nat
          BY <1>6, <2>2, <5>2 DEF Buffer
        <5> QED
          BY <3>5, <5>1, <5>3
      <4> QED
        BY <4>1, <4>2
    <3>8. Handled'
      BY <1>3, <1>4, <3>1, <3>6, <3>7 DEF Handled
    <3>9. Framing!InSync'
      <4> SUFFICES ASSUME ~AllocFails, \A j \in 1..Len(rtReqs) : Framing!Small(j)
                   PROVE  /\ \A i \in 1..(n + 1) : rtHandled'[i] = i
                          /\ rtBase' = IF n + 1 = Len(rtReqs) THEN Framing!Sent
                                       ELSE rtReqs[n + 2].start
        BY <1>3, <1>4, <3>1 DEF Framing!InSync, Framing!Small
      <4>1. k = n + 1 /\ \A i \in 1..n : rtHandled[i] = i
        BY <1>7
      <4>2. rtReqs # <<>> /\ Len(rtReqs) \in Nat
        BY DEF FramingInv, Contiguous
      <4>3. IF k = Len(rtReqs) THEN End(k) = Framing!Sent ELSE rtReqs[k + 1].start = End(k)
        BY <4>2 DEF FramingInv, Contiguous
      <4> QED
        BY <3>1, <3>2, <4>1, <4>3
    <3> QED
      BY <1>4, <2>2, <3>8, <3>9 DEF FramingInv
  <2> QED
    BY <2>3, <2>4
<1> QED
  BY <1>2, <1>8, <1>9, <1>10 DEF total

\* Every step of the receive loop keeps the bytes in their order.
LEMMA FramingNext == SizesAssumption /\ FramingInv /\ [Framing!Next]_(Framing!rtVars) => FramingInv'
<1> SUFFICES ASSUME SizesAssumption, FramingInv, [Framing!Next]_(Framing!rtVars) PROVE FramingInv'
  OBVIOUS
<1>1. CASE UNCHANGED Framing!rtVars
  BY <1>1 DEF Framing!rtVars, FramingInv, Contiguous, Buffer, Handled, End, Framing!Sent, Framing!InOrder,
    Framing!InSync, Framing!Small
<1> QED
  BY <1>1, RequestKeeps, FillKeeps, MessageKeeps DEF Framing!Next, Framing!Serve

\* What it says about every state of the buffer.
LEMMA FramingSafe == FramingInv => Framing!TypeOK /\ Framing!InOrder /\ Framing!InSync
  BY DEF FramingInv, Buffer, Handled, Framing!TypeOK

\* What rtsp_server.c keeps, for every size of the buffer and of the bodies: no
\* request is dispatched twice or before one sent earlier, and while there is
\* memory and the requests are small, the buffer begins at a request and all
\* those before it were dispatched.
THEOREM RequestsFramed ==
    ASSUME SizesAssumption
    PROVE  Framing!Spec => [](Framing!TypeOK /\ Framing!InOrder /\ Framing!InSync)
  BY FramingInit, FramingNext, FramingSafe, PTL DEF Framing!Spec

-----------------------------------------------------------------------------
(* The device.  A behaviour is that of the part that was chosen, and the   *)
(* invariant that of each part.                                            *)

DeviceInv ==
    /\ Does("ring") => RingInv
    /\ Does("reply") => ReplyInv /\ OrderInv
    /\ Does("upload") => UploadInv
    /\ Does("boot") => BootInv
    /\ Does("wifi") => WifiInv
    /\ Does("shown") => ShownInv
    /\ Does("sensors") => SensorsInv
    /\ Does("reminder") => Reminder!TypeOK
    /\ Does("framing") => FramingInv
    /\ Does("screen") => ScreenInv
    /\ Does("light") => LightInv

\* The part that was chosen stays the same and takes a step of its own, or none.
LEMMA PartSteps ==
    ASSUME [DeviceNext]_deviceVars
    PROVE  /\ job' = job
           /\ Does("ring") => [Next]_vars
           /\ Does("reply") => [Reply!Next]_(Reply!sseVars)
           /\ Does("upload") => [Upload!Next]_(Upload!reqVars)
           /\ Does("boot") => [Boot!Next]_(Boot!pvVars)
           /\ Does("wifi") => [Wifi!Next]_(Wifi!wifiVars)
           /\ Does("shown") => [Shown!Next]_(Shown!devVars)
           /\ Does("sensors") => [Sensors!Next]_(Sensors!sensorVars)
           /\ Does("reminder") => [Reminder!Next]_(Reminder!remVars)
           /\ Does("framing") => [Framing!Next]_(Framing!rtVars)
           /\ Does("screen") => [Screen!Next]_(Screen!uiVars)
           /\ Does("light") => [Light!Next]_(Light!abVars)
<1>1. CASE DeviceNext
  BY <1>1 DEF DeviceNext
<1>2. CASE UNCHANGED deviceVars
  BY <1>2 DEF deviceVars, vars, replyVars, uploadVars, bootVars, wifiVars, shownVars, sensorVars,
    reminderVars, framingVars, screenVars, lightVars, Reply!sseVars, Upload!reqVars, Boot!pvVars,
    Wifi!wifiVars, Shown!devVars, Sensors!sensorVars, Reminder!remVars, Framing!rtVars,
    Screen!uiVars, Light!abVars
<1> QED
  BY <1>1, <1>2

\* The part that was chosen starts as its module says.
LEMMA DeviceStarts == DeviceInit => DeviceInv
<1> SUFFICES ASSUME DeviceInit PROVE DeviceInv
  OBVIOUS
<1>1. Init /\ (Does("reply") => Reply!Init) /\ (Does("upload") => Upload!Init)
      /\ (Does("boot") => Boot!Init) /\ (Does("wifi") => Wifi!Init) /\ (Does("shown") => Shown!Init)
      /\ (Does("sensors") => Sensors!Init) /\ (Does("reminder") => Reminder!Init)
      /\ (Does("framing") => Framing!Init) /\ (Does("screen") => Screen!Init)
      /\ (Does("light") => Light!Init)
  BY DEF DeviceInit
<1>2. /\ Does("ring") => RingInv
      /\ Does("reply") => ReplyInv /\ OrderInv
      /\ Does("upload") => UploadInv
      /\ Does("boot") => BootInv
      /\ Does("wifi") => WifiInv
  BY <1>1, DeviceAssumption, InitRing, ReplyInit, OrderInit, UploadInit, BootInit, WifiInit
<1>3. /\ Does("shown") => ShownInv
      /\ Does("sensors") => SensorsInv
      /\ Does("reminder") => Reminder!TypeOK
      /\ Does("framing") => FramingInv
      /\ Does("screen") => ScreenInv
      /\ Does("light") => LightInv
  BY <1>1, DeviceAssumption, ShownInit, SensorsInit, ReminderInit, FramingInit, ScreenInit, LightInit
<1> QED
  BY <1>2, <1>3 DEF DeviceInv

\* Every step keeps the invariant of the part that takes it.
LEMMA DeviceKeeps == DeviceInv /\ [DeviceNext]_deviceVars => DeviceInv'
<1> SUFFICES ASSUME DeviceInv, [DeviceNext]_deviceVars PROVE DeviceInv'
  OBVIOUS
<1> USE PartSteps, DeviceAssumption DEF DeviceInv
<1>1. Does("ring") => RingInv'
  BY NextRing
<1>2. Does("reply") => ReplyInv' /\ OrderInv'
  BY ReplyNext, OrderNext
<1>3. Does("upload") => UploadInv'
  BY UploadNext
<1>4. Does("boot") => BootInv'
  BY BootNext
<1>5. Does("wifi") => WifiInv'
  BY WifiNext
<1>6. Does("shown") => ShownInv'
  BY ShownNext
<1>7. Does("sensors") => SensorsInv'
  BY SensorsNext
<1>8. Does("reminder") => Reminder!TypeOK'
  BY ReminderNext
<1>9. Does("framing") => FramingInv'
  BY FramingNext
<1>10. Does("screen") => ScreenInv'
  BY ScreenNext
<1>11. Does("light") => LightInv'
  BY LightNext
<1> QED
  BY <1>1, <1>2, <1>3, <1>4, <1>5, <1>6, <1>7, <1>8, <1>9, <1>10, <1>11 DEF Does

LEMMA DeviceInvariant == DeviceSpec => []DeviceInv
  BY DeviceStarts, DeviceKeeps, PTL DEF DeviceSpec

\* omni_client.c, settings.c and main.c: whatever the cloud answers and however the
\* stream is cut, wherever a request fails and whatever firmwares are flashed over
\* each other, the reply is in order, an error is not played, the client can be
\* used again, and the voice has the key it should have.
THEOREM CloudSound == DeviceSpec => []CloudSafe
<1>1. DeviceInv => CloudSafe
  BY ReplySafe, OrderSafe, UploadSafe, BootSafe DEF DeviceInv, CloudSafe
<1> QED
  BY <1>1, DeviceInvariant, PTL

\* wifi.c, receiver_state.c, env_monitor.c, rtsp_server.c, screen_ui.c and
\* auto_brightness.c: the station goes on trying, no session is both established
\* and streaming, no device is left on a bus, no request is dispatched twice, the
\* face fits the voice and the back light the light.
THEOREM DeviceSound == DeviceSpec => []DeviceSafe
<1>1. DeviceInv => DeviceSafe
  BY DeviceAssumption, ShownSafe, SensorsSafe, FramingSafe, ScreenSafe, LightSafe
    DEF DeviceInv, DeviceSafe, RingInv, WifiInv
<1> QED
  BY <1>1, DeviceInvariant, PTL

\* A reminder that env_monitor.c puts off is not forgotten, and an issue is spoken
\* of again within its pause only in one that was put off.
THEOREM RemindersSound == DeviceSpec => RemindersKept
<1>1. DeviceInv /\ [DeviceNext]_deviceVars =>
          [Does("reminder") => Reminder!ForgetsNone /\ Reminder!RepeatsDeferred]_deviceVars
  <2> SUFFICES ASSUME DeviceInv, DeviceNext, Does("reminder")
               PROVE  (Reminder!ForgetsNone /\ Reminder!RepeatsDeferred) \/ UNCHANGED deviceVars
    OBVIOUS
  <2>1. Reminder!Next
    BY DEF DeviceNext, Does
  <2> QED
    BY <2>1, ReminderSteps, DeviceAssumption DEF DeviceInv
<1> QED
  BY <1>1, DeviceInvariant, PTL DEF DeviceSpec, RemindersKept

=============================================================================
