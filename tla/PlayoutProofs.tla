---------------------------- MODULE PlayoutProofs ----------------------------
(***************************************************************************)
(* audio_timing_read returns every slot it takes and waits only so long    *)
(* for a frame that is too early: proofs for every size of the buffer,     *)
(* every limit of the gates and every behaviour of the sender's anchors.   *)
(***************************************************************************)
EXTENDS Playout, FiniteSetTheorems, FunctionTheorems, WellFoundedInduction, TLAPS

-----------------------------------------------------------------------------
(* The buffer as a finite set of numbers.                                  *)

\* A finite set of numbers has a smallest one, and Min is it.
LEMMA Smallest ==
    ASSUME NEW S, S \subseteq Int, IsFiniteSet(S), S # {}
    PROVE  Min(S) \in S /\ \A x \in S : Min(S) <= x
<1> DEFINE below(x) == {y \in S : y < x}
           T == {below(x) : x \in S}
           R == StrictSubsetOrdering(S)
<1>1. IsWellFoundedOn(R, FiniteSubsetsOf(S))
  BY FS_StrictSubsetOrderingWellFounded
<1>2. T \subseteq FiniteSubsetsOf(S) /\ T # {}
  <2>1. \A x \in S : below(x) \in SUBSET S
    OBVIOUS
  <2> HIDE DEF below
  <2>2. \A x \in S : IsFiniteSet(below(x))
    BY <2>1, FS_Subset
  <2> QED
    BY <2>1, <2>2 DEF FiniteSubsetsOf
<1> HIDE DEF T, R
<1>3. \E u \in T : \A v \in T : <<v, u>> \notin R
  BY <1>1, <1>2, WFMin, Zenon
<1>4. PICK x \in S : \A v \in T : <<v, below(x)>> \notin R
  BY <1>3 DEF T
<1>5. ASSUME NEW y \in S, y < x PROVE FALSE
  <2>1. x \in Int /\ y \in Int /\ \A z \in S : z \in Int
    OBVIOUS
  <2>2. below(y) \subseteq below(x)
    <3>1. \A z \in S : z < y => z < x
      BY <1>5, <2>1
    <3> QED
      BY <3>1
  <2>3. y \in below(x) /\ y \notin below(y)
    BY <1>5, <2>1
  <2>4. <<below(y), below(x)>> \in R
    BY <2>2, <2>3 DEF R, StrictSubsetOrdering
  <2>5. below(y) \in T
    BY DEF T
  <2> QED
    BY <1>4, <2>4, <2>5
<1>6. \A y \in S : x <= y
  BY <1>5
<1> QED
  BY <1>6 DEF Min

\* The timestamps a frame can have.
Place == (Floor - Cap)..-1

\* There are finitely many places for a frame, and one just behind the sender.
LEMMA PlaceFinite == Place \subseteq Int /\ IsFiniteSet(Place) /\ -1 \in Place
<1>1. Floor - Cap \in Int /\ Floor - Cap <= -1
  BY BufferAssumption, RangeAssumption
<1> HIDE DEF Place
<1>2. Place \subseteq Int /\ -1 \in Place
  BY <1>1 DEF Place
<1>3. IsFiniteSet(Place)
  BY <1>1, FS_Interval DEF Place
<1> QED
  BY <1>2, <1>3

\* Some frames of the buffer, and the oldest of them.
LEMMA Frame ==
    ASSUME NEW S \in SUBSET Place
    PROVE  /\ IsFiniteSet(S) /\ Cardinality(S) \in Nat /\ S \subseteq Int
           /\ S = {} <=> Cardinality(S) = 0
           /\ S # {} => /\ Min(S) \in S
                        /\ Cardinality(S \ {Min(S)}) = Cardinality(S) - 1
<1>1. IsFiniteSet(S) /\ S \subseteq Int
  BY PlaceFinite, FS_Subset
<1>2. Cardinality(S) \in Nat /\ (S = {} <=> Cardinality(S) = 0)
  BY <1>1, FS_CardinalityType, FS_EmptySet
<1>3. S # {} => Min(S) \in S
  BY <1>1, Smallest
<1>4. S # {} => Cardinality(S \ {Min(S)}) = Cardinality(S) - 1
  BY <1>1, <1>3, FS_RemoveElement
<1> QED
  BY <1>1, <1>2, <1>3, <1>4

\* The buffer a frame later: as many frames, none of them the new one.
Shifted == {ts - 1 : ts \in buf}

LEMMA ShiftedSize ==
    ASSUME buf \subseteq Place
    PROVE  /\ IsFiniteSet(Shifted) /\ Cardinality(Shifted) = Cardinality(buf)
           /\ Shifted \subseteq Int /\ -1 \notin Shifted
<1>1. IsFiniteSet(buf) /\ buf \subseteq Int
  BY Frame
<1> DEFINE f == [ts \in buf |-> ts - 1]
<1>2. f \in [buf -> Shifted]
  BY DEF Shifted
<1>3. \A a, b \in buf : f[a] = f[b] => a = b
  BY <1>1
<1>4. \A t \in Shifted : \E s \in buf : f[s] = t
  BY DEF Shifted
<1> HIDE DEF f
<1>5. f \in Bijection(buf, Shifted)
  BY <1>2, <1>3, <1>4, Fun_IsBij
<1>6. IsFiniteSet(Shifted) /\ Cardinality(Shifted) = Cardinality(buf)
  BY <1>1, <1>5, FS_Bijection DEF ExistsBijection
<1>7. Shifted \subseteq Int /\ -1 \notin Shifted
  BY <1>1 DEF Shifted, Place
<1> QED
  BY <1>6, <1>7

-----------------------------------------------------------------------------
(* The invariant.                                                          *)

TimingRec == [playing : BOOLEAN, started : BOOLEAN, ready : Nat \cup {None},
              early : 0..MaxEarly, late : 0..MaxLate]
PostRec == [on : BOOLEAN, begun : BOOLEAN, snap : Int \cup {None}, hits : 0..StaleHits]
AnchorRec == [valid : BOOLEAN, rtp : Int, src : {"none", "local", "ntp"}]
PendRec == [valid : BOOLEAN, ts : Int, mem : BOOLEAN]
ReaderRec == [pc : {"idle", "take", "judge", "done"}, ts : Int \cup {None},
              pending : BOOLEAN, tries : 0..Attempts]

\* What TypeOK says, and the types of what it leaves open.
Typed == /\ buf \subseteq Place
         /\ timing \in TimingRec /\ post \in PostRec /\ anchor \in AnchorRec
         /\ lead \in -LeadMax..LeadMax
         /\ pend \in PendRec /\ reader \in ReaderRec
         /\ out \in Nat /\ quiet \in Nat /\ calm \in BOOLEAN
         /\ heard \in {"nothing", "zero", "silence", "frame"}

\* The buffer and what was taken from it fit in the pool.
Fits == SlotsUsed <= Cap

\* A frame in hand has a place in the stream and is one of the tries of this
\* read; unless it is the pending frame, a slot is out for it.
InHand == reader.pc = "judge" =>
            /\ reader.ts \in Int /\ reader.tries < Attempts
            /\ ~reader.pending => out > 0

\* Silence is counted only as far as timing.early counts it: whatever restarts
\* that count restarts the silence, too.  Without an anchor and after a seek
\* no frame is held back.
QuietCounted == /\ quiet <= timing.early
                /\ ~anchor.valid \/ post.on => quiet = 0

PlayInv == Typed /\ Fits /\ InHand /\ SlotsReturned /\ QuietCounted

\* The first state.
LEMMA PlayInit == Init => PlayInv
<1> SUFFICES ASSUME Init PROVE PlayInv
  OBVIOUS
<1>1. Typed
  <2>1. timing \in TimingRec
    BY CountAssumption DEF Init, TimingRec, Fresh
  <2>2. post \in PostRec
    BY CountAssumption DEF Init, PostRec, NoPost
  <2>3. anchor \in AnchorRec /\ pend \in PendRec
    BY DEF Init, AnchorRec, NoAnchor, PendRec, NoPend
  <2>4. reader \in ReaderRec
    BY CountAssumption DEF Init, ReaderRec, Idle
  <2>5. lead \in -LeadMax..LeadMax
    BY RangeAssumption DEF Init
  <2> QED
    BY <2>1, <2>2, <2>3, <2>4, <2>5 DEF Init, Typed
<1>2. Fits
  BY FS_EmptySet, BufferAssumption DEF Init, Fits, SlotsUsed
<1>3. InHand /\ SlotsReturned /\ QuietCounted
  BY DEF Init, InHand, SlotsReturned, QuietCounted, Idle, Fresh, NoAnchor, NoPost
<1> QED
  BY <1>1, <1>2, <1>3 DEF PlayInv

\* The numbers a step compares and adds.
LEMMA Numbers ==
    ASSUME Typed
    PROVE  /\ lead \in Int /\ -LeadMax <= lead /\ lead <= LeadMax /\ LeadMax \in Nat
           /\ out \in Nat /\ quiet \in Nat /\ Cardinality(buf) \in Nat
           /\ timing.early \in 0..MaxEarly /\ timing.late \in 0..MaxLate
           /\ timing.ready \in Nat \cup {None}
           /\ post.hits \in 0..StaleHits /\ post.snap \in Int \cup {None}
           /\ anchor.rtp \in Int /\ pend.ts \in Int /\ reader.ts \in Int \cup {None}
           /\ reader.tries \in 0..Attempts
<1>1. lead \in Int /\ -LeadMax <= lead /\ lead <= LeadMax /\ LeadMax \in Nat
  BY RangeAssumption DEF Typed
<1>2. out \in Nat /\ quiet \in Nat /\ Cardinality(buf) \in Nat
  BY Frame DEF Typed
<1>3. /\ timing.early \in 0..MaxEarly /\ timing.late \in 0..MaxLate
      /\ timing.ready \in Nat \cup {None}
  BY DEF Typed, TimingRec
<1>4. post.hits \in 0..StaleHits /\ post.snap \in Int \cup {None}
  BY DEF Typed, PostRec
<1>5. anchor.rtp \in Int /\ pend.ts \in Int
  BY DEF Typed, AnchorRec, PendRec
<1>6. reader.ts \in Int \cup {None} /\ reader.tries \in 0..Attempts
  BY DEF Typed, ReaderRec
<1> QED
  BY <1>1, <1>2, <1>3, <1>4, <1>5, <1>6

-----------------------------------------------------------------------------
(* What the steps have in common.                                          *)

\* A read that has not begun, and one that moves on.
LEMMA IdleTyped ==
    /\ Idle \in ReaderRec
    /\ \A pc \in {"take", "done"} : LET r == [Idle EXCEPT !.pc = pc]
                                    IN  r \in ReaderRec /\ r.pc = pc
<1>1. Idle \in ReaderRec
  BY CountAssumption DEF Idle, ReaderRec
<1>2. ASSUME NEW pc \in {"take", "done"}
      PROVE  [Idle EXCEPT !.pc = pc] \in ReaderRec /\ [Idle EXCEPT !.pc = pc].pc = pc
  BY <1>1 DEF ReaderRec
<1> QED
  BY <1>1, <1>2

\* A read that ends.
LEMMA DoneKeeps ==
    ASSUME NEW result \in {"nothing", "zero", "silence", "frame"}, Done(result)
    PROVE  reader' \in ReaderRec /\ reader'.pc = "done" /\ heard' = result
<1>1. reader' = [Idle EXCEPT !.pc = "done"] /\ heard' = result
  BY DEF Done
<1> QED
  BY <1>1, IdleTyped

\* The restarts of timing, and which of them restart the count of early frames.
LEMMA Restarts ==
    ASSUME NEW t \in TimingRec
    PROVE  /\ Restart(t) \in TimingRec /\ Restart(t).early = t.early
           /\ Calmer(t) \in TimingRec /\ Calmer(t).early = 0
           /\ Fresh(t.playing) \in TimingRec
<1>1. Restart(t) \in TimingRec /\ Restart(t).early = t.early
  BY DEF TimingRec, Restart
<1>2. Calmer(t) \in TimingRec /\ Calmer(t).early = 0
  <2>1. 0 \in 0..MaxEarly /\ 0 \in 0..MaxLate
    BY CountAssumption
  <2>2. Calmer(t) \in TimingRec
    BY <2>1 DEF TimingRec, Calmer
  <2>3. Calmer(t).early = 0
    BY DEF TimingRec, Calmer
  <2> QED
    BY <2>2, <2>3
<1>3. Fresh(t.playing) \in TimingRec
  <2>1. t.playing \in BOOLEAN
    BY DEF TimingRec
  <2> QED
    BY <2>1, CountAssumption DEF TimingRec, Fresh
<1> QED
  BY <1>1, <1>2, <1>3

\* The time after a seek, begun.
LEMMA BegunTyped ==
    ASSUME Typed
    PROVE  /\ Begun \in PostRec /\ Begun.on = post.on /\ Begun.hits = post.hits
           /\ NoPost \in PostRec /\ ~NoPost.on
<1>1. post \in PostRec /\ lead \in Int
  BY Numbers DEF Typed
<1>2. NoPost \in PostRec /\ ~NoPost.on
  BY CountAssumption DEF NoPost, PostRec
<1> QED
  BY <1>1, <1>2 DEF Begun, PostRec

\* The pending frame goes.
LEMMA PendingGone ==
    ASSUME Typed
    PROVE  [pend EXCEPT !.valid = FALSE, !.ts = 0] \in PendRec
<1>1. pend \in PendRec
  BY DEF Typed
<1> DEFINE p == [pend EXCEPT !.valid = FALSE]
<1>2. p \in PendRec
  BY <1>1 DEF PendRec
<1>3. [pend EXCEPT !.valid = FALSE, !.ts = 0] = [p EXCEPT !.ts = 0]
  OBVIOUS
<1> HIDE DEF p
<1>4. [p EXCEPT !.ts = 0] \in PendRec
  BY <1>2 DEF PendRec
<1> QED
  BY <1>3, <1>4

\* Fewer frames and fewer slots out fit.
LEMMA FitsStill ==
    ASSUME Typed, Fits, buf' \subseteq buf, out' \in Nat, out' <= out
    PROVE  Fits'
<1>1. Cardinality(buf') <= Cardinality(buf) /\ Cardinality(buf') \in Nat
  BY Frame, FS_Subset DEF Typed
<1> QED
  BY <1>1, Numbers, BufferAssumption DEF Fits, SlotsUsed

\* A frame leaves the hand.
LEMMA LetGoKeeps ==
    ASSUME Typed, InHand, SlotsReturned, reader.pc = "judge", LetGo
    PROVE  pend' \in PendRec /\ out' \in Nat /\ out' <= out /\ (~NoMemory => out' = 0)
<1>1. pend' \in PendRec
  <2>1. pend \in PendRec
    BY DEF Typed
  <2>2. pend' = pend \/ pend' = [pend EXCEPT !.valid = FALSE, !.ts = 0]
    BY DEF LetGo
  <2> QED
    BY <2>1, <2>2, PendingGone
<1>2. out' \in Nat /\ out' <= out
  BY Numbers DEF InHand, LetGo
<1>3. ~NoMemory => out' = 0
  BY DEF SlotsReturned, LetGo
<1> QED
  BY <1>1, <1>2, <1>3

\* No frame is in hand, and no slot is out for one.
LEMMA HandEmpty ==
    ASSUME reader'.pc # "judge", ~NoMemory => out' = 0
    PROVE  InHand' /\ SlotsReturned'
BY DEF InHand, SlotsReturned

\* A step of another task: the frame in hand stays there.
LEMMA HandKept ==
    ASSUME InHand, SlotsReturned, UNCHANGED <<reader, out>>
    PROVE  InHand' /\ SlotsReturned'
BY DEF InHand, SlotsReturned

-----------------------------------------------------------------------------
(* Time and the stream.                                                    *)

\* A frame comes or is lost: the buffer makes room for it or does without it.
LEMMA ArriveKeeps ==
    ASSUME PlayInv, Arrive
    PROVE  PlayInv'
<1>1. Typed /\ Fits /\ InHand /\ SlotsReturned /\ QuietCounted
  BY DEF PlayInv
<1>2. PICK lose \in BOOLEAN :
        /\ buf' = IF lose THEN Shifted ELSE Queued(Shifted)
        /\ \A ts \in Frames \ {None} : ts > (IF calm THEN Floor - Cap ELSE Floor)
  BY DEF Arrive, Shifted
<1>3. /\ lead < (IF calm THEN CalmMax ELSE LeadMax)
      /\ anchor' = [anchor EXCEPT !.rtp = IF anchor.valid THEN Clamped(@ - 1) ELSE 0]
      /\ pend' = [pend EXCEPT !.ts = IF pend.valid THEN @ - 1 ELSE 0]
      /\ reader' = [reader EXCEPT !.ts = Back(@, 1)]
      /\ post' = [post EXCEPT !.snap = IF @ = None THEN None ELSE @ + 1]
      /\ lead' = IF anchor.valid THEN lead + 1 ELSE 0
      /\ UNCHANGED <<timing, out, heard, quiet, calm>>
  BY DEF Arrive
\* Frames have their places.
<1>4. Shifted \subseteq Place
  <2>1. ASSUME NEW ts \in buf PROVE ts - 1 \in Place
    <3>1. ts \in Int /\ ts <= -1 /\ ts \in Frames \ {None}
      BY <1>1, NoneAssumption, BufferAssumption, RangeAssumption DEF Typed, Place, Frames
    <3>2. ts > Floor - Cap
      BY <1>2, <3>1, BufferAssumption, RangeAssumption
    <3> QED
      BY <3>1, <3>2, BufferAssumption, RangeAssumption DEF Place
  <2> QED
    BY <2>1 DEF Shifted
<1>5. /\ IsFiniteSet(Shifted) /\ Cardinality(Shifted) = Cardinality(buf) /\ -1 \notin Shifted
      /\ Shifted # {} => /\ Min(Shifted) \in Shifted
                         /\ Cardinality(Shifted \ {Min(Shifted)}) = Cardinality(Shifted) - 1
      /\ Shifted = {} <=> Cardinality(Shifted) = 0
  BY <1>1, <1>4, ShiftedSize, Frame DEF Typed
<1> DEFINE S == Shifted
           oldest == Min(Shifted)
<1> HIDE DEF S, oldest
<1>6. /\ S \subseteq Place /\ IsFiniteSet(S) /\ Cardinality(S) = Cardinality(buf) /\ -1 \notin S
      /\ S # {} => oldest \in S /\ Cardinality(S \ {oldest}) = Cardinality(S) - 1
      /\ S = {} <=> Cardinality(S) = 0
      /\ \/ buf' = S
         \/ Cardinality(S) >= Cap /\ buf' = (S \ {oldest}) \cup {-1}
         \/ SlotsUsed < Cap /\ buf' = S \cup {-1}
  <2>1. \/ buf' = Shifted
        \/ Cardinality(Shifted) >= Cap /\ buf' = (Shifted \ {Min(Shifted)}) \cup {-1}
        \/ ~(SlotsUsed >= Cap) /\ buf' = Shifted \cup {-1}
    BY <1>2 DEF Queued
  <2>2. ~(SlotsUsed >= Cap) => SlotsUsed < Cap
    BY <1>1, Numbers, BufferAssumption DEF SlotsUsed
  <2> QED
    BY <1>4, <1>5, <2>1, <2>2, Zenon DEF S, oldest
<1>7. buf' \subseteq Place
  BY <1>6, PlaceFinite
<1>8. Cardinality(buf') + out <= Cap
  <2>1. Cardinality(buf) \in Nat /\ out \in Nat /\ Cap \in Nat /\ Cap > 0
        /\ Cardinality(buf) + out <= Cap
    BY <1>1, Numbers, BufferAssumption DEF Fits, SlotsUsed
  <2>2. CASE buf' = S
    BY <1>6, <2>1, <2>2
  <2>3. CASE Cardinality(S) >= Cap /\ buf' = (S \ {oldest}) \cup {-1}
    <3>1. S # {}
      BY <1>6, <2>1, <2>3
    <3>2. IsFiniteSet(S \ {oldest}) /\ -1 \notin S \ {oldest}
      BY <1>6, FS_RemoveElement
    <3>3. Cardinality((S \ {oldest}) \cup {-1}) = Cardinality(S \ {oldest}) + 1
      BY <3>2, FS_AddElement
    <3> QED
      BY <1>6, <2>1, <2>3, <3>1, <3>3
  <2>4. CASE SlotsUsed < Cap /\ buf' = S \cup {-1}
    <3>1. Cardinality(S \cup {-1}) = Cardinality(S) + 1
      BY <1>6, FS_AddElement
    <3> QED
      BY <1>6, <2>1, <2>4, <3>1 DEF SlotsUsed
  <2> QED
    BY <1>6, <2>2, <2>3, <2>4
<1>9. Fits'
  BY <1>3, <1>8 DEF Fits, SlotsUsed
<1>10. Typed'
  <2>1. anchor' \in AnchorRec
    <3>1. Clamped(anchor.rtp - 1) \in Int
      BY <1>1, Numbers, RangeAssumption DEF Clamped
    <3> QED
      BY <1>1, <1>3, <3>1 DEF Typed, AnchorRec
  <2>2. pend' \in PendRec
    BY <1>1, <1>3, Numbers DEF Typed, PendRec
  <2>3. reader' \in ReaderRec
    <3>1. Back(reader.ts, 1) \in Int \cup {None}
      BY <1>1, Numbers DEF Back
    <3> QED
      BY <1>1, <1>3, <3>1 DEF Typed, ReaderRec
  <2>4. post' \in PostRec
    BY <1>1, <1>3, Numbers DEF Typed, PostRec
  <2>5. lead' \in -LeadMax..LeadMax
    BY <1>1, <1>3, Numbers, RangeAssumption
  <2> QED
    BY <1>1, <1>3, <1>7, <2>1, <2>2, <2>3, <2>4, <2>5 DEF Typed
<1>11. InHand' /\ SlotsReturned'
  <2>1. reader'.pc = reader.pc /\ reader'.tries = reader.tries /\ reader'.pending = reader.pending
        /\ reader'.ts = Back(reader.ts, 1)
    BY <1>1, <1>3 DEF Typed, ReaderRec
  <2>2. reader.ts \in Int => Back(reader.ts, 1) \in Int
    BY NoneAssumption DEF Back
  <2> QED
    BY <1>1, <1>3, <2>1, <2>2 DEF InHand, SlotsReturned
<1>12. QuietCounted'
  <2>1. anchor'.valid = anchor.valid /\ post'.on = post.on
    BY <1>1, <1>3 DEF Typed, AnchorRec, PostRec
  <2> QED
    BY <1>1, <1>3, <2>1 DEF QuietCounted
<1> QED
  BY <1>9, <1>10, <1>11, <1>12 DEF PlayInv

\* A turn of the playback task is over.
LEMMA TickKeeps ==
    ASSUME PlayInv, Tick
    PROVE  PlayInv'
<1>1. Typed /\ Fits /\ InHand /\ SlotsReturned /\ QuietCounted
  BY DEF PlayInv
<1>2. /\ reader.pc = "done"
      /\ lead > (IF calm THEN CalmMin ELSE -LeadMax) \/ ~anchor.valid
      /\ lead' = IF anchor.valid THEN lead - 1 ELSE 0
      /\ post' = [post EXCEPT !.snap = IF @ = None THEN None ELSE @ - 1]
      /\ timing' = [timing EXCEPT !.ready = IF @ = None \/ @ = FullWait THEN @ ELSE @ + 1]
      /\ reader' = Idle /\ heard' = "nothing"
      /\ UNCHANGED <<buf, anchor, pend, out, quiet, calm>>
  BY DEF Tick
<1>3. Typed'
  <2>1. lead' \in -LeadMax..LeadMax
    BY <1>1, <1>2, Numbers, RangeAssumption
  <2>2. post' \in PostRec
    BY <1>1, <1>2, Numbers DEF Typed, PostRec
  <2>3. timing' \in TimingRec
    BY <1>1, <1>2, Numbers DEF Typed, TimingRec
  <2>4. reader' \in ReaderRec
    BY <1>2, CountAssumption DEF ReaderRec, Idle
  <2> QED
    BY <1>1, <1>2, <2>1, <2>2, <2>3, <2>4 DEF Typed
<1>4. Fits'
  BY <1>1, <1>2 DEF Fits, SlotsUsed
<1>5. InHand' /\ SlotsReturned'
  BY <1>1, <1>2 DEF InHand, SlotsReturned, Idle
<1>6. QuietCounted'
  <2>1. timing'.early = timing.early /\ post'.on = post.on
    BY <1>1, <1>2 DEF Typed, TimingRec, PostRec
  <2> QED
    BY <1>1, <1>2, <2>1 DEF QuietCounted
<1> QED
  BY <1>3, <1>4, <1>5, <1>6 DEF PlayInv

-----------------------------------------------------------------------------
(* The read, until it has a frame in hand.                                 *)

\* A read that returns before it takes a frame.
LEMMA ReadWaitsKeeps ==
    ASSUME PlayInv, ReadWaits
    PROVE  PlayInv'
<1>1. Typed /\ Fits /\ InHand /\ SlotsReturned /\ QuietCounted
  BY DEF PlayInv
<1>2. /\ reader.pc = "idle" /\ Done("zero")
      /\ timing' = IF timing.playing /\ StillWaits THEN [timing EXCEPT !.ready = Waited] ELSE timing
      /\ UNCHANGED <<buf, post, anchor, lead, pend, out, quiet, calm>>
  BY DEF ReadWaits
<1>3. timing' \in TimingRec /\ timing'.early = timing.early
  <2>1. timing \in TimingRec /\ Waited \in Nat
    BY <1>1, Numbers DEF Typed, Waited
  <2> QED
    BY <1>2, <2>1 DEF TimingRec
<1>4. reader' \in ReaderRec /\ reader'.pc = "done" /\ heard' = "zero"
  BY <1>2, DoneKeeps
<1>5. Typed'
  BY <1>1, <1>2, <1>3, <1>4 DEF Typed
<1>6. Fits' /\ QuietCounted'
  BY <1>1, <1>2, <1>3 DEF Fits, SlotsUsed, QuietCounted
<1>7. ~NoMemory => out' = 0
  BY <1>1, <1>2 DEF SlotsReturned
<1> QED
  BY <1>1, <1>4, <1>5, <1>6, <1>7, HandEmpty DEF PlayInv

\* A local anchor restarts the count of early frames: without an anchor there
\* was no silence to count.
LEMMA ReadGoesKeeps ==
    ASSUME PlayInv, ReadGoes
    PROVE  PlayInv'
<1>1. Typed /\ Fits /\ InHand /\ SlotsReturned /\ QuietCounted
  BY DEF PlayInv
<1>2. PICK shift \in (IF anchor.valid /\ anchor.src = "ntp" /\ ~calm THEN Errors ELSE {0}) :
        post' = IF shift # 0 /\ post.on THEN [post EXCEPT !.snap = lead'] ELSE post
  BY DEF ReadGoes
<1>3. /\ reader.pc = "idle" /\ ~NotEnough
      /\ anchor' = IF TakesLocal THEN [valid |-> TRUE, rtp |-> Min(buf), src |-> "local"] ELSE anchor
      /\ lead' \in -LeadMax..LeadMax
      /\ timing' = [timing EXCEPT !.ready = IF NoAnchorYet THEN Waited ELSE @,
                                  !.early = IF TakesLocal THEN 0 ELSE @,
                                  !.late = IF TakesLocal THEN 0 ELSE @]
      /\ reader' = [Idle EXCEPT !.pc = "take"]
      /\ UNCHANGED <<buf, pend, out, heard, quiet, calm>>
  BY DEF ReadGoes
<1>4. lead' \in Int
  BY <1>3, RangeAssumption
<1>5. post' \in PostRec /\ post'.on = post.on
  BY <1>1, <1>2, <1>4 DEF Typed, PostRec
<1>6. TakesLocal => Starting /\ ~anchor.valid /\ ~post.on
  BY DEF TakesLocal, NoAnchorYet
<1>7. anchor' \in AnchorRec /\ (~TakesLocal => anchor' = anchor)
  <2>1. CASE TakesLocal
    <3>1. Cardinality(buf) >= Target
      BY <1>1, <1>3, <1>6, <2>1, Numbers, BufferAssumption DEF NotEnough
    <3>2. buf # {}
      BY <1>1, <3>1, Numbers, BufferAssumption, FS_EmptySet
    <3>3. Min(buf) \in Int
      BY <1>1, <3>2, Frame DEF Typed
    <3> QED
      BY <1>3, <2>1, <3>3 DEF AnchorRec
  <2>2. CASE ~TakesLocal
    BY <1>1, <1>3, <2>2 DEF Typed
  <2> QED
    BY <2>1, <2>2
<1>8. /\ timing' \in TimingRec
      /\ timing'.early = IF TakesLocal THEN 0 ELSE timing.early
  <2>1. timing \in TimingRec /\ Waited \in Nat
    BY <1>1, Numbers DEF Typed, Waited
  <2> DEFINE ready == IF NoAnchorYet THEN Waited ELSE timing.ready
             early == IF TakesLocal THEN 0 ELSE timing.early
             late == IF TakesLocal THEN 0 ELSE timing.late
  <2>2. timing' = [timing EXCEPT !.ready = ready, !.early = early, !.late = late]
    BY <1>3
  <2>3. ready \in Nat \cup {None} /\ early \in 0..MaxEarly /\ late \in 0..MaxLate
    BY <1>1, <2>1, Numbers, CountAssumption
  <2> HIDE DEF ready, early, late
  <2>4. timing' \in TimingRec /\ timing'.early = early
    BY <2>1, <2>2, <2>3 DEF TimingRec
  <2> QED
    BY <2>4 DEF early
<1>9. reader' \in ReaderRec /\ reader'.pc = "take"
  BY <1>3, IdleTyped
<1>10. Typed'
  BY <1>1, <1>3, <1>5, <1>7, <1>8, <1>9 DEF Typed
<1>11. Fits'
  BY <1>1, <1>3 DEF Fits, SlotsUsed
<1>12. QuietCounted'
  BY <1>1, <1>3, <1>5, <1>6, <1>7, <1>8 DEF QuietCounted
<1>13. ~NoMemory => out' = 0
  BY <1>1, <1>3 DEF SlotsReturned
<1> QED
  BY <1>9, <1>10, <1>11, <1>12, <1>13, HandEmpty DEF PlayInv

\* The oldest frame of the buffer comes into the hand with its slot.
LEMMA TakeKeeps ==
    ASSUME PlayInv, Take
    PROVE  PlayInv'
<1>1. Typed /\ Fits /\ InHand /\ SlotsReturned /\ QuietCounted
  BY DEF PlayInv
<1>2. reader.pc = "take" /\ UNCHANGED <<timing, post, anchor, lead, pend, quiet, calm>>
  BY DEF Take
<1>3. QuietCounted'
  BY <1>1, <1>2 DEF QuietCounted
<1>4. ~NoMemory => out = 0
  BY <1>1, <1>2 DEF SlotsReturned
<1>5. CASE Done("zero") /\ UNCHANGED <<buf, out>>
  <2>1. reader' \in ReaderRec /\ reader'.pc = "done" /\ heard' = "zero"
    BY <1>5, DoneKeeps
  <2>2. Typed' /\ Fits'
    BY <1>1, <1>2, <1>5, <2>1 DEF Typed, Fits, SlotsUsed
  <2> QED
    BY <1>3, <1>4, <1>5, <2>1, <2>2, HandEmpty DEF PlayInv
<1>6. CASE /\ reader.tries < Attempts /\ pend.valid
           /\ reader' = [reader EXCEPT !.pc = "judge", !.ts = pend.ts, !.pending = TRUE]
           /\ UNCHANGED <<buf, out, heard>>
  <2>1. /\ reader' \in ReaderRec /\ reader'.pc = "judge" /\ reader'.ts \in Int
        /\ reader'.pending /\ reader'.tries < Attempts
    BY <1>1, <1>6, Numbers DEF Typed, ReaderRec
  <2>2. Typed' /\ Fits'
    BY <1>1, <1>2, <1>6, <2>1 DEF Typed, Fits, SlotsUsed
  <2>3. InHand' /\ SlotsReturned'
    BY <1>4, <1>6, <2>1 DEF InHand, SlotsReturned
  <2> QED
    BY <1>3, <2>2, <2>3 DEF PlayInv
<1>7. CASE /\ reader.tries < Attempts /\ buf # {}
           /\ buf' = buf \ {Min(buf)} /\ out' = out + 1
           /\ reader' = [reader EXCEPT !.pc = "judge", !.ts = Min(buf), !.pending = FALSE]
           /\ UNCHANGED heard
  <2>1. Min(buf) \in Int /\ Cardinality(buf \ {Min(buf)}) = Cardinality(buf) - 1
    BY <1>1, <1>7, Frame DEF Typed
  <2>2. /\ reader' \in ReaderRec /\ reader'.pc = "judge" /\ reader'.ts \in Int
        /\ ~reader'.pending /\ reader'.tries < Attempts
    BY <1>1, <1>7, <2>1 DEF Typed, ReaderRec
  <2>3. out' \in Nat /\ out' > 0 /\ (~NoMemory => out' = 1)
    BY <1>1, <1>4, <1>7, Numbers
  <2>4. Typed'
    BY <1>1, <1>2, <1>7, <2>2, <2>3 DEF Typed
  <2>5. Fits'
    <3>1. Cardinality(buf') + out' = Cardinality(buf) + out
      BY <1>1, <1>7, <2>1, Numbers
    <3> QED
      BY <1>1, <3>1 DEF Fits, SlotsUsed
  <2>6. InHand' /\ SlotsReturned'
    BY <2>2, <2>3 DEF InHand, SlotsReturned
  <2> QED
    BY <1>3, <2>4, <2>5, <2>6 DEF PlayInv
<1> QED
  BY <1>5, <1>6, <1>7 DEF Take

-----------------------------------------------------------------------------
(* The frame in hand is judged.                                            *)

\* A frame that no plausible anchor explains goes back to the pool.
LEMMA DropWildKeeps ==
    ASSUME PlayInv, DropWild
    PROVE  PlayInv'
<1>1. Typed /\ Fits /\ InHand /\ SlotsReturned /\ QuietCounted
  BY DEF PlayInv
<1>2. /\ reader.pc = "judge" /\ LetGo /\ Done("zero")
      /\ post' = IF post.on /\ ~post.begun THEN [post EXCEPT !.begun = TRUE, !.snap = lead] ELSE post
      /\ UNCHANGED <<buf, timing, anchor, lead, quiet, calm>>
  BY DEF DropWild, Judged
<1>3. pend' \in PendRec /\ out' \in Nat /\ out' <= out /\ (~NoMemory => out' = 0)
  BY <1>1, <1>2, LetGoKeeps
<1>4. reader' \in ReaderRec /\ reader'.pc = "done" /\ heard' = "zero"
  BY <1>2, DoneKeeps
<1>5. post' \in PostRec /\ post'.on = post.on
  BY <1>1, <1>2, BegunTyped DEF Begun, Typed
<1>6. Typed'
  BY <1>1, <1>2, <1>3, <1>4, <1>5 DEF Typed
<1>7. Fits'
  BY <1>1, <1>2, <1>3, FitsStill
<1>8. QuietCounted'
  BY <1>1, <1>2, <1>5 DEF QuietCounted
<1> QED
  BY <1>3, <1>4, <1>6, <1>7, <1>8, HandEmpty DEF PlayInv

\* After a seek the counts restart, and there is no silence to count.
LEMMA DropStaleKeeps ==
    ASSUME PlayInv, DropStale
    PROVE  PlayInv'
<1>1. Typed /\ Fits /\ InHand /\ SlotsReturned /\ QuietCounted
  BY DEF PlayInv
<1>2. /\ reader.pc = "judge" /\ post.on /\ LetGo /\ Done("zero")
      /\ \/ /\ buf' = {} /\ timing' = Calmer(Restart(timing))
            /\ post' = [Begun EXCEPT !.hits = 0, !.snap = None]
         \/ /\ ~(post.hits + 1 >= StaleHits)
            /\ post' = [Begun EXCEPT !.hits = @ + 1] /\ UNCHANGED <<buf, timing>>
      /\ UNCHANGED <<anchor, lead, quiet, calm>>
  BY DEF DropStale, Judged
<1>3. pend' \in PendRec /\ out' \in Nat /\ out' <= out /\ (~NoMemory => out' = 0)
  BY <1>1, <1>2, LetGoKeeps
<1>4. reader' \in ReaderRec /\ reader'.pc = "done" /\ heard' = "zero"
  BY <1>2, DoneKeeps
<1>5. post' \in PostRec
  <2>1. Begun \in PostRec /\ Begun.hits = post.hits /\ post.hits \in 0..StaleHits
    BY <1>1, BegunTyped, Numbers
  <2>2. CASE post' = [Begun EXCEPT !.hits = 0, !.snap = None]
    <3>1. [Begun EXCEPT !.snap = None] \in PostRec
      BY <2>1 DEF PostRec
    <3>2. 0 \in 0..StaleHits
      BY CountAssumption
    <3>3. [[Begun EXCEPT !.snap = None] EXCEPT !.hits = 0] = post'
      BY <2>2
    <3> QED
      BY <3>1, <3>2, <3>3 DEF PostRec
  <2>3. CASE ~(post.hits + 1 >= StaleHits) /\ post' = [Begun EXCEPT !.hits = @ + 1]
    <3>1. Begun.hits + 1 \in 0..StaleHits
      BY <2>1, <2>3, CountAssumption
    <3> QED
      BY <2>1, <2>3, <3>1 DEF PostRec
  <2> QED
    BY <1>2, <2>2, <2>3
<1>6. timing' \in TimingRec
  BY <1>1, <1>2, Restarts DEF Typed
<1>7. buf' \subseteq buf /\ quiet' = 0 /\ timing'.early \in 0..MaxEarly
  BY <1>1, <1>2, <1>6 DEF QuietCounted, TimingRec
<1>8. Typed'
  BY <1>1, <1>2, <1>3, <1>4, <1>5, <1>6, <1>7 DEF Typed
<1>9. Fits'
  BY <1>1, <1>3, <1>7, FitsStill
<1>10. QuietCounted'
  BY <1>7, CountAssumption DEF QuietCounted
<1> QED
  BY <1>3, <1>4, <1>8, <1>9, <1>10, HandEmpty DEF PlayInv

\* Silence and the count of early frames grow together.
LEMMA HoldEarlyKeeps ==
    ASSUME PlayInv, HoldEarly
    PROVE  PlayInv'
<1>1. Typed /\ Fits /\ InHand /\ SlotsReturned /\ QuietCounted
  BY DEF PlayInv
<1>2. /\ reader.pc = "judge" /\ anchor.valid /\ ~post.on /\ Done("silence")
      /\ timing.early + 1 <= MaxEarly
      /\ timing' = [timing EXCEPT !.early = timing.early + 1]
      /\ quiet' = IF quiet > MaxEarly THEN quiet ELSE quiet + 1
      /\ UNCHANGED <<buf, post, anchor, lead, calm>>
  BY DEF HoldEarly, TooEarly, Normal, Judged, Earlier
<1>3. PICK mem \in {TRUE} \cup (IF NoMemory THEN {pend.mem} ELSE {}) :
        IF reader.pending \/ ~mem THEN UNCHANGED <<pend, out>>
        ELSE pend' = [valid |-> TRUE, ts |-> reader.ts, mem |-> TRUE] /\ out' = out - 1
  BY DEF HoldEarly
<1>4. pend' \in PendRec /\ out' \in Nat /\ out' <= out /\ (~NoMemory => out' = 0)
  <2>1. CASE reader.pending \/ ~mem
    <3>1. pend' = pend /\ out' = out
      BY <1>3, <2>1
    <3>2. ~NoMemory => reader.pending
      BY <2>1
    <3> QED
      BY <1>1, <1>2, <3>1, <3>2, Numbers DEF Typed, SlotsReturned
  <2>2. CASE ~reader.pending /\ mem
    <3>1. pend' = [valid |-> TRUE, ts |-> reader.ts, mem |-> TRUE] /\ out' = out - 1
      BY <1>3, <2>2
    <3>2. pend' \in PendRec
      BY <1>1, <1>2, <3>1 DEF InHand, PendRec
    <3>3. out \in Nat /\ out > 0 /\ (~NoMemory => out = 1)
      BY <1>1, <1>2, <2>2, Numbers DEF InHand, SlotsReturned
    <3> QED
      BY <3>1, <3>2, <3>3
  <2> QED
    BY <1>3, <2>1, <2>2
<1>5. reader' \in ReaderRec /\ reader'.pc = "done" /\ heard' = "silence"
  BY <1>2, DoneKeeps
<1>6. timing' \in TimingRec /\ timing'.early = timing.early + 1
  <2>1. timing.early + 1 \in 0..MaxEarly
    BY <1>1, <1>2, Numbers, CountAssumption
  <2> QED
    BY <1>1, <1>2, <2>1 DEF Typed, TimingRec
<1>7. quiet' \in Nat /\ quiet' <= timing.early + 1
  BY <1>1, <1>2, Numbers, CountAssumption DEF QuietCounted
<1>8. Typed'
  BY <1>1, <1>2, <1>4, <1>5, <1>6, <1>7 DEF Typed
<1>9. Fits'
  BY <1>1, <1>2, <1>4, FitsStill
<1>10. QuietCounted'
  BY <1>2, <1>6, <1>7 DEF QuietCounted
<1> QED
  BY <1>4, <1>5, <1>8, <1>9, <1>10, HandEmpty DEF PlayInv

\* A frame that is too late goes back to the pool; many in a row, or a very late one, empty the buffer.
LEMMA DropLateKeeps ==
    ASSUME PlayInv, DropLate
    PROVE  PlayInv'
<1>1. Typed /\ Fits /\ InHand /\ SlotsReturned /\ QuietCounted
  BY DEF PlayInv
<1>2. /\ reader.pc = "judge" /\ LetGo /\ quiet' = 0
      /\ \/ /\ buf' = {} /\ timing' = Calmer(Restart(timing)) /\ Done("zero")
         \/ /\ ~(timing.late + 1 > MaxLate)
            /\ timing' = [timing EXCEPT !.early = 0, !.late = @ + 1]
            /\ reader' = [Idle EXCEPT !.pc = "take", !.tries = reader.tries + 1]
            /\ UNCHANGED <<buf, heard>>
      /\ UNCHANGED <<post, anchor, lead, calm>>
  BY DEF DropLate, TooLate, Normal, Judged
<1>3. pend' \in PendRec /\ out' \in Nat /\ out' <= out /\ (~NoMemory => out' = 0)
  BY <1>1, <1>2, LetGoKeeps
<1>4. CASE buf' = {} /\ timing' = Calmer(Restart(timing)) /\ Done("zero")
  <2>1. reader' \in ReaderRec /\ reader'.pc = "done" /\ heard' = "zero"
    BY <1>4, DoneKeeps
  <2>2. timing' \in TimingRec /\ timing'.early = 0
    BY <1>1, <1>4, Restarts DEF Typed
  <2>3. Typed'
    BY <1>1, <1>2, <1>3, <1>4, <2>1, <2>2 DEF Typed
  <2>4. Fits'
    BY <1>1, <1>3, <1>4, FitsStill
  <2>5. QuietCounted'
    BY <1>2, <2>2 DEF QuietCounted
  <2> QED
    BY <1>3, <2>1, <2>3, <2>4, <2>5, HandEmpty DEF PlayInv
<1>5. CASE /\ ~(timing.late + 1 > MaxLate)
           /\ timing' = [timing EXCEPT !.early = 0, !.late = @ + 1]
           /\ reader' = [Idle EXCEPT !.pc = "take", !.tries = reader.tries + 1]
           /\ UNCHANGED <<buf, heard>>
  <2>1. reader.tries + 1 \in 0..Attempts
    BY <1>1, <1>2, Numbers, CountAssumption DEF InHand
  <2>2. reader' \in ReaderRec
    BY <1>5, <2>1, IdleTyped DEF ReaderRec
  <2>3. reader'.pc = "take"
    BY <1>5, IdleTyped DEF ReaderRec
  <2>4. timing.late + 1 \in 0..MaxLate /\ 0 \in 0..MaxEarly
    BY <1>1, <1>5, Numbers, CountAssumption
  <2>5. timing' \in TimingRec
    BY <1>1, <1>5, <2>4 DEF Typed, TimingRec
  <2>6. timing'.early = 0
    BY <1>1, <1>5 DEF Typed, TimingRec
  <2>7. Typed'
    BY <1>1, <1>2, <1>3, <1>5, <2>2, <2>5 DEF Typed
  <2>8. Fits'
    BY <1>1, <1>3, <1>5, FitsStill
  <2>9. QuietCounted'
    BY <1>2, <2>6 DEF QuietCounted
  <2> QED
    BY <1>3, <2>3, <2>7, <2>8, <2>9, HandEmpty DEF PlayInv
<1> QED
  BY <1>2, <1>4, <1>5

\* The frame is played, and let go.
LEMMA PlayKeeps ==
    ASSUME PlayInv, Play
    PROVE  PlayInv'
<1>1. Typed /\ Fits /\ InHand /\ SlotsReturned /\ QuietCounted
  BY DEF PlayInv
<1>2. /\ reader.pc = "judge" /\ LetGo /\ quiet' = 0 /\ Done("frame")
      /\ anchor' = IF TooEarly THEN NoAnchor ELSE anchor
      /\ lead' = IF TooEarly THEN 0 ELSE lead
      /\ post' = IF anchor.valid /\ post.on THEN PostAfter ELSE post
      /\ timing' = [Calmer(timing) EXCEPT !.started = TRUE]
      /\ UNCHANGED <<buf, calm>>
  BY DEF Play
<1>3. pend' \in PendRec /\ out' \in Nat /\ out' <= out /\ (~NoMemory => out' = 0)
  BY <1>1, <1>2, LetGoKeeps
<1>4. reader' \in ReaderRec /\ reader'.pc = "done" /\ heard' = "frame"
  BY <1>2, DoneKeeps
<1>5. timing' \in TimingRec /\ timing'.early = 0
  <2>1. Calmer(timing) \in TimingRec /\ Calmer(timing).early = 0
    BY <1>1, Restarts DEF Typed
  <2> QED
    BY <1>2, <2>1 DEF TimingRec
<1>6. post' \in PostRec
  <2>1. [Begun EXCEPT !.hits = 0] \in PostRec
    BY <1>1, BegunTyped, CountAssumption DEF PostRec
  <2> QED
    BY <1>1, <1>2, <2>1, BegunTyped DEF PostAfter, Typed
<1>7. anchor' \in AnchorRec /\ lead' \in -LeadMax..LeadMax
  <2>1. NoAnchor \in AnchorRec /\ 0 \in -LeadMax..LeadMax
    BY RangeAssumption DEF NoAnchor, AnchorRec
  <2> QED
    BY <1>1, <1>2, <2>1 DEF Typed
<1>8. Typed'
  BY <1>1, <1>2, <1>3, <1>4, <1>5, <1>6, <1>7 DEF Typed
<1>9. Fits'
  BY <1>1, <1>2, <1>3, FitsStill
<1>10. QuietCounted'
  BY <1>2, <1>5 DEF QuietCounted
<1> QED
  BY <1>3, <1>4, <1>8, <1>9, <1>10, HandEmpty DEF PlayInv

-----------------------------------------------------------------------------
(* The other tasks.                                                        *)

\* The count of early frames restarts only with an anchor that was not there
\* or that is elsewhere, and then the silence is over, too.
LEMMA SetAnchorKeeps ==
    ASSUME PlayInv, SetAnchor
    PROVE  PlayInv'
<1>1. Typed /\ Fits /\ InHand /\ SlotsReturned /\ QuietCounted
  BY DEF PlayInv
<1>2. PICK n \in Aheads, known \in BOOLEAN, error \in Errors :
        LET rtp == -n
            moved == IF Displaced(rtp) THEN Restart(timing) ELSE timing
            next == n + (IF known THEN error ELSE 0)
        IN /\ ~calm /\ next <= LeadMax
           /\ buf' = IF Displaced(rtp) THEN {} ELSE buf
           /\ pend' = IF Displaced(rtp) THEN [pend EXCEPT !.valid = FALSE, !.ts = 0] ELSE pend
           /\ timing' = IF Jumped(rtp) THEN Calmer(moved) ELSE moved
           /\ anchor' = [valid |-> TRUE, rtp |-> rtp, src |-> "ntp"]
           /\ lead' = next
           /\ IF post.on /\ known THEN post' = [post EXCEPT !.snap = next]
              ELSE IF post.snap = None THEN UNCHANGED post
              ELSE /\ anchor.valid /\ anchor.rtp > Floor
                   /\ post' = [post EXCEPT !.snap = @ + anchor.rtp - rtp]
                   /\ post'.snap \in -LeadMax..LeadMax
           /\ quiet' = IF anchor.valid /\ Abs(rtp - anchor.rtp) <= SeekSpan THEN quiet ELSE 0
           /\ UNCHANGED <<reader, out, heard, calm>>
  BY DEF SetAnchor
<1> DEFINE rtp == -n
           moved == IF Displaced(rtp) THEN Restart(timing) ELSE timing
           next == n + (IF known THEN error ELSE 0)
<1>3. n \in Int /\ rtp \in Int /\ next \in Int /\ next >= -LeadMax
  BY SenderAssumption
<1>4. /\ next <= LeadMax /\ lead' = next
      /\ buf' \subseteq buf
      /\ pend' = pend \/ pend' = [pend EXCEPT !.valid = FALSE, !.ts = 0]
      /\ anchor' = [valid |-> TRUE, rtp |-> rtp, src |-> "ntp"]
      /\ UNCHANGED <<reader, out, heard, calm>>
  BY <1>2
<1>5. timing' = (IF Jumped(rtp) THEN Calmer(moved) ELSE moved)
  BY <1>2
<1>6. \/ post' = [post EXCEPT !.snap = next]
      \/ post' = post
      \/ /\ post.snap # None /\ post' = [post EXCEPT !.snap = @ + anchor.rtp - rtp]
  BY <1>2
<1>7. \/ quiet' = 0
      \/ quiet' = quiet /\ anchor.valid /\ Abs(rtp - anchor.rtp) <= SeekSpan
  BY <1>2
<1> HIDE DEF rtp, next
<1>8. moved \in TimingRec /\ moved.early = timing.early
  BY <1>1, Restarts DEF Typed
<1> HIDE DEF moved
<1>9. timing' \in TimingRec /\ (~Jumped(rtp) => timing'.early = timing.early)
  BY <1>5, <1>8, Restarts
<1>10. post' \in PostRec /\ post'.on = post.on
  <2>1. post \in PostRec /\ anchor.rtp \in Int /\ (post.snap # None => post.snap \in Int)
    BY <1>1, Numbers DEF Typed
  <2>2. post.snap # None => post.snap + anchor.rtp - rtp \in Int
    BY <1>3, <2>1
  <2> QED
    BY <1>3, <1>6, <2>1, <2>2 DEF PostRec
<1>11. pend' \in PendRec
  <2>1. pend \in PendRec
    BY <1>1 DEF Typed
  <2> QED
    BY <1>1, <1>4, <2>1, PendingGone
<1>12. anchor' \in AnchorRec /\ lead' \in -LeadMax..LeadMax
  BY <1>3, <1>4, RangeAssumption DEF AnchorRec
<1>13. Typed'
  BY <1>1, <1>4, <1>7, <1>9, <1>10, <1>11, <1>12 DEF Typed
<1>14. Fits'
  BY <1>1, <1>4, Numbers, FitsStill
<1>15. QuietCounted'
  <2>1. CASE quiet' = 0
    <3>1. timing'.early \in 0..MaxEarly
      BY <1>9 DEF TimingRec
    <3> QED
      BY <2>1, <3>1, CountAssumption DEF QuietCounted
  <2>2. CASE quiet' = quiet /\ anchor.valid /\ Abs(rtp - anchor.rtp) <= SeekSpan
    <3>1. ~(Abs(rtp - anchor.rtp) > SeekSpan)
      <4>1. Abs(rtp - anchor.rtp) \in Int
      BY <1>1, <1>3, Numbers DEF Abs
    <4> QED
      BY <2>2, <4>1, RangeAssumption
    <3>2. ~Jumped(rtp)
      BY <2>2, <3>1 DEF Jumped
    <3>3. timing'.early = timing.early
      BY <1>9, <3>2
    <3>4. anchor'.valid
      BY <1>4
    <3> QED
      BY <1>1, <1>10, <2>2, <3>3, <3>4 DEF QuietCounted
  <2> QED
    BY <1>7, <2>1, <2>2
<1> QED
  BY <1>1, <1>4, <1>13, <1>14, <1>15, HandKept DEF PlayInv

\* A pause stops the reads and clears the pending frame.
LEMMA PauseKeeps ==
    ASSUME PlayInv, Pause
    PROVE  PlayInv'
<1>1. Typed /\ Fits /\ InHand /\ SlotsReturned /\ QuietCounted
  BY DEF PlayInv
<1>2. /\ timing' = [timing EXCEPT !.playing = FALSE]
      /\ pend' = [pend EXCEPT !.valid = FALSE, !.ts = 0]
      /\ UNCHANGED <<buf, post, anchor, lead, reader, out, heard, quiet, calm>>
  BY DEF Pause
<1>3. timing' \in TimingRec /\ timing'.early = timing.early
  BY <1>1, <1>2 DEF Typed, TimingRec
<1>4. pend' \in PendRec
  BY <1>1, <1>2, PendingGone
<1>5. Typed'
  BY <1>1, <1>2, <1>3, <1>4 DEF Typed
<1>6. Fits' /\ QuietCounted'
  BY <1>1, <1>2, <1>3 DEF Fits, SlotsUsed, QuietCounted
<1> QED
  BY <1>1, <1>2, <1>5, <1>6, HandKept DEF PlayInv

\* A resume lets the reads go on.
LEMMA ResumeKeeps ==
    ASSUME PlayInv, Resume
    PROVE  PlayInv'
<1>1. Typed /\ Fits /\ InHand /\ SlotsReturned /\ QuietCounted
  BY DEF PlayInv
<1>2. /\ timing' = ForceStart([timing EXCEPT !.playing = TRUE])
      /\ UNCHANGED <<buf, post, anchor, lead, pend, reader, out, heard, quiet, calm>>
  BY DEF Resume
<1>3. timing' \in TimingRec /\ timing'.early = timing.early
  <2> DEFINE t == [timing EXCEPT !.playing = TRUE]
  <2>1. t \in TimingRec /\ t.early = timing.early
    BY <1>1 DEF Typed, TimingRec
  <2> HIDE DEF t
  <2>2. ForceStart(t) \in TimingRec
    BY <2>1 DEF TimingRec, ForceStart
  <2>3. ForceStart(t).early = t.early
    BY <2>1 DEF TimingRec, ForceStart
  <2> QED
    BY <1>2, <2>1, <2>2, <2>3 DEF t
<1>4. Typed'
  BY <1>1, <1>2, <1>3 DEF Typed
<1>5. Fits' /\ QuietCounted'
  BY <1>1, <1>2, <1>3 DEF Fits, SlotsUsed, QuietCounted
<1> QED
  BY <1>1, <1>2, <1>4, <1>5, HandKept DEF PlayInv

\* RECORD of a fresh stream, the end of a stream and a seek empty the buffer
\* and start again, with the frame in hand as it is.
LEMMA AfreshKeeps ==
    ASSUME PlayInv, buf' = {}, anchor' = NoAnchor, lead' = 0, pend' = NoPend, quiet' = 0,
           timing' \in TimingRec, post' \in PostRec, UNCHANGED <<out, heard, calm>>
    PROVE  reader' \in ReaderRec => Typed' /\ Fits' /\ QuietCounted'
<1>1. Typed /\ Fits
  BY DEF PlayInv
<1>2. anchor' \in AnchorRec /\ pend' \in PendRec /\ lead' \in -LeadMax..LeadMax
  BY RangeAssumption DEF NoAnchor, AnchorRec, NoPend, PendRec
<1>3. reader' \in ReaderRec => Typed'
  BY <1>1, <1>2 DEF Typed
<1>4. Fits'
  BY <1>1, Numbers, FitsStill
<1>5. QuietCounted'
  <2>1. timing'.early \in 0..MaxEarly
    BY DEF TimingRec
  <2> QED
    BY <2>1, CountAssumption DEF QuietCounted
<1> QED
  BY <1>3, <1>4, <1>5

\* RECORD empties the buffer and starts the timing afresh.
LEMMA RecordKeeps ==
    ASSUME PlayInv, Record
    PROVE  PlayInv'
<1>1. Typed /\ InHand /\ SlotsReturned
  BY DEF PlayInv
<1>2. /\ buf' = {} /\ post' = NoPost /\ anchor' = NoAnchor /\ lead' = 0 /\ pend' = NoPend
      /\ timing' = [Fresh(TRUE) EXCEPT !.started = TRUE, !.ready = 0]
      /\ quiet' = 0 /\ UNCHANGED <<reader, out, heard, calm>>
  BY DEF Record
<1>3. timing' \in TimingRec
  <2>1. Fresh(TRUE) \in TimingRec
    BY CountAssumption DEF Fresh, TimingRec
  <2> HIDE DEF Fresh
  <2> QED
    BY <1>2, <2>1 DEF TimingRec
<1>4. post' \in PostRec /\ reader' \in ReaderRec
  BY <1>1, <1>2, BegunTyped DEF Typed
<1>5. Typed' /\ Fits' /\ QuietCounted'
  BY <1>2, <1>3, <1>4, AfreshKeeps
<1> QED
  BY <1>1, <1>2, <1>5, HandKept DEF PlayInv

\* A stop of the stream does so, too, and lets nothing be played.
LEMMA StopKeeps ==
    ASSUME PlayInv, Stop
    PROVE  PlayInv'
<1>1. Typed /\ InHand /\ SlotsReturned
  BY DEF PlayInv
<1>2. /\ buf' = {} /\ post' = NoPost /\ anchor' = NoAnchor /\ lead' = 0 /\ pend' = NoPend
      /\ timing' = Fresh(timing.playing)
      /\ quiet' = 0 /\ UNCHANGED <<reader, out, heard, calm>>
  BY DEF Stop, ResetTiming
<1>3. timing' \in TimingRec /\ post' \in PostRec /\ reader' \in ReaderRec
  BY <1>1, <1>2, BegunTyped, Restarts DEF Typed
<1>4. Typed' /\ Fits' /\ QuietCounted'
  BY <1>2, <1>3, AfreshKeeps
<1> QED
  BY <1>1, <1>2, <1>4, HandKept DEF PlayInv

\* A FLUSH empties the buffer; the frame in hand moves with the sender.
LEMMA SeekKeeps ==
    ASSUME PlayInv, Seek
    PROVE  PlayInv'
<1>1. Typed /\ InHand /\ SlotsReturned
  BY DEF PlayInv
<1>2. PICK d \in Jumps : reader' = [reader EXCEPT !.ts = Back(@, d)]
  BY DEF Seek
<1>3. /\ buf' = {} /\ post' = [NoPost EXCEPT !.on = TRUE]
      /\ anchor' = NoAnchor /\ lead' = 0 /\ pend' = NoPend
      /\ timing' = Fresh(timing.playing)
      /\ quiet' = 0 /\ UNCHANGED <<out, heard, calm>>
  BY DEF Seek, ResetTiming
<1>4. timing' \in TimingRec /\ post' \in PostRec
  BY <1>1, <1>3, BegunTyped, Restarts DEF Typed, PostRec
<1>5. /\ reader' \in ReaderRec
      /\ reader'.pc = reader.pc /\ reader'.pending = reader.pending /\ reader'.tries = reader.tries
      /\ reader'.ts = Back(reader.ts, d)
  <2>1. Back(reader.ts, d) \in Int \cup {None}
    BY <1>1, Numbers, SenderAssumption DEF Back
  <2> QED
    BY <1>1, <1>2, <2>1 DEF Typed, ReaderRec
<1>6. Typed' /\ Fits' /\ QuietCounted'
  BY <1>3, <1>4, <1>5, AfreshKeeps
<1>7. InHand' /\ SlotsReturned'
  <2>1. reader.ts \in Int => Back(reader.ts, d) \in Int
    BY NoneAssumption, SenderAssumption DEF Back
  <2> QED
    BY <1>1, <1>3, <1>5, <2>1 DEF InHand, SlotsReturned
<1> QED
  BY <1>6, <1>7 DEF PlayInv

\* A rebuffer restarts the counts and clears the pending frame.
LEMMA RebufferKeeps ==
    ASSUME PlayInv, Rebuffer
    PROVE  PlayInv'
<1>1. Typed /\ Fits /\ InHand /\ SlotsReturned /\ QuietCounted
  BY DEF PlayInv
<1>2. /\ timing' = Calmer(Restart(timing))
      /\ pend' = [pend EXCEPT !.valid = FALSE, !.ts = 0]
      /\ quiet' = 0
      /\ UNCHANGED <<buf, post, anchor, lead, reader, out, heard, calm>>
  BY DEF Rebuffer
<1>3. timing' \in TimingRec /\ timing'.early = 0 /\ pend' \in PendRec
  BY <1>1, <1>2, Restarts, PendingGone DEF Typed
<1>4. Typed'
  BY <1>1, <1>2, <1>3 DEF Typed
<1>5. Fits' /\ QuietCounted'
  BY <1>1, <1>2, <1>3 DEF Fits, SlotsUsed, QuietCounted
<1> QED
  BY <1>1, <1>2, <1>4, <1>5, HandKept DEF PlayInv

\* A step that changes none of what the invariant is about.
LEMMA ElsewhereKeeps ==
    ASSUME PlayInv, calm' \in BOOLEAN,
           UNCHANGED <<buf, timing, post, anchor, lead, pend, reader, out, heard, quiet>>
    PROVE  PlayInv'
<1>1. Typed'
  BY DEF PlayInv, Typed
<1> QED
  BY <1>1 DEF PlayInv, Fits, SlotsUsed, InHand, SlotsReturned, QuietCounted

-----------------------------------------------------------------------------

\* Every step keeps the invariant.
LEMMA PlayNext == PlayInv /\ [Next]_vars => PlayInv'
<1> SUFFICES ASSUME PlayInv, [Next]_vars
             PROVE  PlayInv'
  OBVIOUS
<1>1. CASE Read
  BY <1>1, ReadWaitsKeeps, ReadGoesKeeps, TakeKeeps, DropWildKeeps, DropStaleKeeps,
     HoldEarlyKeeps, DropLateKeeps, PlayKeeps DEF Read
<1>2. CASE Tick \/ Arrive
  BY <1>2, TickKeeps, ArriveKeeps
<1>3. CASE Others
  BY <1>3, SetAnchorKeeps, PauseKeeps, ResumeKeeps, RecordKeeps, StopKeeps, SeekKeeps DEF Others
<1>4. CASE Rebuffer
  BY <1>4, RebufferKeeps
<1>5. CASE Settle \/ UNCHANGED vars
  BY <1>5, ElsewhereKeeps DEF Settle, vars, PlayInv, Typed
<1> QED
  BY <1>1, <1>2, <1>3, <1>4, <1>5 DEF Next

\* The invariant holds in every state.
LEMMA PlayInvariant == Spec => []PlayInv
BY PlayInit, PlayNext, PTL DEF Spec

\* The counters of audio_timing.c stay in their ranges, and the frames of the
\* jitter buffer and those taken from it fit in its pool.
THEOREM TypeCorrect == Spec => []TypeOK
<1>1. PlayInv => TypeOK
  <2> SUFFICES ASSUME PlayInv PROVE TypeOK
    OBVIOUS
  <2>1. Typed /\ Fits
    BY DEF PlayInv
  <2>2. reader.pc \in {"idle", "take", "judge", "done"}
    BY <2>1 DEF Typed, ReaderRec
  <2> QED
    BY <2>1, <2>2, Numbers DEF TypeOK, Typed, Fits, Place
<1> QED
  BY <1>1, PlayInvariant, PTL

\* audio_timing_read returns every slot it takes, whatever the RTSP and the
\* control task flush, reset or pause between its steps.
THEOREM SlotsKept == Spec => []SlotsReturned
<1>1. PlayInv => SlotsReturned
  BY DEF PlayInv
<1> QED
  BY <1>1, PlayInvariant, PTL

\* MAX_CONSECUTIVE_EARLY bounds the reads that hold a frame back, whatever
\* anchors come meanwhile.
THEOREM SilenceBounded == Spec => []EarlySilenceEnds
<1>1. PlayInv => EarlySilenceEnds
  <2> SUFFICES ASSUME PlayInv PROVE quiet <= MaxEarly
    BY DEF EarlySilenceEnds
  <2>1. quiet <= timing.early /\ quiet \in Nat /\ timing.early \in 0..MaxEarly
    BY Numbers DEF PlayInv, QuietCounted
  <2> QED
    BY <2>1, CountAssumption
<1> QED
  BY <1>1, PlayInvariant, PTL
=============================================================================
