-------------------------- MODULE AudioPathProofs --------------------------
(***************************************************************************)
(* Proofs about the audio path for every value of its constants, part by   *)
(* part: the binary search of the jitter buffer, the playback worker that  *)
(* waits for frames, the realtime stream and its sockets, the clock of the *)
(* phone and the playback that follows it, a seek, and the requests for    *)
(* missing packets.  What a part needs of its constants is a hypothesis of *)
(* its theorem, or follows from PathAssumption.  At the end the parts are  *)
(* put together.                                                           *)
(***************************************************************************)
EXTENDS AudioPath, RtpOrderProofs, SequenceTheorems, FiniteSetTheorems, TLAPS

\* What is known to the left of lo and from hi on.
Bracket == /\ lo > 0 => Before(stamp[lo - 1], timestamp)
           /\ hi < count => ~Before(stamp[hi], timestamp)

SearchInv == TypeOK /\ SortedIndex /\ Bracket

\* The search starts with the whole index.
LEMMA SearchInit == Init => SearchInv
BY DEF Init, SearchInv, TypeOK, Bracket

\* A probe halves the interval and keeps both ends of the bracket.
LEMMA SearchNext == SearchInv /\ [Next]_vars => SearchInv'
<1> SUFFICES ASSUME SearchInv, [Next]_vars
             PROVE  SearchInv'
  OBVIOUS
<1>1. CASE Probe
  <2> DEFINE mid == lo + (hi - lo) \div 2
  <2>1. lo \in Nat /\ hi \in Nat /\ count \in Nat /\ lo < hi /\ hi <= count
    BY <1>1, MaxCountAssumption DEF SearchInv, TypeOK, Probe
  <2>2. mid \in Nat /\ lo <= mid /\ mid < hi
    BY <2>1
  <2>3. UNCHANGED <<count, stamp, timestamp>>
    BY <1>1 DEF Probe
  <2>4. \/ Before(stamp[mid], timestamp) /\ lo' = mid + 1 /\ hi' = hi
        \/ ~Before(stamp[mid], timestamp) /\ hi' = mid /\ lo' = lo
    BY <1>1 DEF Probe
  <2> HIDE DEF mid
  <2>5. TypeOK'
    BY <2>1, <2>2, <2>3, <2>4 DEF SearchInv, TypeOK
  <2>6. SortedIndex'
    BY <2>3 DEF SearchInv, SortedIndex
  <2>7. Bracket'
    <3>1. CASE Before(stamp[mid], timestamp) /\ lo' = mid + 1 /\ hi' = hi
      <4>1. lo' - 1 = mid
        BY <2>2, <3>1
      <4> QED
        BY <2>3, <3>1, <4>1 DEF SearchInv, Bracket
    <3>2. CASE ~Before(stamp[mid], timestamp) /\ hi' = mid /\ lo' = lo
      BY <2>3, <3>2 DEF SearchInv, Bracket
    <3> QED
      BY <2>4, <3>1, <3>2
  <2> QED
    BY <2>5, <2>6, <2>7 DEF SearchInv
<1>2. CASE UNCHANGED vars
  BY <1>2 DEF SearchInv, TypeOK, SortedIndex, Bracket, vars
<1> QED
  BY <1>1, <1>2 DEF Next

\* The invariant holds in every state.
LEMMA SearchInvariant == Spec => []SearchInv
BY SearchInit, SearchNext, PTL DEF Spec

\* sorted_insert_pos reads only entries of the index.
THEOREM TypeCorrect == Spec => []TypeOK
<1>1. SearchInv => TypeOK
  BY DEF SearchInv
<1> QED
  BY <1>1, SearchInvariant, PTL

\* sorted_insert_pos returns a position whose neighbours are earlier and not
\* earlier than the new frame: what AudioBuffer's IsInsertPos assumes of it.
THEOREM FindsBoundary == Spec => []BoundaryFound
<1>1. SearchInv => BoundaryFound
  BY DEF SearchInv, Bracket, BoundaryFound, Done
<1> QED
  BY <1>1, SearchInvariant, PTL

\* In a sorted index the neighbours stand for all.
LEMMA BracketSplits == SearchInv => PositionSplits
<1>1. ASSUME SearchInv, Done, NEW i \in 0..(count - 1)
      PROVE  Before(stamp[i], timestamp) <=> i < lo
  <2> DEFINE T == {stamp[k] : k \in 0..(count - 1)} \cup {timestamp}
  <2>1. PICK b \in T : \A t \in T : Dist(b, t) < Half
    BY <1>1 DEF SearchInv, SortedIndex, OneArc, Dist
  <2>2. /\ count \in Nat /\ lo \in 0..count /\ hi = lo
        /\ timestamp \in T /\ T \subseteq Timestamp
        /\ \A k \in 0..(count - 1) : stamp[k] \in T
    BY <1>1, MaxCountAssumption DEF SearchInv, TypeOK, Done
  <2>3. \A x, y \in T : Before(x, y) <=> Dist(b, x) < Dist(b, y)
    BY <2>1, <2>2, ArcOrder
  <2>4. \A x \in T : Dist(b, x) \in Int
    <3>1. ASSUME NEW x \in T PROVE Dist(b, x) \in Int
      <4>1. x \in Timestamp /\ b \in Timestamp
        BY <2>1, <2>2
      <4> QED
        BY <4>1, ModulusAssumption DEF Dist, Timestamp
    <3> QED
      BY <3>1
  <2>5. \A k, l \in 0..(count - 1) : k < l => ~Before(stamp[l], stamp[k])
    BY <1>1 DEF SearchInv, SortedIndex
  <2> HIDE DEF T
  <2>6. \A k, l \in 0..(count - 1) : k <= l => Dist(b, stamp[k]) <= Dist(b, stamp[l])
    <3>1. ASSUME NEW k \in 0..(count - 1), NEW l \in 0..(count - 1), k < l
          PROVE  Dist(b, stamp[k]) <= Dist(b, stamp[l])
      BY <2>2, <2>3, <2>4, <2>5, <3>1
    <3> QED
      BY <2>2, <2>4, <3>1
  <2>7. CASE i < lo
    <3>1. Before(stamp[lo - 1], timestamp) /\ lo - 1 \in 0..(count - 1) /\ i <= lo - 1
      BY <1>1, <2>2, <2>7 DEF SearchInv, Bracket
    <3>2. /\ Dist(b, stamp[i]) <= Dist(b, stamp[lo - 1])
          /\ Dist(b, stamp[lo - 1]) < Dist(b, timestamp)
      BY <2>2, <2>3, <2>6, <3>1
    <3>3. Dist(b, stamp[i]) < Dist(b, timestamp)
      BY <2>2, <2>4, <3>1, <3>2
    <3> QED
      BY <2>2, <2>3, <2>7, <3>3
  <2>8. CASE lo <= i
    <3>1. ~Before(stamp[lo], timestamp) /\ lo \in 0..(count - 1)
      BY <1>1, <2>2, <2>8 DEF SearchInv, Bracket
    <3>2. /\ Dist(b, stamp[lo]) <= Dist(b, stamp[i])
          /\ ~(Dist(b, stamp[lo]) < Dist(b, timestamp))
      BY <2>2, <2>3, <2>6, <2>8, <3>1
    <3>3. ~(Dist(b, stamp[i]) < Dist(b, timestamp))
      BY <2>2, <2>4, <3>1, <3>2
    <3> QED
      BY <2>2, <2>3, <2>8, <3>3
  <2> QED
    BY <2>2, <2>7, <2>8
<1> QED
  BY <1>1 DEF PositionSplits

\* Every frame below the position found is earlier than the new one and no other
\* frame is.
THEOREM SplitsIndex == Spec => []PositionSplits
  BY BracketSplits, SearchInvariant, PTL

-----------------------------------------------------------------------------
(* The rebuffering of the playback worker.                                 *)

\* The levels lie in this order.
LEMMA LevelsOrdered ==
    ASSUME LevelsAssumption
    PROVE  /\ Worker!Target \in Nat /\ Worker!Target >= 4 /\ Worker!Capacity \in Nat
           /\ Worker!LowWater \in Nat /\ Worker!Resume \in Nat
           /\ Worker!Target < Worker!Capacity /\ Worker!LowWater <= Worker!Target
           /\ Worker!Target <= Worker!Resume
  <1>1. /\ Worker!Target \in Nat /\ Worker!Target >= 4 /\ Worker!Capacity \in Nat
        /\ Worker!Target < Worker!Capacity
    BY DEF LevelsAssumption, Worker!Target, Worker!Capacity, Worker!AtLeast
  <1> DEFINE t == Worker!Target
  <1>2. t \in Nat /\ t >= 4
    BY <1>1
  <1>3. /\ Worker!LowWater = CASE t <= 4 -> t [] t \in 5..8 -> t \div 2
                               [] OTHER -> Worker!AtLeast(t \div 3, 4)
        /\ Worker!Resume = Worker!AtLeast((t * 11 + 4) \div 10, t + 2)
    BY DEF Worker!LowWater, Worker!Resume
  <1> HIDE DEF t
  <1>4. Worker!LowWater \in Nat /\ Worker!LowWater <= t
    BY <1>2, <1>3 DEF Worker!AtLeast
  <1>5. Worker!Resume \in Nat /\ t <= Worker!Resume
    BY <1>2, <1>3 DEF Worker!AtLeast
  <1> QED
    BY <1>1, <1>4, <1>5 DEF t

\* After a rebuffering the buffer is as full as playout needs until audio was
\* written, so the next read finds some.
WorkerInv ==
    /\ Worker!TypeOK
    /\ rbStreak \in Nat
    /\ rbOn \in BOOLEAN /\ rbPlayed \in BOOLEAN /\ rbLive \in BOOLEAN
    /\ rbOn => rbAt = "look"
    /\ ~Flushes => rbLive
    /\ ~LateDrops /\ ~Flushes /\ ~rbOn /\ ~rbPlayed => rbBuf >= Worker!Target

\* It holds before the first round.
LEMMA WorkerInit == LevelsAssumption /\ Worker!Init => WorkerInv
<1> SUFFICES ASSUME LevelsAssumption, Worker!Init PROVE WorkerInv
  OBVIOUS
<1>1. Worker!TypeOK /\ rbStreak \in Nat /\ rbOn = FALSE /\ rbPlayed = TRUE /\ rbAt = "look"
  BY LevelsOrdered DEF LevelsAssumption, Worker!Init, Worker!TypeOK
<1>2. rbLive \in BOOLEAN /\ (~Flushes => rbLive)
  BY Zenon DEF Worker!Init
<1> QED
  BY <1>1, <1>2 DEF WorkerInv

\* No round and no other task breaks it.
LEMMA WorkerNext ==
    LevelsAssumption /\ WorkerInv /\ [Worker!Next]_(Worker!rbVars) => WorkerInv'
<1> SUFFICES ASSUME LevelsAssumption, WorkerInv, [Worker!Next]_(Worker!rbVars) PROVE WorkerInv'
  OBVIOUS
<1>0. /\ Worker!Target \in Nat /\ Worker!Target >= 4 /\ Worker!Capacity \in Nat /\ Worker!Resume \in Nat
      /\ Worker!Target < Worker!Capacity /\ Worker!LowWater <= Worker!Target
      /\ Worker!Target <= Worker!Resume
  BY LevelsOrdered
<1>00. /\ Streak \in Nat \ {0} /\ MaxRepeats \in Nat
       /\ LateDrops \in BOOLEAN /\ Flushes \in BOOLEAN
  BY DEF LevelsAssumption
<1> USE DEF WorkerInv, Worker!TypeOK
<1>1. CASE Worker!Look \/ Worker!Goes \/ UNCHANGED Worker!rbVars
  <2>3. Worker!TypeOK'
    BY <1>0, <1>00, <1>1 DEF Worker!Look, Worker!Goes, Worker!rbVars
  <2>4. /\ rbStreak' \in Nat /\ rbOn' \in BOOLEAN /\ rbPlayed' \in BOOLEAN
        /\ rbLive' \in BOOLEAN /\ (~Flushes => rbLive')
    BY <1>0, <1>00, <1>1 DEF Worker!Look, Worker!Goes, Worker!rbVars
  <2>5. (rbOn => rbAt = "look")'
    BY <1>0, <1>00, <1>1 DEF Worker!Look, Worker!Goes, Worker!rbVars
  <2>6. ~LateDrops /\ ~Flushes /\ ~rbOn' /\ ~rbPlayed' => rbBuf' >= Worker!Target
    BY <1>0, <1>00, <1>1 DEF Worker!Look, Worker!Goes, Worker!rbVars
  <2> QED
    BY <2>3, <2>4, <2>5, <2>6
<1>7. CASE Worker!GiveUp
  <2>3. Worker!TypeOK'
    BY <1>0, <1>00, <1>7 DEF Worker!GiveUp
  <2>4. /\ rbStreak' \in Nat /\ rbOn' \in BOOLEAN /\ rbPlayed' \in BOOLEAN
        /\ rbLive' \in BOOLEAN /\ (~Flushes => rbLive')
    BY <1>0, <1>00, <1>7 DEF Worker!GiveUp
  <2>5. (rbOn => rbAt = "look")'
    BY <1>0, <1>00, <1>7 DEF Worker!GiveUp
  <2>6. ~LateDrops /\ ~Flushes /\ ~rbOn' /\ ~rbPlayed' => rbBuf' >= Worker!Target
    BY <1>0, <1>00, <1>7 DEF Worker!GiveUp
  <2> QED
    BY <2>3, <2>4, <2>5, <2>6
<1>8. CASE Worker!Flush
  <2>3. Worker!TypeOK'
    BY <1>0, <1>00, <1>8 DEF Worker!Flush
  <2>4. /\ rbStreak' \in Nat /\ rbOn' \in BOOLEAN /\ rbPlayed' \in BOOLEAN
        /\ rbLive' \in BOOLEAN /\ (~Flushes => rbLive')
    BY <1>0, <1>00, <1>8 DEF Worker!Flush
  <2>5. (rbOn => rbAt = "look")'
    BY <1>0, <1>00, <1>8 DEF Worker!Flush
  <2>6. ~LateDrops /\ ~Flushes /\ ~rbOn' /\ ~rbPlayed' => rbBuf' >= Worker!Target
    BY <1>0, <1>00, <1>8 DEF Worker!Flush
  <2> QED
    BY <2>3, <2>4, <2>5, <2>6
<1>2. CASE Worker!Done
  <2>1. rbBuf >= Worker!Resume
    BY <1>00, <1>2 DEF Worker!Done, Worker!NextStreak
  <2>2. /\ UNCHANGED <<rbBuf, rbLive, rbPlayed>> /\ rbOn' = FALSE
        /\ rbStreak' = 0 /\ rbRepeats' = 0
    BY <1>2 DEF Worker!Done
  <2>3. Worker!TypeOK'
    BY <1>0, <1>00, <2>1, <2>2
  <2>4. rbStreak' \in Nat /\ rbOn' \in BOOLEAN /\ rbPlayed' \in BOOLEAN /\ rbLive' \in BOOLEAN /\ (~Flushes => rbLive')
    BY <1>0, <1>00, <2>1, <2>2
  <2>5. (rbOn => rbAt = "look")'
    BY <1>0, <1>00, <2>1, <2>2
  <2>6. rbBuf' >= Worker!Target'
    BY <1>0, <1>00, <2>1, <2>2
  <2> QED
    BY <2>3, <2>4, <2>5, <2>6
<1>3. CASE Worker!Wait
  BY <1>0, <1>00, <1>3 DEF Worker!Wait, Worker!NextStreak
<1>4. CASE Worker!Play
  BY <1>0, <1>00, <1>4 DEF Worker!Play, Worker!HasAudio
<1>5. CASE Worker!ReadNothing
  <2>1. /\ rbBuf' \in 0..Worker!Capacity /\ rbAt' = "look" /\ rbLive' = rbLive
        /\ rbBuf' = rbBuf \/ LateDrops
    BY <1>0, <1>5 DEF Worker!ReadNothing
  <2>2. \/ /\ rbOn' = TRUE /\ rbStreak' = 0 /\ rbRepeats' = MaxRepeats /\ rbPlayed' = FALSE
        \/ /\ UNCHANGED <<rbOn, rbStreak, rbPlayed>>
           /\ rbRepeats' = rbRepeats \/ (rbRepeats < MaxRepeats /\ rbRepeats' = rbRepeats + 1)
    BY <1>5 DEF Worker!ReadNothing, Worker!Enter, Worker!Conceal, Worker!MayRepeat
  <2>3. Worker!TypeOK'
    BY <1>0, <1>00, <2>1, <2>2
  <2>7. rbStreak' \in Nat /\ rbLive' \in BOOLEAN /\ (~Flushes => rbLive')
    BY <1>5, <2>1, <2>2
  <2>4. rbOn' \in BOOLEAN /\ rbPlayed' \in BOOLEAN
    BY <2>2
  <2>5. (rbOn => rbAt = "look")'
    BY <1>0, <1>00, <2>1, <2>2
  <2>6. ~LateDrops /\ ~Flushes /\ ~rbOn' /\ ~rbPlayed' => rbBuf' >= Worker!Target
    BY <1>0, <1>00, <2>1, <2>2
  <2> QED
    BY <2>3, <2>4, <2>5, <2>6, <2>7
<1>6. CASE Worker!Arrive
  BY <1>0, <1>00, <1>6 DEF Worker!Arrive
<1> QED
  BY <1>1, <1>2, <1>3, <1>4, <1>5, <1>6, <1>7, <1>8 DEF Worker!Next, Worker!Worker

\* A rebuffering begins only when audio was written since the one before it.
LEMMA WorkerSteps ==
    LevelsAssumption /\ ~LateDrops /\ ~Flushes /\ WorkerInv /\ Worker!Next => Worker!PlaysFirst
<1> SUFFICES ASSUME LevelsAssumption, ~LateDrops, ~Flushes, WorkerInv, Worker!Next
             PROVE  Worker!PlaysFirst
  OBVIOUS
<1>0. Worker!Target \in Nat /\ Worker!Target >= 4
  BY LevelsOrdered
<1>1. CASE Worker!ReadNothing
  BY <1>0, <1>1 DEF Worker!ReadNothing, Worker!HasAudio, Worker!Starts, Worker!PlaysFirst,
    WorkerInv, Worker!TypeOK
<1>2. CASE ~Worker!ReadNothing
  BY <1>2 DEF Worker!Next, Worker!Worker, Worker!Look, Worker!GiveUp, Worker!Done, Worker!Wait,
    Worker!Play, Worker!Arrive, Worker!Flush, Worker!Goes, Worker!PlaysFirst
<1> QED
  BY <1>1, <1>2

\* The levels of audio_timing.c keep the worker from bouncing: while the stream
\* stays, audio is written between two rebufferings, for every latency and budget.
THEOREM NoBouncing ==
    ASSUME LevelsAssumption
    PROVE  /\ Worker!Spec => []Worker!TypeOK
           /\ ~LateDrops /\ ~Flushes /\ Worker!Spec => Worker!PlaysBetween
<1>1. WorkerInv => Worker!TypeOK
  BY DEF WorkerInv
<1>2. Worker!Spec => []Worker!TypeOK
  BY <1>1, WorkerInit, WorkerNext, PTL DEF Worker!Spec
<1>3. ASSUME ~LateDrops, ~Flushes PROVE Worker!Spec => Worker!PlaysBetween
  <2>1. WorkerInv /\ [Worker!Next]_(Worker!rbVars) => [Worker!PlaysFirst]_(Worker!rbVars)
    BY <1>3, WorkerSteps
  <2> QED
    BY <2>1, WorkerInit, WorkerNext, PTL DEF Worker!Spec, Worker!PlaysBetween
<1> QED
  BY <1>2, <1>3

-----------------------------------------------------------------------------
(* The tasks of the realtime stream.                                       *)

Labels == {"idle", "format", "begin", "halt", "open", "destroy", "close", "wait data", "wait control"}
CallerRec == [at : Labels, next : Stream!After]

StreamTyped ==
    /\ strRunning \in BOOLEAN /\ strDecoder \in BOOLEAN
    /\ strSockets \in SUBSET Stream!Tasks /\ strHandles \in SUBSET Stream!Tasks
    /\ strTask \in [Stream!Tasks -> {"none", "waits", "works", "ends"}]
    /\ strLate \in SUBSET Stream!Tasks
    /\ strCaller \in [Stream!Callers -> CallerRec]

Single == "two callers" \notin Faults

\* A stream that is stopped has no task but one that its stop went on without or
\* has still to wait for; and one caller alone never stops what it has started.
StreamInv ==
    /\ StreamTyped
    /\ ~strRunning => \A t \in Stream!Tasks :
           Stream!Left(t) /\ (t \in strHandles => Stream!Awaited(t))
    /\ ~strRunning /\ "no stack" \notin Faults => strSockets = {}
    /\ Single => \A c \in Stream!Callers :
           strCaller[c].at \in {"wait data", "wait control", "open", "destroy"} => ~strRunning
    /\ Single /\ "socket" \notin Faults /\ strRunning =>
           /\ strHandles = strSockets
           /\ \A t \in strSockets : strTask[t] \in {"waits", "works"}

\* The stream starts stopped.
LEMMA StreamInit == Stream!Init => StreamInv
<1> SUFFICES ASSUME Stream!Init PROVE StreamInv
  OBVIOUS
<1>1. strCaller \in [Stream!Callers -> CallerRec]
  BY DEF Stream!Init, CallerRec, Labels, Stream!After
<1>2. StreamTyped
  BY <1>1 DEF Stream!Init, StreamTyped, Stream!Tasks
<1>3. \A c \in Stream!Callers : strCaller[c].at = "idle"
  BY DEF Stream!Init
<1>4. \A t \in Stream!Tasks : Stream!Left(t)
  BY DEF Stream!Init, Stream!Left
<1> QED
  BY <1>2, <1>3, <1>4 DEF Stream!Init, StreamInv

\* A caller that goes on, and the others, who do not.
LEMMA CallerMoves ==
    ASSUME StreamTyped, NEW c \in Stream!Callers, NEW label \in Labels, Stream!Goto(c, label)
    PROVE  /\ strCaller' \in [Stream!Callers -> CallerRec]
           /\ strCaller'[c].at = label
           /\ \A d \in Stream!Callers : d # c => strCaller'[d] = strCaller[d]
  BY DEF StreamTyped, CallerRec, Stream!Goto

\* One caller is alone.
LEMMA Alone == Single => \A c, d \in Stream!Callers : c = d
  BY DEF Single, Stream!Callers

\* A step in which only a caller that waits for nothing goes on, or the decoder
\* changes, and the waits of a stop are not skipped.
LEMMA CallerKeeps ==
    ASSUME StreamInv, NEW c \in Stream!Callers, NEW label \in Labels,
           strCaller[c].at \notin {"wait data", "wait control"},
           strCaller' \in [Stream!Callers -> CallerRec],
           strCaller'[c].at = label,
           \A d \in Stream!Callers : d # c => strCaller'[d] = strCaller[d],
           Single /\ label \in {"wait data", "wait control", "open", "destroy"} => ~strRunning,
           UNCHANGED <<strRunning, strTask, strHandles, strLate>>,
           strSockets' = strSockets, strDecoder' \in BOOLEAN
    PROVE  StreamInv'
<1>1. StreamTyped'
  BY DEF StreamInv, StreamTyped
<1>2. \A t \in Stream!Tasks : Stream!Awaited(t) => Stream!Awaited(t)'
  BY DEF Stream!Awaited, Stream!At, Stream!Wait
<1>3. \A t \in Stream!Tasks : Stream!Left(t) => Stream!Left(t)'
  BY <1>2 DEF Stream!Left
<1>4. Single => \A d \in Stream!Callers :
          strCaller'[d].at \in {"wait data", "wait control", "open", "destroy"} => ~strRunning'
  BY Alone DEF StreamInv
<1> QED
  BY <1>1, <1>2, <1>3, <1>4 DEF StreamInv

\* No operation of a caller breaks the invariant.
LEMMA ActsKeep ==
    ASSUME StreamInv, NEW c \in Stream!Callers, Stream!Call(c) \/ Stream!Acts(c)
    PROVE  StreamInv'
<1>0. StreamTyped
  BY DEF StreamInv
<1>1. CASE Stream!Call(c)
  <2>1. PICK call \in {"format", "begin", "halt"} : Stream!Goto(c, call)
    BY <1>1 DEF Stream!Call, Stream!Calls
  <2>2. call \in Labels
    BY DEF Labels
  <2> QED
    BY <1>0, <1>1, <2>1, <2>2, CallerMoves, CallerKeeps DEF Stream!Call, Stream!At, StreamTyped
<1>2. CASE Stream!Format(c) \/ Stream!Destroy(c)
  <2>1. Stream!Goto(c, "idle") /\ "idle" \in Labels /\ strDecoder' \in BOOLEAN
    BY <1>2 DEF Stream!Format, Stream!Destroy, Labels
  <2> QED
    BY <1>0, <1>2, <2>1, CallerMoves, CallerKeeps DEF Stream!Format, Stream!Destroy, Stream!At
<1>3. CASE Stream!Stopping(c)
  <2>1. PICK op \in {"open", "destroy"} : Stream!StopThen(c, op)
    BY <1>3 DEF Stream!Stopping
  <2> DEFINE label == IF strRunning THEN "close" ELSE op
  <2>2. label \in Labels /\ strCaller[c].at \in {"begin", "halt"}
    BY <1>3 DEF Labels, Stream!Stopping, Stream!At
  <2>3. strCaller' = [strCaller EXCEPT ![c] = [at |-> label, next |-> op]]
    BY <2>1 DEF Stream!StopThen
  <2>4. [at |-> label, next |-> op] \in CallerRec
    BY <2>2 DEF CallerRec, Stream!After
  <2>5. /\ strCaller' \in [Stream!Callers -> CallerRec] /\ strCaller'[c].at = label
        /\ \A d \in Stream!Callers : d # c => strCaller'[d] = strCaller[d]
    BY <1>0, <2>3, <2>4 DEF StreamTyped
  <2>6. UNCHANGED <<strRunning, strSockets, strTask, strHandles, strLate, strDecoder>>
    BY <1>3 DEF Stream!Stopping
  <2>7. label \in {"wait data", "wait control", "open", "destroy"} => ~strRunning
    OBVIOUS
  <2> HIDE DEF label
  <2> QED
    BY <1>0, <2>2, <2>5, <2>6, <2>7, CallerKeeps DEF StreamTyped
<1>4. CASE Stream!Close(c)
  <2>1. Stream!Goto(c, "wait data") /\ "wait data" \in Labels
    BY <1>4 DEF Stream!Close, Stream!WaitsAfter, Labels
  <2>2. /\ strCaller' \in [Stream!Callers -> CallerRec] /\ strCaller'[c].at = "wait data"
    BY <1>0, <2>1, CallerMoves
  <2>3. strRunning' = FALSE /\ strSockets' = {} /\ UNCHANGED <<strTask, strHandles, strLate, strDecoder>>
    BY <1>4 DEF Stream!Close
  <2>4. StreamTyped'
    BY <1>0, <2>2, <2>3 DEF StreamTyped
  <2>5. \A t \in Stream!Tasks : Stream!Awaited(t)'
    BY <2>2 DEF Stream!Awaited, Stream!At
  <2> QED
    BY <2>3, <2>4, <2>5 DEF StreamInv, Stream!Left
<1>5. CASE Stream!CloseNothing(c)
  <2> DEFINE label == strCaller[c].next
  <2>1. Stream!Goto(c, label) /\ ~strRunning /\ strCaller[c].at = "close"
    BY <1>5 DEF Stream!CloseNothing, Stream!At
  <2>2. label \in Labels
    BY <1>0 DEF StreamTyped, CallerRec, Stream!After, Labels
  <2>3. UNCHANGED <<strRunning, strSockets, strTask, strHandles, strLate, strDecoder>>
    BY <1>5 DEF Stream!CloseNothing
  <2> HIDE DEF label
  <2> QED
    BY <1>0, <2>1, <2>2, <2>3, CallerMoves, CallerKeeps DEF StreamTyped
<1>6. ASSUME NEW t \in Stream!Tasks, Stream!Waited(c, t) PROVE StreamInv'
  <2> DEFINE label == IF t = "data" THEN "wait control" ELSE strCaller[c].next
  <2>1. Stream!Goto(c, label) /\ strCaller[c].at = Stream!Wait(t)
    BY <1>6 DEF Stream!Waited, Stream!At
  <2>2. label \in Labels
    BY <1>0 DEF StreamTyped, CallerRec, Stream!After, Labels
  <2>3. /\ strHandles' = strHandles \ {t}
        /\ strLate' = IF strTask[t] = "none" THEN strLate ELSE strLate \cup {t}
        /\ UNCHANGED <<strRunning, strSockets, strTask, strDecoder>>
    BY <1>6 DEF Stream!Waited
  <2>4. /\ strCaller' \in [Stream!Callers -> CallerRec] /\ strCaller'[c].at = label
        /\ \A d \in Stream!Callers : d # c => strCaller'[d] = strCaller[d]
    BY <1>0, <2>1, <2>2, CallerMoves
  <2>5. StreamTyped'
    BY <1>0, <2>3, <2>4 DEF StreamTyped
  <2>6. \A u \in Stream!Tasks : u # t /\ Stream!Awaited(u) => Stream!Awaited(u)'
    BY <2>1, <2>4 DEF Stream!Awaited, Stream!At, Stream!Wait, Stream!Tasks
  <2>7. \A u \in Stream!Tasks : u # t /\ Stream!Left(u) => Stream!Left(u)'
    BY <2>3, <2>6 DEF Stream!Left
  <2>8. Stream!Left(t)'
    BY <2>3 DEF Stream!Left
  <2>9. Single => ~strRunning
    BY <2>1 DEF StreamInv, Stream!Wait
  <2> QED
    BY <2>3, <2>5, <2>6, <2>7, <2>8, <2>9 DEF StreamInv
<1>7. CASE Stream!OpenRuns(c)
  <2>1. Stream!Goto(c, "idle") /\ "idle" \in Labels
    BY <1>7 DEF Stream!OpenRuns, Labels
  <2> QED
    BY <1>0, <1>7, <2>1, CallerMoves, CallerKeeps DEF Stream!OpenRuns, Stream!At, StreamTyped
<1>8. ASSUME Stream!OpenFails(c) \/ Stream!Open(c)
      PROVE  /\ strCaller' \in [Stream!Callers -> CallerRec] /\ strCaller'[c].at = "idle"
             /\ strCaller[c].at = "open"
             /\ \A d \in Stream!Callers : d # c => strCaller'[d] = strCaller[d]
  <2>1. Stream!Goto(c, "idle") /\ "idle" \in Labels
    BY <1>8 DEF Stream!OpenFails, Stream!Open, Labels
  <2> QED
    BY <1>0, <1>8, <2>1, CallerMoves DEF Stream!OpenFails, Stream!Open, Stream!At
<1>9. CASE Stream!OpenFails(c)
  <2>1. /\ ~strRunning /\ strSockets' \in Stream!Opened
        /\ UNCHANGED <<strRunning, strTask, strHandles, strLate, strDecoder>>
    BY <1>9 DEF Stream!OpenFails
  <2>2. strSockets' \in SUBSET Stream!Tasks /\ ("no stack" \notin Faults => strSockets' = {})
    BY <2>1 DEF Stream!Opened
  <2>3. StreamTyped'
    BY <1>0, <1>8, <1>9, <2>1, <2>2 DEF StreamTyped
  <2>4. \A t \in Stream!Tasks : Stream!Awaited(t) => Stream!Awaited(t)'
    BY <1>8, <1>9 DEF Stream!Awaited, Stream!At, Stream!Wait
  <2>5. \A t \in Stream!Tasks : Stream!Left(t) => Stream!Left(t)'
    BY <2>1, <2>4 DEF Stream!Left
  <2> QED
    BY <2>1, <2>2, <2>3, <2>4, <2>5 DEF StreamInv
<1>10. CASE Stream!Open(c)
  <2>1. PICK made \in {{"data"}, Stream!Tasks} :
          /\ strSockets' = made /\ strHandles' = strHandles \cup made
          /\ strTask' = [t \in Stream!Tasks |-> IF t \in made THEN "waits" ELSE strTask[t]]
          /\ strLate' = strLate \ made /\ strRunning' = TRUE /\ strDecoder' = strDecoder
    BY <1>10 DEF Stream!Open
  <2>2. ~strRunning
    BY <1>10 DEF Stream!Open
  <2>3. StreamTyped'
    BY <1>0, <1>8, <1>10, <2>1 DEF StreamTyped, Stream!Tasks
  <2>4. ASSUME Single PROVE strHandles = {}
    <3>1. \A d \in Stream!Callers : strCaller[d].at = "open"
      BY <1>8, <1>10, <2>4, Alone
    <3>2. \A t \in Stream!Tasks : ~Stream!Awaited(t)
      BY <3>1 DEF Stream!Awaited, Stream!At, Stream!Wait
    <3> QED
      BY <1>0, <2>2, <3>2 DEF StreamInv, StreamTyped
  <2>5. Single => \A d \in Stream!Callers : strCaller'[d].at = "idle"
    BY <1>8, <1>10, Alone
  <2>6. Single => strHandles' = strSockets' /\ \A t \in strSockets' : strTask'[t] \in {"waits", "works"}
    BY <2>1, <2>4 DEF Stream!Tasks
  <2> QED
    BY <2>1, <2>3, <2>5, <2>6 DEF StreamInv
<1> QED
  BY <1>1, <1>2, <1>3, <1>4, <1>5, <1>6, <1>7, <1>9, <1>10 DEF Stream!Acts

\* Nor does a task.
LEMMA TasksKeep ==
    ASSUME StreamInv,
           \/ Stream!Packet \/ Stream!Decoded
           \/ \E t \in Stream!Tasks : Stream!Leave(t) \/ Stream!Gone(t)
    PROVE  StreamInv'
<1>0. StreamTyped /\ "data" \in Stream!Tasks
  BY DEF StreamInv, Stream!Tasks
<1>1. CASE Stream!Packet \/ Stream!Decoded
  <2>1. PICK v \in {"waits", "works"} :
          /\ strTask["data"] \in {"waits", "works"} /\ strTask' = [strTask EXCEPT !["data"] = v]
          /\ UNCHANGED <<strRunning, strSockets, strHandles, strLate, strDecoder, strCaller>>
    BY <1>1 DEF Stream!Packet, Stream!Decoded
  <2>2. /\ strTask' \in [Stream!Tasks -> {"none", "waits", "works", "ends"}]
        /\ \A t \in Stream!Tasks : strTask'[t] = IF t = "data" THEN v ELSE strTask[t]
    BY <1>0, <2>1 DEF StreamTyped
  <2>3. StreamTyped'
    BY <1>0, <2>1, <2>2 DEF StreamTyped
  <2>4. \A t : Stream!Awaited(t)' <=> Stream!Awaited(t)
    BY <2>1 DEF Stream!Awaited, Stream!At
  <2>5. \A t \in Stream!Tasks : Stream!Left(t) => Stream!Left(t)'
    BY <2>1, <2>2, <2>4 DEF Stream!Left
  <2>6. \A t \in Stream!Tasks : strTask[t] \in {"waits", "works"} => strTask'[t] \in {"waits", "works"}
    BY <2>2
  <2> QED
    BY <1>0, <2>1, <2>3, <2>4, <2>5, <2>6 DEF StreamInv, StreamTyped
<1>2. ASSUME NEW t \in Stream!Tasks, Stream!Leave(t) PROVE StreamInv'
  <2>1. /\ strTask[t] = "waits" /\ strHandles' = strHandles \ {t}
        /\ strTask' = [strTask EXCEPT ![t] = "ends"]
        /\ UNCHANGED <<strRunning, strSockets, strLate, strDecoder, strCaller>>
        /\ ~strRunning \/ t \notin strSockets \/ "socket" \in Faults
    BY <1>2 DEF Stream!Leave
  <2>2. /\ strTask' \in [Stream!Tasks -> {"none", "waits", "works", "ends"}]
        /\ \A u \in Stream!Tasks : strTask'[u] = IF u = t THEN "ends" ELSE strTask[u]
    BY <1>0, <2>1 DEF StreamTyped
  <2>3. StreamTyped'
    BY <1>0, <2>1, <2>2 DEF StreamTyped
  <2>4. \A u : Stream!Awaited(u)' <=> Stream!Awaited(u)
    BY <2>1 DEF Stream!Awaited, Stream!At
  <2>5. \A u \in Stream!Tasks : Stream!Left(u) => Stream!Left(u)'
    BY <2>1, <2>2, <2>4 DEF Stream!Left
  <2>6. ASSUME Single, "socket" \notin Faults, strRunning
        PROVE  strHandles' = strSockets' /\ \A u \in strSockets' : strTask'[u] \in {"waits", "works"}
    <3>1. strHandles = strSockets /\ \A u \in strSockets : strTask[u] \in {"waits", "works"}
      BY <2>6 DEF StreamInv
    <3>2. t \notin strSockets /\ strSockets' = strSockets
      BY <2>1, <2>6
    <3>3. strHandles' = strSockets'
      BY <2>1, <3>1, <3>2
    <3>4. strSockets \subseteq Stream!Tasks
      BY <1>0 DEF StreamTyped
    <3> QED
      BY <2>2, <3>1, <3>2, <3>3, <3>4
  <2> QED
    BY <1>0, <2>1, <2>3, <2>4, <2>5, <2>6 DEF StreamInv
<1>3. ASSUME NEW t \in Stream!Tasks, Stream!Gone(t) PROVE StreamInv'
  <2>1. /\ strTask[t] = "ends" /\ strLate' = strLate \ {t}
        /\ strTask' = [strTask EXCEPT ![t] = "none"]
        /\ UNCHANGED <<strRunning, strSockets, strHandles, strDecoder, strCaller>>
    BY <1>3 DEF Stream!Gone
  <2>2. /\ strTask' \in [Stream!Tasks -> {"none", "waits", "works", "ends"}]
        /\ \A u \in Stream!Tasks : strTask'[u] = IF u = t THEN "none" ELSE strTask[u]
    BY <1>0, <2>1 DEF StreamTyped
  <2>3. StreamTyped'
    BY <1>0, <2>1, <2>2 DEF StreamTyped
  <2>4. \A u : Stream!Awaited(u)' <=> Stream!Awaited(u)
    BY <2>1 DEF Stream!Awaited, Stream!At
  <2>5. \A u \in Stream!Tasks : Stream!Left(u) => Stream!Left(u)'
    BY <2>1, <2>2, <2>4 DEF Stream!Left
  <2>6. \A u \in Stream!Tasks : strTask[u] \in {"waits", "works"} => strTask'[u] = strTask[u]
    BY <2>1, <2>2
  <2> QED
    BY <1>0, <2>1, <2>3, <2>4, <2>5, <2>6 DEF StreamInv, StreamTyped
<1> QED
  BY <1>1, <1>2, <1>3

\* The invariant is inductive.
LEMMA StreamNext == StreamInv /\ [Stream!Next]_(Stream!strVars) => StreamInv'
<1>1. StreamInv /\ UNCHANGED Stream!strVars => StreamInv'
  <2> SUFFICES ASSUME StreamInv, UNCHANGED Stream!strVars PROVE StreamInv'
    OBVIOUS
  <2>1. UNCHANGED <<strRunning, strSockets, strTask, strHandles, strLate, strDecoder, strCaller>>
    BY DEF Stream!strVars
  <2>2. \A t : Stream!Awaited(t)' <=> Stream!Awaited(t)
    BY <2>1 DEF Stream!Awaited, Stream!At
  <2>3. \A t : Stream!Left(t)' <=> Stream!Left(t)
    BY <2>1, <2>2 DEF Stream!Left
  <2>4. StreamTyped'
    BY <2>1 DEF StreamInv, StreamTyped
  <2> QED
    BY <2>1, <2>2, <2>3, <2>4 DEF StreamInv
<1> QED
  BY <1>1, ActsKeep, TasksKeep DEF Stream!Next

\* When no call is under way the stream agrees with itself.
LEMMA IdleAgrees == StreamInv => Stream!StateAgrees
<1> SUFFICES ASSUME StreamInv, Stream!Idle PROVE Stream!StateAgrees!2
  BY DEF Stream!StateAgrees
<1>1. \A t \in Stream!Tasks : ~Stream!Awaited(t)
  BY DEF Stream!Idle, Stream!Awaited, Stream!At, Stream!Wait
<1> QED
  BY <1>1 DEF StreamInv, StreamTyped, Single

\* What a step does to stacks and decoder.
LEMMA StreamSteps ==
    StreamInv /\ Stream!Next => Stream!TakesFreeStack /\ Stream!KeepsDecoder
<1> SUFFICES ASSUME StreamInv, Stream!Next
             PROVE  Stream!TakesFreeStack /\ Stream!KeepsDecoder
  OBVIOUS
<1>1. Stream!TakesFreeStack
  BY DEF StreamInv, Stream!TakesFreeStack
<1>2. "data" \in Stream!Tasks
  BY DEF Stream!Tasks
<1>3. CASE \/ Stream!Packet \/ Stream!Decoded
           \/ \E t \in Stream!Tasks : Stream!Leave(t) \/ Stream!Gone(t)
  <2>1. strDecoder' = strDecoder
    BY <1>3 DEF Stream!Packet, Stream!Decoded, Stream!Leave, Stream!Gone
  <2> QED
    BY <1>1, <2>1 DEF Stream!KeepsDecoder
<1>4. ASSUME NEW c \in Stream!Callers, Stream!Call(c) \/ Stream!Acts(c) PROVE Stream!KeepsDecoder
  <2>1. CASE ~strRunning
    BY <1>2, <2>1 DEF StreamInv, Stream!KeepsDecoder
  <2>2. CASE Stream!Format(c) /\ strRunning
    BY <2>2 DEF Stream!Format, Stream!KeepsDecoder
  <2>3. CASE Stream!Destroy(c) /\ strRunning
    <3>1. strCaller[c].at = "destroy"
      BY <2>3 DEF Stream!Destroy, Stream!At
    <3> QED
      BY <2>3, <3>1 DEF StreamInv, Single, Stream!KeepsDecoder
  <2>4. CASE \/ Stream!Call(c) \/ Stream!Stopping(c) \/ Stream!Close(c) \/ Stream!CloseNothing(c)
             \/ Stream!OpenFails(c) \/ Stream!Open(c) \/ Stream!OpenRuns(c)
             \/ \E t \in Stream!Tasks : Stream!Waited(c, t)
    BY <2>4 DEF Stream!Call, Stream!Stopping, Stream!Close, Stream!CloseNothing, Stream!OpenFails,
      Stream!Open, Stream!OpenRuns, Stream!Waited, Stream!KeepsDecoder
  <2> QED
    BY <1>4, <2>1, <2>2, <2>3, <2>4 DEF Stream!Acts
<1> QED
  BY <1>1, <1>3, <1>4 DEF Stream!Next

\* However long its tasks outlive a stop, whenever an ANNOUNCE comes, and with one
\* caller or two: a stack that is taken and a decoder that goes are in use only
\* where a stop went on without the task, has still to wait for it, or the stream
\* runs and a call replaces its decoder; between two calls a stopped stream keeps
\* no handle, no socket that a start did not leave, and no task but such a one.
THEOREM StreamOrderly ==
    Stream!Spec => []Stream!StateAgrees /\ Stream!StackFree /\ Stream!DecoderStays
<1>1. StreamInv /\ [Stream!Next]_(Stream!strVars) =>
          [Stream!TakesFreeStack /\ Stream!KeepsDecoder]_(Stream!strVars)
  BY StreamSteps
<1> QED
  BY <1>1, StreamInit, StreamNext, IdleAgrees, PTL
    DEF Stream!Spec, Stream!StackFree, Stream!DecoderStays

\* A nonempty set of naturals has a least element: the intervals 0..n of its
\* elements are finite sets, and those are well founded by inclusion.
LEMMA LeastNatural ==
    ASSUME NEW S \in SUBSET Nat, S # {}
    PROVE  \E m \in S : \A n \in S : m <= n
<1> DEFINE R == StrictSubsetOrdering(Nat)
           T == {0..n : n \in S}
<1>1. IsWellFoundedOn(R, FiniteSubsetsOf(Nat))
  BY FS_StrictSubsetOrderingWellFounded
<1>2. T \subseteq FiniteSubsetsOf(Nat)
  <2> SUFFICES ASSUME NEW n \in S PROVE 0..n \in FiniteSubsetsOf(Nat)
    OBVIOUS
  <2>1. IsFiniteSet(0..n)
    BY FS_Interval
  <2>2. 0..n \in SUBSET Nat
    OBVIOUS
  <2> QED
    BY <2>1, <2>2 DEF FiniteSubsetsOf
<1>3. T # {}
  OBVIOUS
<1>4. \A X, Y \in SUBSET Nat : X \subseteq Y /\ X # Y => <<X, Y>> \in R
  BY DEF StrictSubsetOrdering
<1> HIDE DEF R
<1>5. PICK X \in T : \A Y \in T : ~(<<Y, X>> \in R)
  <2> HIDE DEF T
  <2> QED
    BY <1>1, <1>2, <1>3, WFMin
<1>6. PICK m \in S : X = 0..m
  BY <1>5
<1>7. ASSUME NEW n \in S, n < m PROVE FALSE
  <2>1. 0..n \subseteq 0..m /\ m \in 0..m /\ ~(m \in 0..n) /\ 0..n \in T
    BY <1>7
  <2>2. <<0..n, 0..m>> \in R
    BY <1>4, <2>1
  <2> QED
    BY <1>5, <1>6, <2>1, <2>2
<1>8. \A n \in S : m <= n
  BY <1>7
<1> QED BY <1>8
-----------------------------------------------------------------------------
(* The clock of the phone, and the playback that follows it.               *)

Measurement == [offset : Int, disp : Nat]
NetRec == [offset : TrueOffsets, steps : Nat]
NtpRec == [sane : BOOLEAN, tracking : BOOLEAN, locked : BOOLEAN, offset : Int, good : Int,
           accepted : 0..Bootstrap, streak : 0..MaxStreak + 1, age : 0..Mode!NoAge]

\* The estimate is that of a measurement kept, of least uncertainty.
IsBest(offset, all) == \E i \in 1..Len(all) : /\ all[i].offset = offset
                                              /\ \A j \in 1..Len(all) : all[i].disp <= all[j].disp

RingTyped == /\ ntpRing.all \in Seq(Measurement) /\ Len(ntpRing.all) <= History
             /\ ntpRing.at \in 1..History

ClockInv ==
    /\ ntpNet \in NetRec
    /\ RingTyped
    /\ ntpNet.steps = 0 => \A i \in 1..Len(ntpRing.all) :
          Mode!Distance(ntpRing.all[i].offset, ntpNet.offset) <= ntpRing.all[i].disp
    /\ Mode!NoZeroOffset => \A i \in 1..Len(ntpRing.all) : ntpRing.all[i].offset # 0
    /\ ntpRing.all # <<>> => IsBest(ntp.offset, ntpRing.all)
    /\ ntp \in NtpRec /\ ntp.good = ntp.offset

\* A client that starts has no measurement.
LEMMA ClockInit == ClockAssumption /\ Mode!NtpInit => ClockInv
<1> SUFFICES ASSUME ClockAssumption, Mode!NtpInit PROVE ClockInv
  OBVIOUS
<1>1. Mode!Min(TrueOffsets) \in TrueOffsets
  BY DEF Mode!Min, ClockAssumption
<1>2. ntpNet \in NetRec
  BY <1>1 DEF Mode!NtpInit, NetRec
<1>3. ntpRing.all = <<>> /\ ntpRing.at = 1 /\ ntp.offset = 0 /\ ntp.good = 0
  BY DEF Mode!NtpInit, Mode!Empty, Mode!Reset
<1>4. ntp \in NtpRec
  BY DEF Mode!NtpInit, Mode!Reset, Mode!NoAge, NtpRec, ClockAssumption
<1> QED
  BY <1>2, <1>3, <1>4, EmptySeq DEF ClockInv, RingTyped, ClockAssumption

\* Of the measurements kept there is one of least uncertainty.
LEMMA LeastUncertain ==
    ASSUME NEW all \in Seq(Measurement), all # <<>>
    PROVE  LET least == Mode!Min({all[i].disp : i \in 1..Len(all)})
           IN  /\ \E i \in 1..Len(all) : all[i].disp = least
               /\ \A j \in 1..Len(all) : least <= all[j].disp
<1> DEFINE S == {all[i].disp : i \in 1..Len(all)}
<1>1. S \in SUBSET Nat
  <2> SUFFICES ASSUME NEW i \in 1..Len(all) PROVE all[i].disp \in Nat
    OBVIOUS
  <2>1. all[i] \in Measurement
    BY ElementOfSeq
  <2> QED
    BY <2>1 DEF Measurement
<1>2. 1 \in 1..Len(all)
  BY EmptySeq
<1>3. S # {}
  BY <1>2
<1> HIDE DEF S
<1>4. \E n \in S : \A m \in S : n <= m
  BY <1>1, <1>3, LeastNatural
<1>5. Mode!Min(S) \in S /\ \A m \in S : Mode!Min(S) <= m
  BY <1>4 DEF Mode!Min
<1> QED
  BY <1>5 DEF S

\* accept_measurement takes the offset of one of least uncertainty.
LEMMA BestIsBest ==
    ASSUME NEW all \in Seq(Measurement), NEW k \in 1..Len(all), NEW m, all[k] = m
    PROVE  \E i \in 1..Len(all) : /\ Mode!Best(all, m) = all[i]
                                  /\ \A j \in 1..Len(all) : all[i].disp <= all[j].disp
<1> DEFINE least == Mode!Min({all[i].disp : i \in 1..Len(all)})
           I == {i \in 1..Len(all) : all[i].disp = least}
<1>1. all # <<>>
  OBVIOUS
<1>2. (\E i \in 1..Len(all) : all[i].disp = least) /\ \A j \in 1..Len(all) : least <= all[j].disp
  BY <1>1, LeastUncertain
<1>3. Mode!Best(all, m) = IF m.disp = least THEN m ELSE all[Mode!Min(I)]
  BY DEF Mode!Best
<1> HIDE DEF least
<1>4. Mode!Min(I) \in I
  <2>1. I \in SUBSET Nat /\ I # {}
    BY <1>2
  <2>2. \E n \in I : \A j \in I : n <= j
    BY <2>1, LeastNatural
  <2> QED
    BY <2>2 DEF Mode!Min
<1>5. CASE m.disp = least
  BY <1>2, <1>3, <1>5
<1>6. CASE m.disp # least
  BY <1>2, <1>3, <1>4, <1>6
<1> QED
  BY <1>5, <1>6

\* A ring with one more measurement: nothing else is new in it.
LEMMA KeptRing ==
    ASSUME ClockAssumption, RingTyped, NEW m \in Measurement
    PROVE  LET ring == Mode!Kept(m)
           IN  /\ ring.all \in Seq(Measurement) /\ Len(ring.all) <= History
               /\ ring.at \in 1..History
               /\ \E k \in 1..Len(ring.all) : ring.all[k] = m
               /\ \A i \in 1..Len(ring.all) :
                     ring.all[i] = m \/ \E j \in 1..Len(ntpRing.all) : ring.all[i] = ntpRing.all[j]
<1> DEFINE all == ntpRing.all
           at == ntpRing.at
           grown == Append(all, m)
           swapped == [all EXCEPT ![at] = m]
           ring == Mode!Kept(m)
<1>1. /\ all \in Seq(Measurement) /\ Len(all) \in Nat /\ Len(all) <= History
      /\ at \in 1..History /\ History \in Nat \ {0}
  BY LenProperties DEF RingTyped, ClockAssumption
<1>2. ring.all = (IF Len(all) < History THEN grown ELSE swapped) /\ ring.at = (at % History) + 1
  BY DEF Mode!Kept
<1>3. ring.at \in 1..History
  BY <1>1, <1>2
<1>4. CASE Len(all) < History
  <2>1. /\ grown \in Seq(Measurement) /\ Len(grown) = Len(all) + 1
        /\ \A i \in 1..Len(all) : grown[i] = all[i]
        /\ grown[Len(all) + 1] = m
    BY <1>1, AppendProperties
  <2>2. ring.all = grown
    BY <1>2, <1>4
  <2> HIDE DEF grown, ring, all, at
  <2>3. Len(all) + 1 \in 1..Len(grown)
    BY <1>1, <2>1
  <2>4. \A i \in 1..Len(grown) : grown[i] = m \/ \E j \in 1..Len(all) : grown[i] = all[j]
    <3> SUFFICES ASSUME NEW i \in 1..Len(grown), i # Len(all) + 1
                 PROVE  \E j \in 1..Len(all) : grown[i] = all[j]
      BY <2>1
    <3>1. i \in 1..Len(all)
      BY <1>1, <2>1
    <3> QED
      BY <2>1, <3>1
  <2>5. Len(grown) <= History
    BY <1>1, <1>4, <2>1
  <2> QED
    BY <1>3, <2>1, <2>2, <2>3, <2>4, <2>5 DEF ring, all
<1>5. CASE ~(Len(all) < History)
  <2>1. Len(all) = History /\ at \in 1..Len(all)
    BY <1>1, <1>5
  <2>2. /\ swapped \in Seq(Measurement) /\ Len(swapped) = Len(all)
        /\ \A i \in 1..Len(all) : swapped[i] = IF i = at THEN m ELSE all[i]
    BY <1>1, <2>1, ExceptSeq
  <2>3. ring.all = swapped
    BY <1>2, <1>5
  <2> HIDE DEF swapped, ring, all, at
  <2> QED
    BY <1>1, <1>3, <2>1, <2>2, <2>3 DEF ring, all
<1> QED
  BY <1>4, <1>5

\* What a measurement says of the offset is off by its uncertainty at most.
LEMMA MeasurementSound ==
    ASSUME ClockAssumption, NEW o \in Int, NEW there \in Delays, NEW back \in Delays
    PROVE  LET m == [offset |-> o + (there - back) \div 2, disp |-> (there + back) \div 2]
           IN  m \in Measurement /\ Mode!Distance(m.offset, o) <= m.disp
<1>1. PICK x \in Nat : there = 2 * x
  BY DEF ClockAssumption
<1>2. PICK y \in Nat : back = 2 * y
  BY DEF ClockAssumption
<1>3. (there - back) \div 2 = x - y /\ (there + back) \div 2 = x + y
  BY <1>1, <1>2
<1> QED
  BY <1>3 DEF Measurement, Mode!Distance

\* An answer that is taken keeps what is known of the estimate.
LEMMA AcceptKeeps ==
    ASSUME ClockAssumption, ClockInv, NEW m \in Measurement, Mode!Accept(m), UNCHANGED ntpNet,
           ntpNet.steps = 0 => Mode!Distance(m.offset, ntpNet.offset) <= m.disp,
           Mode!NoZeroOffset => m.offset # 0
    PROVE  ClockInv' /\ (Mode!NoZeroOffset => ntp'.offset # 0)
<1> DEFINE ring == Mode!Kept(m)
           best == Mode!Best(ring.all, m)
           taken == IF ntp.accepted < Bootstrap THEN ntp.accepted + 1 ELSE Bootstrap
<1>1. ntpRing' = ring
  BY DEF Mode!Accept
<1>2. /\ ring.all \in Seq(Measurement) /\ Len(ring.all) <= History
      /\ ring.at \in 1..History
      /\ \E k \in 1..Len(ring.all) : ring.all[k] = m
      /\ \A i \in 1..Len(ring.all) :
            ring.all[i] = m \/ \E j \in 1..Len(ntpRing.all) : ring.all[i] = ntpRing.all[j]
  BY KeptRing DEF ClockInv
<1>3. \E i \in 1..Len(ring.all) : /\ best = ring.all[i]
                                  /\ \A j \in 1..Len(ring.all) : ring.all[i].disp <= ring.all[j].disp
  <2> HIDE DEF ring
  <2> DEFINE all == ring.all
  <2>1. PICK k \in 1..Len(all) : all[k] = m
    BY <1>2
  <2>2. all \in Seq(Measurement)
    BY <1>2
  <2> HIDE DEF all
  <2>3. \E i \in 1..Len(all) : /\ Mode!Best(all, m) = all[i]
                               /\ \A j \in 1..Len(all) : all[i].disp <= all[j].disp
    BY <2>1, <2>2, BestIsBest
  <2> QED
    BY <2>3 DEF all
<1>4. ntp' = [ntp EXCEPT !.offset = best.offset, !.good = best.offset,
                         !.sane = TRUE, !.accepted = taken, !.streak = 0, !.age = 0,
                         !.tracking = @ \/ taken = Bootstrap,
                         !.locked = @ \/ (~ntp.tracking /\ taken = Bootstrap)]
  BY DEF Mode!Accept
<1> HIDE DEF best, ring
<1>5. best \in Measurement
  BY <1>2, <1>3, ElementOfSeq
<1>6. taken \in 0..Bootstrap
  BY DEF ClockInv, NtpRec, ClockAssumption
<1>7. ntp' \in NtpRec
  <2> DEFINE tracking == ntp.tracking \/ taken = Bootstrap
             locked == ntp.locked \/ (~ntp.tracking /\ taken = Bootstrap)
  <2>1. tracking \in BOOLEAN /\ locked \in BOOLEAN
    OBVIOUS
  <2>2. ntp \in NtpRec
    BY DEF ClockInv
  <2>3. 0 \in 0..Mode!NoAge /\ 0 \in 0..MaxStreak + 1 /\ best.offset \in Int
    BY <1>5 DEF ClockAssumption, Mode!NoAge, Measurement
  <2>4. ntp' = [ntp EXCEPT !.offset = best.offset, !.good = best.offset,
                           !.sane = TRUE, !.accepted = taken, !.streak = 0, !.age = 0,
                           !.tracking = tracking, !.locked = locked]
    BY <1>4, <2>2 DEF NtpRec
  <2> HIDE DEF tracking, locked, taken
  <2> QED
    BY <1>6, <2>1, <2>2, <2>3, <2>4 DEF NtpRec
<1>8. ntp'.offset = best.offset /\ ntp'.good = best.offset
  BY <1>4 DEF ClockInv, NtpRec
<1>9. IsBest(best.offset, ring.all)
  BY <1>3 DEF IsBest
<1>10. ntpNet.steps = 0 => \A i \in 1..Len(ring.all) :
          Mode!Distance(ring.all[i].offset, ntpNet.offset) <= ring.all[i].disp
  BY <1>2 DEF ClockInv
<1>11. Mode!NoZeroOffset => \A i \in 1..Len(ring.all) : ring.all[i].offset # 0
  BY <1>2 DEF ClockInv
<1>12. Mode!NoZeroOffset => best.offset # 0
  BY <1>3, <1>11
<1>13. RingTyped'
  BY <1>1, <1>2 DEF RingTyped
<1>14. Mode!NoZeroOffset' = Mode!NoZeroOffset
  BY DEF Mode!NoZeroOffset
<1>15. ntpNet' \in NetRec
  BY DEF ClockInv
<1>16. ntpNet'.steps = 0 => \A i \in 1..Len(ntpRing'.all) :
          Mode!Distance(ntpRing'.all[i].offset, ntpNet'.offset) <= ntpRing'.all[i].disp
  BY <1>1, <1>10
<1>17. Mode!NoZeroOffset => \A i \in 1..Len(ntpRing'.all) : ntpRing'.all[i].offset # 0
  BY <1>1, <1>11
<1>18. IsBest(ntp'.offset, ntpRing'.all)
  BY <1>1, <1>8, <1>9
<1> QED
  BY <1>7, <1>8, <1>12, <1>13, <1>15, <1>16, <1>17, <1>18 DEF ClockInv, Mode!NoZeroOffset, IsBest, Mode!Distance

\* An answer that is rejected changes no estimate.
LEMMA RejectedTyped ==
    ASSUME ClockAssumption, ntp \in NtpRec
    PROVE  Mode!Rejected \in NtpRec /\ Mode!Rejected.offset = ntp.offset
           /\ Mode!Rejected.good = ntp.good
<1> DEFINE streak == IF ntp.streak > MaxStreak THEN ntp.streak ELSE ntp.streak + 1
           locked == ntp.locked /\ ntp.age < LockAge
           fresh == [ntp EXCEPT !.sane = TRUE, !.streak = streak]
           stale == [ntp EXCEPT !.sane = FALSE, !.streak = streak, !.locked = locked]
<1>1. Mode!Rejected \in {fresh, stale}
  BY DEF Mode!Rejected, NtpRec
<1>2. streak \in 0..MaxStreak + 1
  BY DEF NtpRec, ClockAssumption
<1>3. locked \in BOOLEAN
  BY DEF NtpRec
<1> HIDE DEF streak, locked
<1>4. fresh \in NtpRec /\ fresh.offset = ntp.offset /\ fresh.good = ntp.good
  BY <1>2 DEF NtpRec
<1>5. stale \in NtpRec /\ stale.offset = ntp.offset /\ stale.good = ntp.good
  BY <1>2, <1>3 DEF NtpRec
<1> QED
  BY <1>1, <1>4, <1>5

\* The steps of the client, of the phone and of time keep what is known of the
\* estimate, and an estimate that is not zero.
LEMMA NtpKeeps ==
    ASSUME ClockAssumption, ClockInv, Mode!NtpRuns
    PROVE  ClockInv' /\ (Mode!NoZeroOffset /\ ntp.offset # 0 => ntp'.offset # 0)
<1>1. CASE UNCHANGED <<ntpNet, ntp, ntpRing>>
  BY <1>1 DEF ClockInv, RingTyped, IsBest, Mode!NoZeroOffset, Mode!Distance
<1>2. CASE UNCHANGED ntpNet /\ Mode!Stopped
  <2> DEFINE stopped == [Mode!Reset EXCEPT !.offset = ntp.offset, !.good = ntp.good]
  <2>1. ntp' = stopped /\ ntpRing' = [ntpRing EXCEPT !.all = <<>>]
    BY <1>2 DEF Mode!Stopped
  <2>2. stopped \in NtpRec /\ stopped.offset = ntp.offset /\ stopped.good = ntp.good
    <3>1. Mode!Reset \in NtpRec
      BY DEF Mode!Reset, Mode!NoAge, NtpRec, ClockAssumption
    <3>2. ntp.offset \in Int /\ ntp.good \in Int
      BY DEF ClockInv, NtpRec
    <3> QED
      BY <3>1, <3>2 DEF NtpRec
  <2>3. ntpRing'.all = <<>> /\ ntpRing'.at = ntpRing.at
    <3>1. ntpRing.all \in Seq(Measurement) /\ ntpRing.at \in 1..History
      BY DEF ClockInv, RingTyped
    <3> QED
      BY <2>1 DEF ClockInv, RingTyped
  <2>4. RingTyped'
    BY <2>3, EmptySeq DEF RingTyped, ClockInv, ClockAssumption
  <2>5. 1..Len(ntpRing'.all) = {}
    BY <2>3, EmptySeq
  <2> QED
    BY <1>2, <2>1, <2>2, <2>3, <2>4, <2>5 DEF ClockInv, Mode!NoZeroOffset
<1>3. ASSUME NEW there \in Delays, NEW back \in Delays, Mode!Answer(there, back)
      PROVE  ClockInv' /\ (Mode!NoZeroOffset /\ ntp.offset # 0 => ntp'.offset # 0)
  <2> DEFINE m == [offset |-> ntpNet.offset + (there - back) \div 2, disp |-> (there + back) \div 2]
  <2>1. UNCHANGED ntpNet
    BY <1>3 DEF Mode!Answer
  <2>2. ntpNet.offset \in TrueOffsets /\ ntpNet.offset \in Int
    BY DEF ClockInv, NetRec, ClockAssumption
  <2>3. m \in Measurement /\ Mode!Distance(m.offset, ntpNet.offset) <= m.disp
    BY <2>2, MeasurementSound
  <2>4. Mode!NoZeroOffset => m.offset # 0
    BY <2>2 DEF Mode!NoZeroOffset
  <2>5. CASE Mode!Accept(m)
    <3> HIDE DEF m
    <3> QED
      BY <2>1, <2>3, <2>4, <2>5, AcceptKeeps
  <2>6. CASE ntp' = Mode!Rejected /\ UNCHANGED ntpRing
    <3>1. ntp' \in NtpRec /\ ntp'.offset = ntp.offset /\ ntp'.good = ntp.good
      BY <2>6, RejectedTyped DEF ClockInv
    <3> QED
      BY <2>1, <2>6, <3>1 DEF ClockInv, RingTyped, IsBest, Mode!NoZeroOffset, Mode!Distance
  <2> QED
    BY <1>3, <2>5, <2>6 DEF Mode!Answer
<1>4. CASE Mode!Round
  <2> DEFINE older == [ntp EXCEPT !.age = ntp.age + 1]
  <2>1. ntp' = older /\ UNCHANGED <<ntpNet, ntpRing>> /\ ntp.age < LockAge
    BY <1>4 DEF Mode!Round, ClockInv, NtpRec
  <2>2. ntp.age + 1 \in 0..Mode!NoAge
    BY <2>1 DEF Mode!NoAge, ClockInv, NtpRec, ClockAssumption
  <2>3. older \in NtpRec /\ older.offset = ntp.offset /\ older.good = ntp.good
    BY <2>2 DEF ClockInv, NtpRec
  <2> QED
    BY <2>1, <2>3 DEF ClockInv, RingTyped, IsBest, Mode!NoZeroOffset, Mode!Distance
<1>5. CASE Mode!PhoneSets
  <2>1. PICK offset \in TrueOffsets : ntpNet' = [offset |-> offset, steps |-> ntpNet.steps + 1]
    BY <1>5 DEF Mode!PhoneSets
  <2>2. ntpNet' \in NetRec /\ ntpNet'.steps # 0
    BY <2>1 DEF ClockInv, NetRec
  <2>3. UNCHANGED <<ntp, ntpRing>>
    BY <1>5 DEF Mode!PhoneSets
  <2> QED
    BY <2>2, <2>3 DEF ClockInv, RingTyped, IsBest, Mode!NoZeroOffset
<1>6. CASE Mode!Stop
  BY <1>1, <1>2, <1>6 DEF Mode!Stop
<1>7. CASE Mode!TaskEnds \/ Mode!TaskBreaks
  BY <1>1, <1>7 DEF Mode!TaskEnds, Mode!TaskBreaks
<1>8. CASE Mode!StopEnds
  BY <1>2, <1>8 DEF Mode!StopEnds
<1> QED
  BY <1>3, <1>4, <1>5, <1>6, <1>7, <1>8 DEF Mode!NtpRuns

\* A start forgets every measurement.
LEMMA StartKeeps ==
    ASSUME ClockAssumption, ClockInv, NEW phone, Mode!Start(phone)
    PROVE  ClockInv'
<1>1. ntp' = Mode!Reset /\ ntpRing'.all = <<>> /\ ntpRing'.at = 1 /\ UNCHANGED ntpNet
  BY DEF Mode!Start, Mode!Empty
<1>2. ntp' \in NtpRec /\ ntp'.good = ntp'.offset
  BY <1>1 DEF Mode!Reset, Mode!NoAge, NtpRec, ClockAssumption
<1>3. RingTyped' /\ 1..Len(ntpRing'.all) = {}
  BY <1>1, EmptySeq DEF RingTyped, ClockAssumption
<1> QED
  BY <1>1, <1>2, <1>3 DEF ClockInv, Mode!NoZeroOffset

-----------------------------------------------------------------------------
\* Two tasks at most, whatever the starts and the stops do.
TaskTyped == ntpTask \in [running : BOOLEAN, stopping : BOOLEAN, tasks : 0..2,
                          phone : Phones \cup {"none"}]

LEMMA TaskTypeInit == Mode!NtpInit => TaskTyped
  BY DEF Mode!NtpInit, TaskTyped

LEMMA TaskTypeNext == TaskTyped /\ [Mode!Next]_(Mode!syncVars) => TaskTyped'
<1> SUFFICES ASSUME TaskTyped, [Mode!Next]_(Mode!syncVars) PROVE TaskTyped'
  OBVIOUS
<1> USE DEF Mode!ntpVars
<1>1. ASSUME NEW phone \in Phones, Mode!Start(phone) PROVE TaskTyped'
  <2>1. \/ ntpTask' = [ntpTask EXCEPT !.running = TRUE, !.tasks = @ + 1, !.phone = phone]
        \/ ntpTask' = [ntpTask EXCEPT !.phone = phone]
    BY <1>1 DEF Mode!Start
  <2>2. ntpTask.tasks + 1 \in 0..2
    BY <1>1 DEF Mode!Start, TaskTyped
  <2> QED
    BY <1>1, <2>1, <2>2 DEF TaskTyped
<1>2. CASE Mode!Stop
  <2> DEFINE waits == ntpTask.tasks > 0
  <2>1. ntpTask' = [ntpTask EXCEPT !.running = FALSE, !.stopping = waits]
    BY <1>2 DEF Mode!Stop
  <2>2. waits \in BOOLEAN
    OBVIOUS
  <2> HIDE DEF waits
  <2> QED
    BY <2>1, <2>2 DEF TaskTyped
<1>3. CASE Mode!TaskEnds \/ Mode!TaskBreaks
  <2>1. ntpTask' = [ntpTask EXCEPT !.tasks = @ - 1] /\ ntpTask.tasks > 0
    BY <1>3 DEF Mode!TaskEnds, Mode!TaskBreaks
  <2>2. ntpTask.tasks - 1 \in 0..2
    BY <2>1 DEF TaskTyped
  <2> QED
    BY <2>1, <2>2 DEF TaskTyped
<1>4. CASE Mode!StopEnds
  BY <1>4 DEF Mode!StopEnds, TaskTyped
<1>5. CASE UNCHANGED ntpTask
  BY <1>5 DEF TaskTyped
<1>6. CASE Mode!Clock
  BY <1>1, <1>2, <1>3, <1>4, <1>5, <1>6
     DEF Mode!Clock, Mode!NtpRuns, Mode!Answer, Mode!Round, Mode!PhoneSets
<1> QED
  BY <1>5, <1>6 DEF Mode!Next, Mode!SetAnchor, Mode!ForceLocal, Mode!Flush, Mode!NewStream,
     Mode!FlushSettles, Mode!Thaws, Mode!HoldEnds, Mode!Read, Mode!syncVars

\* One task at a time, when a start waits for the stop before it.
TaskInv == /\ ntpTask \in [running : BOOLEAN, stopping : BOOLEAN, tasks : 0..1,
                           phone : Phones \cup {"none"}]
           /\ ntpTask.stopping => ~ntpTask.running
           /\ ntpTask.running \/ ntpTask.stopping \/ ntpTask.tasks = 0

LEMMA TaskInit == Mode!NtpInit => TaskInv
  BY DEF Mode!NtpInit, TaskInv

LEMMA TaskKeeps ==
    ASSUME ~Overlap, TaskInv, Mode!NtpNext \/ UNCHANGED ntpTask
    PROVE  TaskInv'
<1> DEFINE T == [running : BOOLEAN, stopping : BOOLEAN, tasks : 0..1,
                 phone : Phones \cup {"none"}]
<1>0. ntpTask \in T
  BY DEF TaskInv
<1>1. ASSUME NEW phone \in Phones, Mode!Start(phone) PROVE TaskInv'
  <2>1. ~ntpTask.running /\ ~ntpTask.stopping /\ ntpTask.tasks = 0
    BY <1>1 DEF TaskInv, Mode!Start
  <2>2. \/ ntpTask' = [ntpTask EXCEPT !.running = TRUE, !.tasks = 1, !.phone = phone]
        \/ ntpTask' = [ntpTask EXCEPT !.phone = phone]
    BY <1>0, <1>1, <2>1 DEF Mode!Start
  <2>3. CASE ntpTask' = [ntpTask EXCEPT !.running = TRUE, !.tasks = 1, !.phone = phone]
    <3>1. ntpTask' \in T
      <4>1. ntpTask' = [running |-> TRUE, stopping |-> ntpTask.stopping, tasks |-> 1,
                        phone |-> phone]
        BY <1>0, <2>3
      <4>2. ntpTask.stopping \in BOOLEAN
        BY <1>0
      <4> QED
        BY <1>1, <4>1, <4>2
    <3>2. ntpTask'.running /\ ~ntpTask'.stopping
      BY <1>0, <2>1, <2>3
    <3> QED
      BY <3>1, <3>2 DEF TaskInv
  <2>4. CASE ntpTask' = [ntpTask EXCEPT !.phone = phone]
    <3>1. ntpTask' \in T
      BY <1>0, <2>4
    <3>2. ntpTask'.tasks = 0 /\ ~ntpTask'.stopping
      BY <1>0, <2>1, <2>4
    <3> QED
      BY <3>1, <3>2 DEF TaskInv
  <2> QED
    BY <2>2, <2>3, <2>4
<1>2. CASE Mode!Stop
  <2> DEFINE waits == ntpTask.tasks > 0
  <2>1. ntpTask' = [ntpTask EXCEPT !.running = FALSE, !.stopping = waits]
    BY <1>2 DEF Mode!Stop
  <2>2. waits \in BOOLEAN /\ (waits \/ ntpTask.tasks = 0)
    BY DEF TaskInv
  <2> HIDE DEF waits
  <2> QED
    BY <2>1, <2>2 DEF TaskInv
<1>3. CASE Mode!TaskEnds \/ Mode!TaskBreaks
  <2>1. ntpTask.tasks = 1 /\ ntpTask' = [ntpTask EXCEPT !.tasks = 0]
    BY <1>0, <1>3 DEF Mode!TaskEnds, Mode!TaskBreaks
  <2>2. ntpTask' \in T
    BY <1>0, <2>1
  <2>3. ntpTask'.running = ntpTask.running /\ ntpTask'.stopping = ntpTask.stopping
        /\ ntpTask'.tasks = 0
    BY <1>0, <2>1
  <2> QED
    BY <2>2, <2>3 DEF TaskInv
<1>5. CASE Mode!StopEnds
  <2>1. ntpTask' = [ntpTask EXCEPT !.stopping = FALSE] /\ (ntpTask.running \/ ntpTask.tasks = 0)
    BY <1>5 DEF Mode!StopEnds
  <2>2. ntpTask' \in T
    BY <1>0, <2>1
  <2>3. ntpTask'.running = ntpTask.running /\ ~ntpTask'.stopping
        /\ ntpTask'.tasks = ntpTask.tasks
    BY <1>0, <2>1
  <2> QED
    BY <2>1, <2>2, <2>3 DEF TaskInv
<1>4. CASE UNCHANGED ntpTask
  BY <1>4 DEF TaskInv
<1> QED
  BY <1>1, <1>2, <1>3, <1>4, <1>5 DEF Mode!NtpNext, Mode!NtpRuns, Mode!Answer, Mode!Round, Mode!PhoneSets

-----------------------------------------------------------------------------
(* The projections.                                                        *)

\* An anchor and an offset, or none.
Targets == {<<>>} \cup (Int \X Int)

AnchorRec == [id : Int, source : {"none", "ntp", "local"}, target : Targets, projected : Int]
PostRec == [on : BOOLEAN, frozen : BOOLEAN, target : Targets]

AnchorTyped == timAnchor \in AnchorRec /\ timPost \in PostRec

\* There is no projection without an anchor; the last one made the target, and
\* both it and the target a flush uses are of an estimate that is still there.
FollowInv ==
    /\ AnchorTyped
    /\ timAnchor.source = "none" => timAnchor.projected = 0 /\ timPost.target = Mode!NoTarget
    /\ timAnchor.projected # 0 => /\ timAnchor.target = <<timAnchor.id, timAnchor.projected>>
                                  /\ ntp.offset # 0
    /\ timPost.on /\ timPost.target # Mode!NoTarget => /\ timAnchor.target = timPost.target
                                                       /\ ntp.offset # 0

LEMMA FollowInit == Mode!Init => FollowInv
<1> SUFFICES ASSUME Mode!Init PROVE FollowInv
  OBVIOUS
<1>1. Mode!NoTarget \in Targets
  BY DEF Targets, Mode!NoTarget
<1> QED
  BY <1>1 DEF Mode!Init, Mode!NoAnchor, Mode!Local, FollowInv, AnchorTyped, AnchorRec, PostRec

\* get_offset gives the estimate, sane or not.
LEMMA OffsetGiven == ClockInv => Mode!get_offset_ns = ntp.offset /\ ntp.offset \in Int
  BY DEF ClockInv, NtpRec, Mode!get_offset_ns

\* A projection with an estimate that is there.
LEMMA ProjectKeeps ==
    ASSUME FollowInv, NEW anchor \in AnchorRec, NEW offset \in Int, offset # 0,
           anchor.source # "none", ntp'.offset = offset, Mode!Project(anchor, offset)
    PROVE  FollowInv'
<1> DEFINE target == <<anchor.id, offset>>
           used == IF timPost.on THEN target ELSE timPost.target
<1>1. timAnchor' = [anchor EXCEPT !.target = target, !.projected = offset]
      /\ timPost' = [timPost EXCEPT !.target = used]
  BY DEF Mode!Project, FollowInv, AnchorTyped, PostRec
<1>2. target \in Targets
  BY DEF Targets, AnchorRec
<1>3. used \in Targets /\ (timPost.on => used = target)
  BY <1>2 DEF FollowInv, AnchorTyped, PostRec
<1> HIDE DEF target, used
<1>4. timAnchor' \in AnchorRec /\ timPost' \in PostRec
  BY <1>1, <1>2, <1>3 DEF FollowInv, AnchorTyped, AnchorRec, PostRec
<1>5. /\ timAnchor'.id = anchor.id /\ timAnchor'.source = anchor.source
      /\ timAnchor'.target = target /\ timAnchor'.projected = offset
  BY <1>1 DEF AnchorRec
<1>6. timPost'.on = timPost.on /\ timPost'.target = used
  BY <1>1 DEF FollowInv, AnchorTyped, PostRec
<1> QED
  BY <1>3, <1>4, <1>5, <1>6 DEF FollowInv, AnchorTyped, target

\* Every step leaves anchors and targets as they are made.
LEMMA AnchorNext ==
    ASSUME ClockInv, AnchorTyped, [Mode!Next]_(Mode!syncVars)
    PROVE  AnchorTyped'
<1>1. Mode!get_offset_ns \in Int
  BY OffsetGiven
<1>2. Mode!NoTarget \in Targets
  BY DEF Targets, Mode!NoTarget
<1>3. ASSUME NEW id \in Int, NEW source \in {"ntp", "local"}
      PROVE  /\ [id |-> id, source |-> source, target |-> <<id, Mode!Local>>, projected |-> 0]
                   \in AnchorRec
             /\ [timAnchor EXCEPT !.id = id, !.source = source, !.target = <<id, Mode!Local>>]
                   \in AnchorRec
  <2> DEFINE target == <<id, Mode!Local>>
  <2>1. target \in Targets
    BY DEF Targets, Mode!Local
  <2>2. timAnchor \in AnchorRec /\ 0 \in Int
    BY DEF AnchorTyped
  <2>3. source \in {"none", "ntp", "local"}
    BY <1>3
  <2> HIDE DEF target
  <2>4. [id |-> id, source |-> source, target |-> target, projected |-> 0] \in AnchorRec
    BY <2>1, <2>2, <2>3 DEF AnchorRec
  <2>5. [timAnchor EXCEPT !.id = id, !.source = source, !.target = target] \in AnchorRec
    BY <2>1, <2>2, <2>3 DEF AnchorRec
  <2> QED
    BY <2>4, <2>5 DEF target
<1>4. ASSUME NEW anchor \in AnchorRec, NEW offset \in Int, Mode!Project(anchor, offset)
      PROVE  AnchorTyped'
  <2> DEFINE target == <<anchor.id, offset>>
             used == IF timPost.on THEN target ELSE timPost.target
  <2>1. /\ timAnchor' = [anchor EXCEPT !.target = target, !.projected = offset]
        /\ timPost' = [timPost EXCEPT !.target = used]
    BY <1>4 DEF Mode!Project, AnchorTyped, PostRec
  <2>2. target \in Targets
    BY DEF Targets, AnchorRec
  <2>3. used \in Targets
    BY <2>2 DEF AnchorTyped, PostRec
  <2> HIDE DEF target, used
  <2> QED
    BY <2>1, <2>2, <2>3 DEF AnchorTyped, AnchorRec, PostRec
<1>5. CASE UNCHANGED <<timAnchor, timPost>>
  BY <1>5 DEF AnchorTyped
<1>6. CASE Mode!SetAnchor
  <2> DEFINE anchor == [timAnchor EXCEPT !.id = timAnchor.id + 1, !.source = "ntp",
                                         !.target = <<timAnchor.id + 1, Mode!Local>>]
  <2>1. timAnchor.id + 1 \in Int
    BY DEF AnchorTyped, AnchorRec
  <2>2. anchor \in AnchorRec
    BY <1>3, <2>1
  <2>3. Mode!Project(anchor, Mode!get_offset_ns) \/ (timAnchor' = anchor /\ UNCHANGED timPost)
    BY <1>6 DEF Mode!SetAnchor
  <2> HIDE DEF anchor
  <2> QED
    BY <1>1, <1>4, <2>2, <2>3 DEF AnchorTyped
<1>7. CASE Mode!ForceLocal
  <2>1. timAnchor.id + 1 \in Int
    BY DEF AnchorTyped, AnchorRec
  <2> QED
    BY <1>3, <1>7, <2>1 DEF Mode!ForceLocal, AnchorTyped
<1>8. CASE Mode!Flush \/ Mode!NewStream
  <2>1. PICK on \in BOOLEAN :
           /\ timPost' = [on |-> on, frozen |-> on, target |-> Mode!NoTarget]
           /\ timAnchor' = Mode!NoAnchor(timAnchor.id)
    BY <1>8 DEF Mode!Flush, Mode!NewStream
  <2> QED
    BY <1>2, <2>1 DEF AnchorTyped, AnchorRec, PostRec, Mode!NoAnchor
<1>9. CASE Mode!FlushSettles
  BY <1>9 DEF Mode!FlushSettles, AnchorTyped, PostRec
<1>10. CASE Mode!Thaws
  BY <1>10 DEF Mode!Thaws, AnchorTyped, PostRec
<1>11. CASE Mode!Read
  BY <1>1, <1>4, <1>5, <1>11 DEF Mode!Read, AnchorTyped
<1> QED
  BY <1>5, <1>6, <1>7, <1>8, <1>9, <1>10, <1>11
     DEF Mode!Next, Mode!Clock, Mode!HoldEnds, Mode!syncVars

\* Every step of a clock that one session starts, and that is never zero off,
\* keeps the projections.
LEMMA FollowNext ==
    ASSUME ClockAssumption, Mode!NoZeroOffset, OneSession, ClockInv, FollowInv,
           [Mode!Next]_(Mode!syncVars)
    PROVE  FollowInv'
<1> USE DEF Mode!ntpVars
<1>0. Mode!get_offset_ns = ntp.offset /\ ntp.offset \in Int
  BY OffsetGiven
<1>1. CASE UNCHANGED Mode!syncVars
  BY <1>1 DEF Mode!syncVars, FollowInv, AnchorTyped
<1>2. CASE Mode!NtpRuns /\ UNCHANGED <<timAnchor, timPost>>
  <2>1. ntp.offset # 0 => ntp'.offset # 0
    BY <1>2, NtpKeeps
  <2> QED
    BY <1>2, <2>1 DEF FollowInv, AnchorTyped
<1>3. CASE timAnchor.source = "none" /\ ~timPost.on /\ UNCHANGED <<timAnchor, timPost>>
  BY <1>3 DEF FollowInv, AnchorTyped
<1>4. CASE Mode!SetAnchor
  <2> DEFINE id == timAnchor.id + 1
             local == <<id, Mode!Local>>
             anchor == [timAnchor EXCEPT !.id = id, !.source = "ntp", !.target = local]
  <2>1. IF ntp.offset # 0 THEN Mode!Project(anchor, ntp.offset)
        ELSE timAnchor' = anchor /\ UNCHANGED timPost
    BY <1>0, <1>4 DEF Mode!SetAnchor
  <2>2. UNCHANGED ntp
    BY <1>4 DEF Mode!SetAnchor
  <2>3. id \in Int /\ local \in Targets
    BY DEF FollowInv, AnchorTyped, AnchorRec, Targets, Mode!Local
  <2> HIDE DEF id, local
  <2>4. anchor \in AnchorRec /\ anchor.source = "ntp" /\ anchor.projected = timAnchor.projected
    BY <2>3 DEF FollowInv, AnchorTyped, AnchorRec
  <2> HIDE DEF anchor
  <2>5. CASE ntp.offset # 0
    BY <1>0, <2>1, <2>2, <2>4, <2>5, ProjectKeeps
  <2>6. CASE ntp.offset = 0
    BY <2>1, <2>2, <2>4, <2>6 DEF FollowInv, AnchorTyped
  <2> QED
    BY <2>5, <2>6
<1>5. CASE Mode!ForceLocal
  <2> DEFINE id == timAnchor.id + 1
             local == <<id, Mode!Local>>
  <2>1. /\ timAnchor.source = "none" /\ UNCHANGED <<timPost, ntp>>
        /\ timAnchor' = [id |-> id, source |-> "local", target |-> local, projected |-> 0]
    BY <1>5 DEF Mode!ForceLocal
  <2>2. id \in Int /\ local \in Targets
    BY DEF FollowInv, AnchorTyped, AnchorRec, Targets, Mode!Local
  <2> HIDE DEF id, local
  <2> QED
    BY <2>1, <2>2 DEF FollowInv, AnchorTyped, AnchorRec
<1>6. CASE Mode!Flush \/ Mode!NewStream
  <2>1. PICK on \in BOOLEAN :
           /\ timPost' = [on |-> on, frozen |-> on, target |-> Mode!NoTarget]
           /\ timAnchor' = Mode!NoAnchor(timAnchor.id) /\ UNCHANGED ntp
    BY <1>6 DEF Mode!Flush, Mode!NewStream
  <2>2. Mode!NoTarget \in Targets
    BY DEF Targets, Mode!NoTarget
  <2> QED
    BY <2>1, <2>2 DEF FollowInv, AnchorTyped, AnchorRec, PostRec, Mode!NoAnchor
<1>7. CASE Mode!FlushSettles
  <2>1. /\ timPost' = [timPost EXCEPT !.on = FALSE, !.frozen = FALSE]
        /\ UNCHANGED <<timAnchor, ntp>>
    BY <1>7 DEF Mode!FlushSettles
  <2>2. timPost' \in PostRec
    BY <2>1 DEF FollowInv, AnchorTyped, PostRec
  <2>3. ~timPost'.on /\ timPost'.target = timPost.target
    BY <2>1 DEF FollowInv, AnchorTyped, PostRec
  <2> QED
    BY <2>1, <2>2, <2>3 DEF FollowInv, AnchorTyped
<1>8. CASE Mode!Thaws
  <2>1. timPost' = [timPost EXCEPT !.frozen = FALSE] /\ UNCHANGED <<timAnchor, ntp>>
    BY <1>8 DEF Mode!Thaws
  <2>2. timPost' \in PostRec
    BY <2>1 DEF FollowInv, AnchorTyped, PostRec
  <2>3. timPost'.on = timPost.on /\ timPost'.target = timPost.target
    BY <2>1 DEF FollowInv, AnchorTyped, PostRec
  <2> QED
    BY <2>1, <2>2, <2>3 DEF FollowInv, AnchorTyped
<1>9. CASE Mode!HoldEnds
  BY <1>9 DEF Mode!HoldEnds, FollowInv, AnchorTyped
<1>10. CASE Mode!Read
  <2>1. UNCHANGED ntp /\ timAnchor.source # "none"
    BY <1>10 DEF Mode!Read
  <2>2. CASE UNCHANGED <<timAnchor, timPost>>
    BY <2>1, <2>2 DEF FollowInv, AnchorTyped
  <2>3. CASE ntp.offset # 0 /\ Mode!Project(timAnchor, ntp.offset)
    BY <1>0, <2>1, <2>3, ProjectKeeps DEF FollowInv, AnchorTyped
  <2> QED
    BY <1>0, <1>10, <2>2, <2>3 DEF Mode!Read
<1>11. CASE Mode!Clock
  BY <1>2, <1>3, <1>11 DEF Mode!Clock
<1> QED
  BY <1>1, <1>4, <1>5, <1>6, <1>7, <1>8, <1>9, <1>10, <1>11 DEF Mode!Next

\* A read against a clock that is tracked leaves the target where it says.
LEMMA FollowSteps ==
    ASSUME ClockAssumption, ClockInv, AnchorTyped,
           OneSession /\ Mode!NoZeroOffset => FollowInv
    PROVE  Mode!FollowsClock
<1>0. Mode!get_offset_ns = ntp.offset /\ ntp.offset \in Int
  BY OffsetGiven
<1> SUFFICES ASSUME Mode!Read, Mode!Healthy, ntp.offset # 0
             PROVE  /\ Mode!Distance(timAnchor'.projected, ntp.offset) <= Refresh
                    /\ OneSession /\ Mode!NoZeroOffset =>
                          timAnchor'.target = <<timAnchor.id, timAnchor'.projected>>
  BY DEF Mode!FollowsClock
<1>1. CASE Mode!Moved
  <2>1. timAnchor' = [timAnchor EXCEPT !.target = <<timAnchor.id, ntp.offset>>,
                                       !.projected = ntp.offset]
    BY <1>0, <1>1 DEF Mode!Read, Mode!Project
  <2>2. /\ timAnchor'.projected = ntp.offset
        /\ timAnchor'.target = <<timAnchor.id, ntp.offset>>
    BY <2>1 DEF AnchorTyped, AnchorRec
  <2> QED
    BY <1>0, <2>2 DEF Mode!Distance, ClockAssumption
<1>2. CASE ~Mode!Moved
  <2>1. UNCHANGED timAnchor
    BY <1>2 DEF Mode!Read
  <2>2. timAnchor.projected # 0 /\ ~(Mode!Distance(ntp.offset, timAnchor.projected) > Refresh)
    BY <1>0, <1>2 DEF Mode!Moved
  <2>3. timAnchor.projected \in Int
    BY DEF AnchorTyped, AnchorRec
  <2>4. Mode!Distance(timAnchor.projected, ntp.offset) <= Refresh
    BY <1>0, <2>2, <2>3 DEF Mode!Distance, ClockAssumption
  <2> QED
    BY <2>1, <2>2, <2>4 DEF FollowInv, AnchorTyped
<1> QED
  BY <1>1, <1>2

-----------------------------------------------------------------------------
\* The clock, its task and the playback take each a step of their own, or none.
LEMMA ClockNext ==
    ClockAssumption /\ ClockInv /\ [Mode!Next]_(Mode!syncVars) => ClockInv'
<1> SUFFICES ASSUME ClockAssumption, ClockInv, [Mode!Next]_(Mode!syncVars) PROVE ClockInv'
  OBVIOUS
<1> USE DEF Mode!ntpVars
<1>1. CASE Mode!Clock
  BY <1>1, NtpKeeps, StartKeeps DEF Mode!Clock
<1>2. CASE UNCHANGED Mode!ntpVars
  BY <1>2 DEF ClockInv, RingTyped, IsBest, Mode!NoZeroOffset, Mode!Distance
<1> QED
  BY <1>1, <1>2 DEF Mode!Next, Mode!SetAnchor, Mode!ForceLocal, Mode!Flush, Mode!NewStream,
     Mode!FlushSettles, Mode!Thaws, Mode!HoldEnds, Mode!Read, Mode!syncVars

LEMMA TaskNext == ~Overlap /\ TaskInv /\ [Mode!Next]_(Mode!syncVars) => TaskInv'
<1> SUFFICES ASSUME ~Overlap, TaskInv, [Mode!Next]_(Mode!syncVars) PROVE TaskInv'
  OBVIOUS
<1> USE DEF Mode!ntpVars
<1>1. Mode!Clock => Mode!NtpNext
  BY DEF Mode!Clock, Mode!NtpNext
<1>2. Mode!NtpNext \/ UNCHANGED ntpTask
  BY <1>1 DEF Mode!Next, Mode!SetAnchor, Mode!ForceLocal, Mode!Flush, Mode!NewStream,
     Mode!FlushSettles, Mode!Thaws, Mode!HoldEnds, Mode!Read, Mode!syncVars
<1> QED
  BY <1>2, TaskKeeps

\* The estimate is that of a measurement kept that is as good as any.
LEMMA ErrorSafe == ClockAssumption /\ ClockInv => Mode!ErrorBounded
<1> SUFFICES ASSUME ClockAssumption, ClockInv, ntpNet.steps = 0, ntpRing.all # <<>>,
                    NEW j \in 1..Len(ntpRing.all)
             PROVE  Mode!Distance(ntp.offset, ntpNet.offset) <= ntpRing.all[j].disp
  BY DEF Mode!ErrorBounded
<1>1. PICK i \in 1..Len(ntpRing.all) : /\ ntpRing.all[i].offset = ntp.offset
                                       /\ ntpRing.all[i].disp <= ntpRing.all[j].disp
  BY DEF ClockInv, IsBest
<1>2. Mode!Distance(ntp.offset, ntpNet.offset) <= ntpRing.all[i].disp
  BY <1>1 DEF ClockInv
<1>3. ntpRing.all[i] \in Measurement /\ ntpRing.all[j] \in Measurement
  BY ElementOfSeq DEF ClockInv, RingTyped
<1>4. ntpRing.all[i].disp \in Nat /\ ntpRing.all[j].disp \in Nat
  BY <1>3 DEF Measurement
<1>5. Mode!Distance(ntp.offset, ntpNet.offset) \in Int
  <2>1. ntp.offset \in Int
    BY DEF ClockInv, NtpRec
  <2>2. ntpNet.offset \in Int
    BY DEF ClockInv, NetRec, ClockAssumption
  <2> QED
    BY <2>1, <2>2 DEF Mode!Distance
<1> QED
  BY <1>1, <1>2, <1>4, <1>5

-----------------------------------------------------------------------------
\* The types of the clock and of the mode: the clock is tracked from a full
\* bootstrap on.
ModeRec == [mode : {"local", "ntp"}, sane : 0..EnterStreak, unsane : 0..ExitStreak,
            held : BOOLEAN]

ModeInv == /\ ntp.tracking => ntp.accepted = Bootstrap
           /\ timAnchor.id \in 0..MaxAnchors
           /\ timMode \in ModeRec

LEMMA ModeInit == ClockAssumption /\ Mode!Init => ModeInv
<1> SUFFICES ASSUME ClockAssumption, Mode!Init PROVE ModeInv
  OBVIOUS
<1>1. ntp.tracking = FALSE /\ timAnchor.id = 0
  BY DEF Mode!Init, Mode!NtpInit, Mode!Reset, Mode!NoAnchor
<1>2. timMode \in ModeRec
  BY DEF Mode!Init, Mode!FreshMode, ModeRec, ClockAssumption
<1> QED
  BY <1>1, <1>2 DEF ModeInv, ClockAssumption

\* What the client does with an answer, and the ends of its task.
LEMMA TrackingKeeps ==
    ASSUME ClockAssumption, ClockInv, ntp.tracking => ntp.accepted = Bootstrap,
           Mode!NtpNext
    PROVE  ntp'.tracking => ntp'.accepted = Bootstrap
<1>1. ntp \in NtpRec
  BY DEF ClockInv
<1>2. ASSUME NEW m, Mode!Accept(m) PROVE ntp'.tracking => ntp'.accepted = Bootstrap
  <2> DEFINE best == Mode!Best(Mode!Kept(m).all, m)
             taken == IF ntp.accepted < Bootstrap THEN ntp.accepted + 1 ELSE Bootstrap
  <2>1. ntp' = [ntp EXCEPT !.offset = best.offset, !.good = best.offset,
                           !.sane = TRUE, !.accepted = taken, !.streak = 0, !.age = 0,
                           !.tracking = @ \/ taken = Bootstrap,
                           !.locked = @ \/ (~ntp.tracking /\ taken = Bootstrap)]
    BY <1>2 DEF Mode!Accept
  <2>2. ntp.tracking => taken = Bootstrap
    BY <1>1 DEF NtpRec, ClockAssumption
  <2> HIDE DEF best, taken
  <2>3. ntp'.accepted = taken /\ ntp'.tracking = (ntp.tracking \/ taken = Bootstrap)
    BY <1>1, <2>1 DEF NtpRec
  <2> QED
    BY <2>2, <2>3
<1>3. ASSUME ntp' = Mode!Rejected PROVE ntp'.tracking => ntp'.accepted = Bootstrap
  <2>1. ntp'.tracking = ntp.tracking /\ ntp'.accepted = ntp.accepted
    BY <1>1, <1>3 DEF Mode!Rejected, NtpRec
  <2> QED
    BY <2>1
<1>4. CASE \E there, back \in Delays : Mode!Answer(there, back)
  BY <1>2, <1>3, <1>4 DEF Mode!Answer
<1>5. CASE Mode!Round
  <2>1. ntp'.tracking = ntp.tracking /\ ntp'.accepted = ntp.accepted
    BY <1>1, <1>5 DEF Mode!Round, NtpRec
  <2> QED
    BY <2>1
<1>6. ASSUME Mode!Stopped PROVE ntp'.tracking => ntp'.accepted = Bootstrap
  <2>1. ntp'.tracking = FALSE
    BY <1>6 DEF Mode!Stopped, Mode!Reset
  <2> QED
    BY <2>1
<1>7. CASE \E phone \in Phones : Mode!Start(phone)
  <2>1. ntp'.tracking = FALSE
    BY <1>7 DEF Mode!Start, Mode!Reset
  <2> QED
    BY <2>1
<1>8. CASE Mode!Stop \/ Mode!StopEnds
  BY <1>6, <1>8 DEF Mode!Stop, Mode!StopEnds
<1>9. CASE Mode!TaskEnds \/ Mode!TaskBreaks \/ Mode!PhoneSets
  BY <1>9 DEF Mode!TaskEnds, Mode!TaskBreaks, Mode!PhoneSets
<1> QED
  BY <1>4, <1>5, <1>7, <1>8, <1>9 DEF Mode!NtpNext, Mode!NtpRuns

\* A read leaves a mode and streaks within their bounds.
LEMMA ModeRead ==
    ASSUME ClockAssumption, timMode \in ModeRec
    PROVE  Mode!ModeAfter(Mode!Streaks) \in ModeRec
<1> DEFINE s == Mode!Streaks
<1>1. s \in ModeRec
  <2> DEFINE up == IF timMode.sane < EnterStreak THEN timMode.sane + 1 ELSE timMode.sane
             down == IF timMode.unsane < ExitStreak THEN timMode.unsane + 1 ELSE timMode.unsane
  <2>1. up \in 0..EnterStreak /\ down \in 0..ExitStreak
    BY DEF ModeRec, ClockAssumption
  <2>2. 0 \in 0..EnterStreak /\ 0 \in 0..ExitStreak
    BY DEF ClockAssumption
  <2>3. s = IF Mode!Healthy THEN [timMode EXCEPT !.sane = up, !.unsane = 0]
                            ELSE [timMode EXCEPT !.unsane = down, !.sane = 0]
    BY DEF Mode!Streaks, ModeRec
  <2> HIDE DEF s, up, down
  <2>4. /\ [timMode EXCEPT !.sane = up, !.unsane = 0] \in ModeRec
        /\ [timMode EXCEPT !.unsane = down, !.sane = 0] \in ModeRec
    BY <2>1, <2>2 DEF ModeRec
  <2> QED
    BY <2>3, <2>4
<1> HIDE DEF s
<1>2. /\ [s EXCEPT !.mode = "ntp", !.held = TRUE] \in ModeRec
      /\ [s EXCEPT !.mode = "local", !.held = TRUE] \in ModeRec
  BY <1>1 DEF ModeRec
<1>3. Mode!ModeAfter(s) \in ModeRec
  BY <1>1, <1>2 DEF Mode!ModeAfter
<1> QED
  BY <1>3 DEF s

LEMMA ModeNext ==
    ASSUME ClockAssumption, ClockInv, AnchorTyped, ModeInv, [Mode!Next]_(Mode!syncVars)
    PROVE  ModeInv'
<1> USE DEF Mode!ntpVars
<1>1. timAnchor \in AnchorRec /\ timAnchor.id \in 0..MaxAnchors /\ MaxAnchors \in Nat
  BY DEF AnchorTyped, ModeInv, ClockAssumption
<1>2. ASSUME UNCHANGED <<timAnchor, timMode>>, ntp'.tracking => ntp'.accepted = Bootstrap
      PROVE  ModeInv'
  BY <1>2 DEF ModeInv
<1>3. CASE Mode!Clock
  <2>1. Mode!NtpNext /\ UNCHANGED <<timAnchor, timMode>>
    BY <1>3 DEF Mode!Clock, Mode!NtpNext
  <2> QED
    BY <1>2, <2>1, TrackingKeeps DEF ModeInv
<1>4. ASSUME UNCHANGED ntp, timAnchor'.id \in 0..MaxAnchors, timMode' \in ModeRec
      PROVE  ModeInv'
  BY <1>4 DEF ModeInv
<1>5. Mode!FreshMode \in ModeRec
  BY DEF Mode!FreshMode, ModeRec, ClockAssumption
<1>6. \A id, offset : Mode!Project([timAnchor EXCEPT !.id = id, !.source = "ntp", !.target = <<id, Mode!Local>>], offset)
         => timAnchor'.id = id
  BY <1>1 DEF Mode!Project, AnchorRec
<1>7. CASE Mode!SetAnchor
  <2>1. timAnchor'.id = timAnchor.id + 1 /\ timAnchor.id < MaxAnchors
    BY <1>1, <1>6, <1>7 DEF Mode!SetAnchor, AnchorRec
  <2> QED
    BY <1>1, <1>4, <1>7, <2>1 DEF Mode!SetAnchor, ModeInv
<1>8. CASE Mode!ForceLocal
  BY <1>1, <1>4, <1>8 DEF Mode!ForceLocal, ModeInv
<1>9. CASE Mode!Flush \/ Mode!NewStream
  BY <1>1, <1>4, <1>5, <1>9 DEF Mode!Flush, Mode!NewStream, Mode!NoAnchor, ModeInv
<1>10. CASE Mode!FlushSettles \/ Mode!Thaws \/ UNCHANGED Mode!syncVars
  BY <1>2, <1>10 DEF Mode!FlushSettles, Mode!Thaws, Mode!syncVars, ModeInv
<1>11. CASE Mode!HoldEnds
  <2>1. timMode' \in ModeRec
    BY <1>11 DEF Mode!HoldEnds, ModeInv, ModeRec
  <2> QED
    BY <1>1, <1>4, <1>11, <2>1 DEF Mode!HoldEnds
<1>12. CASE Mode!Read
  <2>1. timMode' \in ModeRec
    BY <1>12, ModeRead DEF Mode!Read, ModeInv
  <2>2. timAnchor'.id = timAnchor.id
    BY <1>1, <1>12 DEF Mode!Read, Mode!Project, AnchorRec
  <2> QED
    BY <1>1, <1>4, <1>12, <2>1, <2>2 DEF Mode!Read
<1> QED
  BY <1>3, <1>7, <1>8, <1>9, <1>10, <1>11, <1>12 DEF Mode!Next

\* All that is known of the clock and of the playback is typed.
LEMMA ModeTyped == ClockInv /\ TaskTyped /\ AnchorTyped /\ ModeInv => Mode!TypeOK
<1> SUFFICES ASSUME ClockInv, TaskTyped, AnchorTyped, ModeInv PROVE Mode!TypeOK
  OBVIOUS
<1>1. Mode!NtpTypeOK
  BY DEF ClockInv, NtpRec, RingTyped, TaskTyped, ModeInv, Mode!NtpTypeOK
<1>2. timAnchor.source \in {"none", "ntp", "local"}
  BY DEF AnchorTyped, AnchorRec
<1> QED
  BY <1>1, <1>2 DEF ModeInv, ModeRec, Mode!TypeOK

-----------------------------------------------------------------------------
\* What ntp_clock.c and audio_timing.c keep, for every history, delay and gate:
\* the estimate is off by no more than the least uncertainty kept, as long as
\* the phone does not set its clock; a read follows a clock that is tracked; when
\* a start waits for the stop before it one task at most is on the stack; and
\* when one session at a time starts the clock, and no estimate is zero, a flush
\* uses the target of the last projection.
THEOREM ClockFollowed ==
    ASSUME ClockAssumption
    PROVE  Mode!Spec =>
              /\ [](Mode!ErrorBounded)
              /\ Mode!AnchorFollows
              /\ ~Overlap => [](Mode!NtpMemoryFree)
              /\ OneSession /\ Mode!NoZeroOffset => [](Mode!TargetsAgree)
<1> DEFINE Followed == OneSession /\ Mode!NoZeroOffset => FollowInv
<1>1. Mode!Init => ClockInv /\ TaskInv /\ AnchorTyped /\ Followed
  BY ClockInit, TaskInit, FollowInit DEF Mode!Init, FollowInv
<1>2. Mode!Spec => []ClockInv
  BY <1>1, ClockNext, PTL DEF Mode!Spec
<1>3. Mode!Spec => [](Mode!ErrorBounded)
  BY <1>2, ErrorSafe, PTL
<1>4. Mode!Spec => []AnchorTyped
  BY <1>1, <1>2, AnchorNext, PTL DEF Mode!Spec
<1>5. Mode!Spec => []Followed
  <2>1. ClockInv /\ Followed /\ [Mode!Next]_(Mode!syncVars) => Followed'
    BY FollowNext DEF Mode!NoZeroOffset
  <2> HIDE DEF Followed
  <2> QED
    BY <1>1, <1>2, <2>1, PTL DEF Mode!Spec
<1>6. Mode!Spec => Mode!AnchorFollows
  <2>1. ClockInv /\ AnchorTyped /\ Followed => Mode!FollowsClock
    BY FollowSteps
  <2> HIDE DEF Followed
  <2> QED
    BY <1>2, <1>4, <1>5, <2>1, PTL DEF Mode!Spec, Mode!AnchorFollows
<1>7. ASSUME ~Overlap PROVE Mode!Spec => [](Mode!NtpMemoryFree)
  <2>1. TaskInv => Mode!NtpMemoryFree
    BY DEF TaskInv, Mode!NtpMemoryFree
  <2> QED
    BY <1>1, <1>7, <2>1, TaskNext, PTL DEF Mode!Spec
<1>8. ASSUME OneSession /\ Mode!NoZeroOffset PROVE Mode!Spec => [](Mode!TargetsAgree)
  <2>1. Followed => Mode!TargetsAgree
    BY <1>8 DEF FollowInv, Mode!TargetsAgree
  <2> HIDE DEF Followed
  <2> QED
    BY <1>5, <2>1, PTL
<1> QED
  BY <1>3, <1>6, <1>7, <1>8

-----------------------------------------------------------------------------
(* A seek of the sender.                                                   *)

\* The place that the first anchor there gives.
First == skSender.from - SendAhead

Old(f) == f > First + Window
Older(f) == f < First - Threshold

SenderRec == [epoch : Nat, from : Nat, at : Nat]
SyncRec == [place : Int, epoch : Nat]

SeekTyped ==
    /\ skSender \in SenderRec
    /\ skSender.from <= skSender.at /\ skSender.at <= skSender.from + Length
    /\ skFrames \in Seq(Nat)
    /\ skSyncs = <<>> \/ \E s \in SyncRec : skSyncs = <<s>> /\ s.epoch = skSender.epoch
    /\ skBuffer \in SUBSET Nat /\ skPassed \in SUBSET Nat
    /\ skAnchor \in Nat /\ skAnchor <= skSender.epoch

\* The frames the sender has sent since it is there.
Sent == skSender.from..(skSender.at - 1)

\* Before the anchor all that is under way is of the place before, on one side.
Leaving == /\ skSender.at = skSender.from /\ skArm = TRUE
           /\ skSyncs # <<>> => Head(skSyncs).place = First
           /\ \/ /\ \A f \in skBuffer \cup skPassed : Old(f)
                 /\ \A i \in 1..Len(skFrames) : Old(skFrames[i])
              \/ /\ \A f \in skBuffer \cup skPassed : Older(f)
                 /\ \A i \in 1..Len(skFrames) : Older(skFrames[i])

\* A gate keeps out the first k frames under way.
Kept(k) == /\ skBuffer = {} /\ skPassed = {}
           /\ \/ skBefore = First /\ \A i \in 1..k : skFrames[i] < First
              \/ skAbove = First + Window /\ \A i \in 1..k : Old(skFrames[i])

\* After the anchor what is left of the place before comes first, and a gate
\* keeps it out.
There == /\ skArm = FALSE
         /\ skBuffer \subseteq Sent /\ skPassed \subseteq Sent
         /\ \E k \in 0..Len(skFrames) :
               /\ \A i \in (k + 1)..Len(skFrames) : skFrames[i] \in Sent
               /\ k > 0 => Kept(k)

SeekInv == /\ SeekTyped
           /\ skAnchor = skSender.epoch => There
           /\ skAnchor # skSender.epoch => Leaving

\* The stream begins with nothing under way.
LEMMA SeekInit == PlacesAssumption /\ Gates!Init => SeekInv
<1> SUFFICES ASSUME PlacesAssumption, Gates!Init PROVE SeekInv
  OBVIOUS
<1>1. /\ skSender \in SenderRec /\ skSender.from = skSender.at /\ skSender.epoch = skAnchor
      /\ skFrames = <<>> /\ skSyncs = <<>> /\ skBuffer = {} /\ skPassed = {} /\ skArm = FALSE
  <2>1. PICK p \in Places : skSender = [epoch |-> 0, from |-> p, at |-> p]
    BY DEF Gates!Init
  <2>2. p \in Nat
    BY DEF PlacesAssumption
  <2>3. /\ skSender \in SenderRec
        /\ skSender.from = skSender.at /\ skSender.epoch = 0
    BY <2>1, <2>2 DEF SenderRec
  <2> QED
    BY <2>3 DEF Gates!Init
<1>2. SeekTyped
  BY <1>1, EmptySeq DEF SeekTyped, SenderRec, PlacesAssumption
<1>3. There
  <2>1. Len(skFrames) = 0
    BY <1>1, EmptySeq
  <2>2. 0 \in 0..Len(skFrames) /\ (0 + 1)..Len(skFrames) = {}
    BY <2>1
  <2> QED
    BY <1>1, <2>2 DEF There
<1> QED
  BY <1>1, <1>2, <1>3 DEF SeekInv

\* A frame that is sent goes behind those under way.
LEMMA SendKeeps ==
    ASSUME PlacesAssumption, Faults = {}, SeekInv, Gates!Send
    PROVE  SeekInv'
<1> DEFINE at == skSender.at
           frames == Append(skFrames, at)
<1>1. /\ skAnchor = skSender.epoch /\ at < skSender.from + Length
      /\ skFrames' = frames /\ skSender' = [skSender EXCEPT !.at = at + 1]
      /\ UNCHANGED <<skSyncs, skBuffer, skPassed, skBefore, skAbove, skArm, skAnchor>>
  BY DEF Gates!Send, SeekInv, SeekTyped, SenderRec
<1>2. /\ at \in Nat /\ skSender.from \in Nat /\ skSender.from <= at /\ Length \in Nat
      /\ skFrames \in Seq(Nat) /\ Len(skFrames) \in Nat
  BY LenProperties DEF SeekInv, SeekTyped, SenderRec, PlacesAssumption
<1>3. /\ skSender' \in SenderRec /\ skSender'.from = skSender.from
      /\ skSender'.at = at + 1 /\ skSender'.epoch = skSender.epoch
  BY <1>1, <1>2 DEF SeekInv, SeekTyped, SenderRec
<1>4. /\ frames \in Seq(Nat) /\ Len(frames) = Len(skFrames) + 1 /\ frames[Len(skFrames) + 1] = at
      /\ \A i \in 1..Len(skFrames) : frames[i] = skFrames[i]
  BY <1>2, AppendProperties
<1>5. Sent' = skSender.from..at
  BY <1>2, <1>3 DEF Sent
<1> HIDE DEF frames
<1>6. SeekTyped'
  <2>1. /\ skSender' \in SenderRec
        /\ skSender'.from <= skSender'.at /\ skSender'.at <= skSender'.from + Length
    BY <1>1, <1>2, <1>3
  <2>2. skFrames' \in Seq(Nat)
    BY <1>1, <1>4
  <2>3. /\ skSyncs = <<>> \/ \E s \in SyncRec : skSyncs = <<s>> /\ s.epoch = skSender.epoch
        /\ skBuffer \in SUBSET Nat /\ skPassed \in SUBSET Nat
        /\ skAnchor \in Nat /\ skAnchor <= skSender.epoch
    BY DEF SeekInv, SeekTyped
  <2>4. /\ skSyncs' = <<>> \/ \E s \in SyncRec : skSyncs' = <<s>> /\ s.epoch = skSender'.epoch
        /\ skBuffer' \in SUBSET Nat /\ skPassed' \in SUBSET Nat
        /\ skAnchor' \in Nat /\ skAnchor' <= skSender'.epoch
    BY <1>1, <1>3, <2>3
  <2> QED
    BY <2>1, <2>2, <2>4 DEF SeekTyped, SyncRec
<1>7. PICK k \in 0..Len(skFrames) :
         /\ \A i \in (k + 1)..Len(skFrames) : skFrames[i] \in Sent
         /\ k > 0 => Kept(k)
  BY <1>1 DEF SeekInv, There
<1>8. k \in 0..Len(frames)
  BY <1>2, <1>4
<1>9. \A i \in (k + 1)..Len(frames) : frames[i] \in Sent'
  <2> SUFFICES ASSUME NEW i \in (k + 1)..Len(frames) PROVE frames[i] \in Sent'
    OBVIOUS
  <2>1. CASE i = Len(skFrames) + 1
    BY <1>2, <1>4, <1>5, <2>1
  <2>2. CASE i # Len(skFrames) + 1
    <3>1. i \in (k + 1)..Len(skFrames) /\ i \in 1..Len(skFrames)
      BY <1>2, <1>4, <2>2
    <3>2. frames[i] \in Sent
      BY <1>4, <1>7, <3>1
    <3> QED
      BY <1>2, <1>3, <3>2 DEF Sent
  <2> QED
    BY <2>1, <2>2
<1>10. k > 0 => Kept(k)'
  <2> SUFFICES ASSUME k > 0 PROVE Kept(k)'
    OBVIOUS
  <2>1. \A i \in 1..k : frames[i] = skFrames[i]
    BY <1>2, <1>4
  <2> QED
    BY <1>1, <1>3, <1>7, <2>1 DEF Kept, Old, First
<1>11. Sent \subseteq Sent'
  BY <1>2, <1>3 DEF Sent
<1>12. There'
  BY <1>1, <1>8, <1>9, <1>10, <1>11 DEF SeekInv, There
<1> QED
  BY <1>1, <1>3, <1>6, <1>12 DEF SeekInv

\* A sync packet says where the sender is.
LEMMA SyncKeeps ==
    ASSUME PlacesAssumption, SeekInv, Gates!Sync
    PROVE  SeekInv'
<1> DEFINE sync == [place |-> skSender.at - SendAhead, epoch |-> skSender.epoch]
<1>1. skSyncs' = <<sync>> /\ sync \in SyncRec /\ sync.epoch = skSender.epoch
  BY DEF Gates!Sync, Gates!Playing, SeekInv, SeekTyped, SenderRec, SyncRec, PlacesAssumption
<1>2. UNCHANGED <<skSender, skFrames, skBuffer, skPassed, skBefore, skAbove, skArm, skAnchor>>
  BY DEF Gates!Sync
<1>3. SeekTyped'
  BY <1>1, <1>2 DEF SeekInv, SeekTyped
<1>4. Head(skSyncs').place = skSender.at - SendAhead
  BY <1>1
<1> QED
  BY <1>2, <1>3, <1>4 DEF SeekInv, There, Kept, Leaving, Old, Older, Sent, First

\* A seek leaves the frames under way far behind, or far ahead.
LEMMA GoneKeeps ==
    ASSUME PlacesAssumption, Faults = {}, SeekInv, NEW p \in Places, Gates!Seek(p)
    PROVE  SeekInv'
<1>1. /\ \/ p - SendAhead - skSender.at > Threshold
         \/ skSender.from - (p - SendAhead) > Window
      /\ \A i \in 1..Len(skFrames) : skFrames[i] \in skSender.from..(skSender.from + Length - 1)
      /\ skSyncs = <<>> /\ skPassed = {}
      /\ skSender' = [epoch |-> skSender.epoch + 1, from |-> p, at |-> p]
      /\ skBuffer' = {} /\ skArm' = TRUE
      /\ UNCHANGED <<skFrames, skSyncs, skPassed, skAnchor>>
  BY DEF Gates!Seek, Gates!Far, Gates!Playing, Gates!Flush, Gates!Place
<1>2. /\ skSender.from \in Nat /\ skSender.at \in Nat /\ p \in Nat /\ skSender.epoch \in Nat
      /\ Length \in Nat /\ Window \in Nat /\ Threshold \in Nat /\ SendAhead \in Nat
      /\ skSender.from <= skSender.at /\ Length + SendAhead <= Window + 1
      /\ Threshold <= Window
  BY DEF SeekInv, SeekTyped, SenderRec, PlacesAssumption
<1>3. SeekTyped'
  BY <1>1, <1>2 DEF SeekInv, SeekTyped, SenderRec
<1>4. \A i \in 1..Len(skFrames) : skFrames[i] \in Sent
  <2>1. CASE skAnchor = skSender.epoch
    <3>1. PICK k \in 0..Len(skFrames) :
             /\ \A i \in (k + 1)..Len(skFrames) : skFrames[i] \in Sent
             /\ k > 0 => Kept(k)
      BY <2>1 DEF SeekInv, There
    <3>2. CASE k > 0
      <4>1. 1 \in 1..Len(skFrames) /\ 1 \in 1..k
        BY <3>2
      <4>2. skFrames[1] < First \/ Old(skFrames[1])
        BY <3>1, <3>2, <4>1 DEF Kept
      <4>3. skFrames[1] \in skSender.from..(skSender.from + Length - 1)
        BY <1>1, <4>1
      <4> QED
        BY <1>2, <4>2, <4>3 DEF Old, First
    <3>3. CASE ~(k > 0)
      BY <3>1, <3>3
    <3> QED
      BY <3>2, <3>3
  <2>2. CASE skAnchor # skSender.epoch
    <3> SUFFICES ASSUME NEW i \in 1..Len(skFrames) PROVE FALSE
      OBVIOUS
    <3>1. Old(skFrames[i]) \/ Older(skFrames[i])
      BY <2>2 DEF SeekInv, Leaving
    <3>2. skFrames[i] \in skSender.from..(skSender.from + Length - 1)
      BY <1>1
    <3> QED
      BY <1>2, <3>1, <3>2 DEF Old, Older, First
  <2> QED
    BY <2>1, <2>2
<1>5. skSender'.from = p /\ skSender'.at = p /\ skSender'.epoch = skSender.epoch + 1
  BY <1>1
<1>6. skAnchor' # skSender'.epoch
  <2>1. skAnchor <= skSender.epoch /\ skAnchor \in Nat
    BY DEF SeekInv, SeekTyped
  <2> QED
    BY <1>1, <1>2, <1>5, <2>1
<1>7. Leaving'
  <2>1. CASE p - SendAhead - skSender.at > Threshold
    <3>1. \A i \in 1..Len(skFrames) : Older(skFrames[i])'
      BY <1>1, <1>2, <1>4, <1>5, <2>1 DEF Older, Sent, First
    <3> QED
      BY <1>1, <1>5, <3>1 DEF Leaving, Older, First
  <2>2. CASE skSender.from - (p - SendAhead) > Window
    <3>1. \A i \in 1..Len(skFrames) : Old(skFrames[i])'
      BY <1>1, <1>2, <1>4, <1>5, <2>2 DEF Old, Sent, First
    <3> QED
      BY <1>1, <1>5, <3>1 DEF Leaving, Old, First
  <2> QED
    BY <1>1, <2>1, <2>2
<1> QED
  BY <1>3, <1>6, <1>7 DEF SeekInv

\* The anchor of the new place empties the buffer and arms the gates; one that
\* comes again finds nothing to keep out.
LEMMA AnchorKeeps ==
    ASSUME PlacesAssumption, Faults = {}, SeekInv, Gates!Anchor
    PROVE  SeekInv'
<1>1. PICK s \in SyncRec : skSyncs = <<s>> /\ s.epoch = skSender.epoch
  BY DEF Gates!Anchor, SeekInv, SeekTyped
<1>2. Head(skSyncs) = s /\ Tail(skSyncs) = <<>>
  BY <1>1
<1> DEFINE displaced == Gates!Displaced(s.place)
<1>3. /\ skBuffer' = IF displaced THEN {} ELSE skBuffer
      /\ Gates!Gates(s.place, displaced)
      /\ skAnchor' = skSender.epoch /\ skSyncs' = <<>> /\ skPassed = {}
      /\ UNCHANGED <<skSender, skFrames, skPassed>>
  BY <1>1, <1>2 DEF Gates!Anchor
<1>4. SeekTyped'
  <2>1. skAnchor' \in Nat /\ skAnchor' <= skSender.epoch
    BY <1>3 DEF SeekInv, SeekTyped, SenderRec
  <2> QED
    BY <1>3, <2>1 DEF SeekInv, SeekTyped
<1>5. /\ skSender.from \in Nat /\ skSender.at \in Nat
      /\ Length \in Nat /\ Window \in Nat /\ Threshold \in Nat /\ Threshold <= Window
      /\ SendAhead \in Nat /\ First \in Int /\ Len(skFrames) \in Nat
  BY LenProperties DEF First, SeekInv, SeekTyped, SenderRec, PlacesAssumption
<1>6. CASE skAnchor = skSender.epoch
  <2>1. skArm = FALSE
    BY <1>6 DEF SeekInv, There
  <2>2. skArm' = FALSE
    BY <1>3, <2>1 DEF Gates!Gates
  <2>3. PICK k \in 0..Len(skFrames) :
           /\ \A i \in (k + 1)..Len(skFrames) : skFrames[i] \in Sent
           /\ k > 0 => Kept(k)
    BY <1>6 DEF SeekInv, There
  <2>4. k > 0 => Kept(k)'
    <3> SUFFICES ASSUME k > 0 PROVE Kept(k)'
      OBVIOUS
    <3>1. skBuffer = {} /\ ~displaced
      BY <2>3 DEF Kept, Gates!Displaced
    <3>2. UNCHANGED <<skBefore, skAbove>> /\ skBuffer' = {}
      BY <1>3, <2>1, <3>1 DEF Gates!Gates
    <3> QED
      BY <1>3, <2>3, <3>2 DEF Kept, Old, First
  <2>5. skBuffer' \subseteq skBuffer
    BY <1>3
  <2>6. There'
    BY <1>3, <1>6, <2>2, <2>3, <2>4, <2>5 DEF SeekInv, There, Sent
  <2> QED
    BY <1>3, <1>4, <2>6 DEF SeekInv
<1>7. CASE skAnchor # skSender.epoch
  <2>1. Leaving /\ s.place = First
    BY <1>1, <1>2, <1>7 DEF SeekInv, Leaving
  <2>2. skBuffer = {} \/ displaced
    <3> SUFFICES ASSUME skBuffer # {} PROVE displaced
      OBVIOUS
    <3>1. skBuffer \in SUBSET Nat
      BY DEF SeekInv, SeekTyped
    <3>2. Gates!Min(skBuffer) \in skBuffer
      BY <3>1, LeastNatural DEF Gates!Min
    <3>3. Gates!Min(skBuffer) \in Nat
      BY <3>1, <3>2
    <3>4. Old(Gates!Min(skBuffer)) \/ Older(Gates!Min(skBuffer))
      BY <2>1, <3>2 DEF Leaving
    <3> QED
      BY <1>5, <2>1, <3>3, <3>4 DEF Old, Older, Gates!Displaced
  <2>3. skBuffer' = {}
    BY <1>3, <2>2
  <2>4. skBefore' = First /\ skAbove' = First + Window /\ skArm' = FALSE
    BY <1>3, <2>1 DEF Gates!Gates, Leaving
  <2>5. Kept(Len(skFrames))'
    <3>1. \/ \A i \in 1..Len(skFrames) : Old(skFrames[i])
          \/ \A i \in 1..Len(skFrames) : skFrames[i] < First
      <4>1. CASE \A i \in 1..Len(skFrames) : Older(skFrames[i])
        <5> SUFFICES ASSUME NEW i \in 1..Len(skFrames) PROVE skFrames[i] < First
          OBVIOUS
        <5>1. skFrames[i] \in Nat /\ Older(skFrames[i])
          BY <4>1, ElementOfSeq DEF SeekInv, SeekTyped
        <5> QED
          BY <1>5, <5>1 DEF Older
      <4> QED
        BY <2>1, <4>1 DEF Leaving
    <3> QED
      BY <1>3, <2>3, <2>4, <3>1 DEF Kept, Old, First
  <2>6. There'
    <3>1. Len(skFrames') \in 0..Len(skFrames') /\ (Len(skFrames') + 1)..Len(skFrames') = {}
      BY <1>3, <1>5
    <3> QED
      BY <1>3, <2>3, <2>4, <2>5, <3>1 DEF There
  <2> QED
    BY <1>3, <1>4, <2>6 DEF SeekInv
<1> QED
  BY <1>6, <1>7

\* A frame of the place before stays behind its gate, one of the new place is
\* the next that was sent.
LEMMA ReceiveKeeps ==
    ASSUME PlacesAssumption, SeekInv, Gates!Receive
    PROVE  SeekInv'
<1> DEFINE f == skFrames[1]
           rest == Tail(skFrames)
<1>1. /\ skFrames # <<>> /\ skPassed = {} /\ Gates!Admit(f) /\ skFrames' = rest
      /\ UNCHANGED <<skSender, skSyncs, skBuffer, skArm, skAnchor>>
  BY DEF Gates!Receive, SeekInv, SeekTyped
<1>2. /\ skFrames \in Seq(Nat) /\ Len(skFrames) \in Nat /\ Len(skFrames) >= 1 /\ f \in Nat
      /\ rest \in Seq(Nat) /\ Len(rest) = Len(skFrames) - 1
      /\ \A i \in 1..Len(rest) : rest[i] = skFrames[i + 1]
  <2>1. skFrames \in Seq(Nat) /\ skFrames # <<>>
    BY <1>1 DEF SeekInv, SeekTyped
  <2> QED
    BY <2>1, HeadTailProperties, EmptySeq, LenProperties, ElementOfSeq
<1>3. skPassed' \subseteq {f}
  BY <1>1 DEF Gates!Admit
<1>4. SeekTyped'
  BY <1>1, <1>2, <1>3 DEF SeekInv, SeekTyped
<1> HIDE DEF rest
<1>5. 1 \in 1..Len(skFrames) /\ \A i \in 1..Len(rest) : i + 1 \in 1..Len(skFrames)
  BY <1>2
<1>6. CASE skAnchor # skSender.epoch
  BY <1>1, <1>2, <1>3, <1>4, <1>5, <1>6 DEF SeekInv, Leaving, Old, Older, First
<1>7. CASE skAnchor = skSender.epoch
  <2>1. PICK k \in 0..Len(skFrames) :
           /\ \A i \in (k + 1)..Len(skFrames) : skFrames[i] \in Sent
           /\ k > 0 => Kept(k)
    BY <1>7 DEF SeekInv, There
  <2>2. skArm' = FALSE /\ skBuffer' \subseteq Sent /\ Sent' = Sent
    BY <1>1, <1>7 DEF SeekInv, There, Sent
  <2>3. CASE k = 0
    <3>1. \A i \in 1..Len(skFrames) : skFrames[i] \in Sent
      BY <2>1, <2>3
    <3>2. f \in Sent /\ \A i \in 1..Len(rest) : rest[i] \in Sent
      BY <1>2, <1>5, <3>1
    <3>3. There'
      <4>1. 0 \in 0..Len(rest) /\ \A i \in (0 + 1)..Len(rest) : rest[i] \in Sent
        BY <1>2, <3>2
      <4>2. skPassed' \subseteq Sent
        BY <1>3, <3>2
      <4> QED
        BY <1>1, <2>2, <4>1, <4>2 DEF There
    <3> QED
      BY <1>1, <1>4, <1>7, <3>3 DEF SeekInv
  <2>4. CASE k > 0
    <3> DEFINE n == k - 1
    <3>1. n \in 0..Len(rest) /\ n + 1 = k /\ 1 \in 1..k /\ \A i \in 1..n : i + 1 \in 1..k
      BY <1>2, <2>4
    <3>2. \A i \in (n + 1)..Len(rest) : rest[i] \in Sent
      <4> SUFFICES ASSUME NEW i \in (n + 1)..Len(rest) PROVE rest[i] \in Sent
        OBVIOUS
      <4>1. i \in 1..Len(rest) /\ i + 1 \in (k + 1)..Len(skFrames)
        BY <1>2, <2>4
      <4> QED
        BY <1>2, <2>1, <4>1
    <3> HIDE DEF n
    <3>3. \A i \in 1..n : i \in 1..Len(rest) /\ rest[i] = skFrames[i + 1]
      BY <1>2, <3>1
    <3>4. First \in Int /\ First >= -SendAhead /\ SendAhead \in Nat /\ Window \in Nat
      BY DEF SeekInv, SeekTyped, SenderRec, PlacesAssumption, First
    <3>5. skBuffer' = {} /\ skSender' = skSender /\ First' = First
      BY <1>1, <2>1, <2>4 DEF Kept, First
    <3>6. CASE skBefore = First /\ \A i \in 1..k : skFrames[i] < First
      <4>1. f < skBefore /\ skBefore # Gates!NoGate
        BY <3>1, <3>4, <3>6 DEF Gates!NoGate
      <4>2. skPassed' = {} /\ skBefore' = skBefore
        BY <1>1, <4>1 DEF Gates!Admit
      <4>3. \A i \in 1..n : rest[i] < First
        BY <3>1, <3>3, <3>6
      <4> QED
        BY <1>1, <1>4, <1>7, <2>2, <3>1, <3>2, <3>5, <3>6, <4>2, <4>3 DEF SeekInv, There, Kept
    <3>7. CASE skAbove = First + Window /\ \A i \in 1..k : Old(skFrames[i])
      <4>1. f > skAbove /\ skAbove # Gates!NoGate
        BY <3>1, <3>4, <3>7 DEF Gates!NoGate, Old
      <4>2. skPassed' = {} /\ skAbove' = skAbove
        BY <1>1, <4>1 DEF Gates!Admit
      <4>3. \A i \in 1..n : rest[i] > First + Window
        BY <3>1, <3>3, <3>7 DEF Old
      <4>4. Kept(n)'
        BY <1>1, <3>5, <3>7, <4>2, <4>3 DEF Kept, Old
      <4> QED
        BY <1>1, <1>4, <1>7, <2>2, <3>1, <3>2, <4>2, <4>4 DEF SeekInv, There
    <3> QED
      BY <2>1, <2>4, <3>6, <3>7 DEF Kept
  <2> QED
    BY <2>1, <2>3, <2>4
<1> QED
  BY <1>6, <1>7

\* The buffer takes in what passed the gates and nothing else.
LEMMA BufferKeeps ==
    ASSUME SeekInv, Gates!Queue \/ Gates!Play
    PROVE  SeekInv'
<1>1. /\ skBuffer' \subseteq skBuffer \cup skPassed
      /\ skPassed' = {} \/ skPassed' = skPassed
      /\ UNCHANGED <<skSender, skFrames, skSyncs, skBefore, skAbove, skArm, skAnchor>>
  BY DEF Gates!Queue, Gates!Play, Gates!Room
<1>2. SeekTyped'
  BY <1>1 DEF SeekInv, SeekTyped
<1>3. There => There'
  <2> SUFFICES ASSUME There PROVE There'
    OBVIOUS
  <2>1. \A k \in 0..Len(skFrames) : Kept(k) => Kept(k)'
    BY <1>1 DEF Kept, Old, First
  <2> QED
    BY <1>1, <2>1 DEF There, Sent
<1>4. Leaving => Leaving'
  BY <1>1 DEF Leaving, Old, Older, First
<1> QED
  BY <1>1, <1>2, <1>3, <1>4 DEF SeekInv

LEMMA SeekNext == PlacesAssumption /\ Faults = {} /\ SeekInv /\ [Gates!Next]_(Gates!skVars) => SeekInv'
<1> SUFFICES ASSUME PlacesAssumption, Faults = {}, SeekInv, [Gates!Next]_(Gates!skVars) PROVE SeekInv'
  OBVIOUS
<1>1. CASE UNCHANGED Gates!skVars
  BY <1>1 DEF Gates!skVars, SeekInv, SeekTyped, There, Kept, Leaving, Old, Older, Sent, First
<1> QED
  BY <1>1, SendKeeps, SyncKeeps, GoneKeeps, AnchorKeeps, ReceiveKeeps, BufferKeeps DEF Gates!Next

\* The frames of the place the sender is at are all it has sent there.
LEMMA SeekSafe == PlacesAssumption /\ SeekInv => Gates!OldPlaceSilent
  BY DEF SeekInv, SeekTyped, There, Sent, Gates!OldPlaceSilent, Gates!Place, SenderRec, PlacesAssumption

\* After a FLUSH, if none of the faults the model lists happens, the gates that
\* audio_receiver.c arms with the next anchor keep every frame of the old place
\* out of the buffer: for all places, however long, if the displacement that counts as a
\* seek is within the gates' window, which a place and the sender's latency fit in.
THEOREM OldPlaceKeptOut ==
    ASSUME PlacesAssumption, Faults = {}
    PROVE  Gates!Spec => [](Gates!OldPlaceSilent)
  BY SeekSafe, SeekInit, SeekNext, PTL DEF Gates!Spec

-----------------------------------------------------------------------------
\* Whatever happens: no more than the buffer holds, and both gates or one, but
\* never gates of two places.
Bounded(buffer) == IsFiniteSet(buffer) /\ Cardinality(buffer) <= MaxFrames

SeekBounded ==
    /\ skSender \in SenderRec /\ skFrames \in Seq(Nat)
    /\ skSyncs = <<>> \/ \E s \in SyncRec : skSyncs = <<s>> /\ s.epoch <= skSender.epoch
    /\ skBuffer \in SUBSET Nat /\ Bounded(skBuffer)
    /\ skPassed = {} \/ \E f \in Nat : skPassed = {f}
    /\ skAnchor \in Nat /\ skAnchor <= skSender.epoch
    /\ skAbove # Gates!NoGate /\ skBefore # Gates!NoGate => skAbove = skBefore + Window

\* A set of frames that is not larger keeps the bound.
LEMMA FewerBounded ==
    ASSUME MaxFrames \in Nat, NEW S, NEW T \in SUBSET S, Bounded(S)
    PROVE  Bounded(T)
<1>1. IsFiniteSet(T) /\ Cardinality(T) <= Cardinality(S)
  BY FS_Subset DEF Bounded
<1>2. Cardinality(S) \in Nat /\ Cardinality(T) \in Nat
  BY <1>1, FS_CardinalityType DEF Bounded
<1> QED
  BY <1>1, <1>2 DEF Bounded

\* A full buffer makes room for one frame.
LEMMA RoomMade ==
    ASSUME MaxFrames \in Nat \ {0}, skBuffer \in SUBSET Nat, Bounded(skBuffer), NEW f \in Nat
    PROVE  Bounded({f} \cup Gates!Room) /\ {f} \cup Gates!Room \in SUBSET Nat
<1> DEFINE room == Gates!Room
<1>1. IsFiniteSet(skBuffer) /\ Cardinality(skBuffer) \in Nat /\ Cardinality(skBuffer) <= MaxFrames
  BY FS_CardinalityType DEF Bounded
<1>2. Cardinality(skBuffer) = Gates!Cardinality(skBuffer)
  BY DEF Cardinality, Gates!Cardinality
<1>3. room \subseteq skBuffer /\ IsFiniteSet(room) /\ Cardinality(room) \in Nat
      /\ Cardinality(room) < MaxFrames
  <2>1. CASE Cardinality(skBuffer) < MaxFrames
    BY <1>1, <1>2, <2>1 DEF Gates!Room
  <2>2. CASE ~(Cardinality(skBuffer) < MaxFrames)
    <3> DEFINE m == Gates!Min(skBuffer)
    <3>1. room = skBuffer \ {m}
      BY <1>2, <2>2 DEF Gates!Room
    <3>2. skBuffer # {}
      BY <1>1, <2>2, FS_EmptySet
    <3>3. \E x \in skBuffer : \A y \in skBuffer : x <= y
      BY <3>2, LeastNatural
    <3>4. m \in skBuffer
      BY <3>3 DEF Gates!Min
    <3> HIDE DEF m, room
    <3>5. IsFiniteSet(room) /\ Cardinality(room) = Cardinality(skBuffer) - 1
      BY <1>1, <3>1, <3>4, FS_RemoveElement
    <3> QED
      BY <1>1, <2>2, <3>1, <3>2, <3>5, FS_CardinalityType
  <2> QED
    BY <2>1, <2>2
<1> HIDE DEF room
<1>4. /\ IsFiniteSet({f} \cup room)
      /\ Cardinality({f} \cup room) = IF f \in room THEN Cardinality(room) ELSE Cardinality(room) + 1
  <2>1. {f} \cup room = room \cup {f}
    OBVIOUS
  <2> QED
    BY <1>3, <2>1, FS_AddElement
<1>5. Bounded({f} \cup room)
  BY <1>1, <1>3, <1>4 DEF Bounded
<1> QED
  BY <1>3, <1>5 DEF room

LEMMA BoundedInit == PlacesAssumption /\ MaxFrames \in Nat /\ Gates!Init => SeekBounded
<1> SUFFICES ASSUME PlacesAssumption, MaxFrames \in Nat, Gates!Init PROVE SeekBounded
  OBVIOUS
<1>1. IsFiniteSet({}) /\ Cardinality({}) = 0
  BY FS_EmptySet
<1>2. PICK p \in Places : skSender = [epoch |-> 0, from |-> p, at |-> p]
  BY DEF Gates!Init
<1>3. skSender \in SenderRec /\ skSender.epoch = 0
  BY <1>2 DEF SenderRec, PlacesAssumption
<1>4. skFrames \in Seq(Nat)
  BY EmptySeq DEF Gates!Init
<1> QED
  BY <1>1, <1>3, <1>4 DEF Gates!Init, SeekBounded, Bounded

\* Every step of the sender and of the tasks, with every fault.
LEMMA BoundedNext ==
    ASSUME PlacesAssumption, MaxFrames \in Nat \ {0}, SeekBounded,
           [Gates!Next]_(Gates!skVars)
    PROVE  SeekBounded'
<1>1. /\ skSender \in SenderRec /\ skFrames \in Seq(Nat)
      /\ skSender.at \in Nat /\ skSender.epoch \in Nat /\ skSender.from \in Nat
  BY DEF SeekBounded, SenderRec
<1>2. CASE UNCHANGED Gates!skVars
  BY <1>2 DEF Gates!skVars, SeekBounded, Bounded
<1>3. CASE Gates!Send
  <2>1. skFrames' \in Seq(Nat)
    BY <1>1, <1>3, AppendProperties DEF Gates!Send
  <2> DEFINE next == skSender.at + 1
  <2>2. skSender' = [skSender EXCEPT !.at = next]
    BY <1>3 DEF Gates!Send
  <2>3. next \in Nat
    BY <1>1
  <2> HIDE DEF next
  <2>4. skSender' \in SenderRec /\ skSender'.epoch = skSender.epoch
    BY <1>1, <2>2, <2>3 DEF SenderRec
  <2> QED
    BY <1>3, <2>1, <2>4 DEF Gates!Send, SeekBounded, Bounded
<1>4. CASE Gates!Sync
  <2> DEFINE s == [place |-> skSender.at - SendAhead, epoch |-> skSender.epoch]
  <2>1. s \in SyncRec /\ s.epoch = skSender.epoch
    BY <1>1 DEF SyncRec, PlacesAssumption
  <2>2. skSyncs' = <<s>>
    BY <1>4 DEF Gates!Sync, Gates!Playing
  <2> HIDE DEF s
  <2>3. \E t \in SyncRec : skSyncs' = <<t>> /\ t.epoch <= skSender.epoch
    BY <1>1, <2>1, <2>2
  <2> QED
    BY <1>4, <2>3 DEF Gates!Sync, SeekBounded, Bounded
<1>5. ASSUME NEW p \in Places, Gates!Seek(p) PROVE SeekBounded'
  <2>1. skSender' = [epoch |-> skSender.epoch + 1, from |-> p, at |-> p]
        /\ UNCHANGED <<skFrames, skSyncs, skPassed, skAnchor>>
        /\ skBuffer' = {} /\ skBefore' = Gates!NoGate /\ skAbove' = Gates!NoGate
    BY <1>5 DEF Gates!Seek, Gates!Flush
  <2>2. skSender' \in SenderRec /\ skSender'.epoch = skSender.epoch + 1
    BY <1>1, <2>1 DEF SenderRec, PlacesAssumption
  <2>3. Bounded(skBuffer')
    BY <2>1, FewerBounded DEF SeekBounded
  <2>4. skSyncs = <<>> \/ \E s \in SyncRec : skSyncs = <<s>> /\ s.epoch <= skSender.epoch + 1
    BY <1>1 DEF SeekBounded, SyncRec
  <2>5. skAnchor <= skSender.epoch + 1
    BY <1>1 DEF SeekBounded
  <2> QED
    BY <2>1, <2>2, <2>3, <2>4, <2>5 DEF SeekBounded, Bounded
<1>6. CASE Gates!Anchor
  <2>1. PICK s \in SyncRec : skSyncs = <<s>> /\ s.epoch <= skSender.epoch
    BY <1>6 DEF Gates!Anchor, SeekBounded
  <2>2. Head(skSyncs) = s /\ Tail(skSyncs) = <<>> /\ s.place \in Int /\ s.epoch \in Nat
    BY <2>1 DEF SyncRec
  <2>3. /\ skBuffer' \subseteq skBuffer /\ skAnchor' = s.epoch /\ skSyncs' = <<>>
        /\ \/ skBefore' = s.place /\ skAbove' = s.place + Window
           \/ UNCHANGED <<skBefore, skAbove>>
        /\ UNCHANGED <<skSender, skFrames, skPassed>>
    BY <1>6, <2>2 DEF Gates!Anchor, Gates!Gates
  <2>4. Bounded(skBuffer')
    BY <2>3, FewerBounded DEF SeekBounded
  <2> QED
    BY <2>1, <2>2, <2>3, <2>4 DEF SeekBounded, Bounded
<1>7. CASE Gates!Receive
  <2>1. skFrames # <<>> /\ Head(skFrames) \in Nat /\ Tail(skFrames) \in Seq(Nat)
    BY <1>1, <1>7, HeadTailProperties DEF Gates!Receive
  <2>2. /\ skPassed' = {} \/ skPassed' = {Head(skFrames)}
        /\ skBefore' \in {skBefore, Gates!NoGate} /\ skAbove' \in {skAbove, Gates!NoGate}
        /\ skFrames' = Tail(skFrames)
        /\ UNCHANGED <<skSender, skSyncs, skBuffer, skAnchor>>
    BY <1>7 DEF Gates!Receive, Gates!Admit
  <2> QED
    BY <2>1, <2>2 DEF SeekBounded, Bounded
<1>8. CASE Gates!Queue
  <2>1. PICK f \in Nat : skPassed = {f}
    BY <1>8 DEF Gates!Queue, SeekBounded
  <2>2. Bounded({f} \cup Gates!Room) /\ {f} \cup Gates!Room \in SUBSET Nat
    BY RoomMade DEF SeekBounded
  <2>3. skBuffer' = {f} \cup Gates!Room
    BY <1>8, <2>1 DEF Gates!Queue
  <2>4. skBuffer' \in SUBSET Nat /\ Bounded(skBuffer')
    BY <2>2, <2>3
  <2> QED
    BY <1>8, <2>4 DEF Gates!Queue, SeekBounded, Bounded
<1>9. CASE Gates!Play
  <2>1. skBuffer' \subseteq skBuffer
    BY <1>9 DEF Gates!Play
  <2>2. Bounded(skBuffer')
    BY <2>1, FewerBounded DEF SeekBounded
  <2> QED
    BY <1>9, <2>1, <2>2 DEF Gates!Play, SeekBounded, Bounded
<1> QED
  BY <1>2, <1>3, <1>4, <1>5, <1>6, <1>7, <1>8, <1>9 DEF Gates!Next

\* One frame is decoded at a time, and the buffer is no larger than it may be.
LEMMA SeekTypes == SeekBounded => Gates!TypeOK
<1> SUFFICES ASSUME SeekBounded PROVE Gates!TypeOK
  OBVIOUS
<1>1. \A S : Cardinality(S) = Gates!Cardinality(S)
  BY DEF Cardinality, Gates!Cardinality
<1>2. Cardinality(skPassed) <= 1
  <2>1. CASE skPassed = {}
    BY <2>1, FS_EmptySet
  <2>2. ASSUME NEW f \in Nat, skPassed = {f} PROVE Cardinality(skPassed) <= 1
    <3>1. Cardinality({f}) = 1
      BY FS_Singleton
    <3> QED
      BY <2>2, <3>1
  <2> QED
    BY <2>1, <2>2 DEF SeekBounded
<1> QED
  BY <1>1, <1>2 DEF SeekBounded, Bounded, Gates!TypeOK

-----------------------------------------------------------------------------
(* The packets of the stream and the requests for those that are missing.  *)

\* A remainder of a sum with a multiple is no more than the rest of the sum.
LEMMA RestOfSum ==
    ASSUME NEW m \in Nat, m > 0, NEW x \in Nat, NEW q \in Int
    PROVE  (x + m * q) % m \in 0..x
<1> DEFINE y == x + m * q
           d == y \div m
           r == y % m
           e == q - d
<1>1. m * q \in Int
  OBVIOUS
<1>2. y \in Int /\ d \in Int /\ r \in 0..(m - 1) /\ y = m * d + r
  <2>1. y \in Int
    BY <1>1
  <2> HIDE DEF y
  <2> QED
    BY <2>1
<1>3. m * e = m * q - m * d
  <2> HIDE DEF y, d
  <2> QED
    BY <1>2
<1>4. x + m * e = r
  <2>1. m * d \in Int
    <3> HIDE DEF y, d
    <3> QED
      BY <1>2
  <2>2. y = x + m * q
    OBVIOUS
  <2> HIDE DEF y, d, r, e
  <2> DEFINE mq == m * q
             md == m * d
             me == m * e
  <2>3. mq \in Int /\ md \in Int /\ me = mq - md /\ y = md + r /\ y = x + mq
    BY <1>1, <1>2, <1>3, <2>1, <2>2
  <2> HIDE DEF mq, md, me
  <2>4. x + me = r
    BY <1>2, <2>3
  <2> QED
    BY <2>4 DEF me
<1> HIDE DEF y, d, r, e
<1>5. SUFFICES ASSUME r > x PROVE FALSE
  BY <1>2 DEF r, y
<1>6. e \in Int
  BY <1>2 DEF e
<1>7. CASE e >= 1
  <2>1. m * e >= m
    BY <1>6, <1>7
  <2> QED
    BY <1>2, <1>4, <1>6, <2>1
<1>8. CASE e <= 0
  <2>1. m * e <= 0
    BY <1>6, <1>8
  <2> QED
    BY <1>2, <1>4, <1>5, <1>6, <2>1
<1> QED
  BY <1>6, <1>7, <1>8

\* The numbers that a packet passes over, although they wrap: packets sent after
\* the last one and before it.
LEMMA WantedBetween ==
    ASSUME SeqMod \in Nat \ {0}, NEW last \in Nat, NEW i \in Nat, last < i, rxLast = last % SeqMod
    PROVE  \A w \in Packets!Wanted(i, Packets!Gap(i)) : w \in Nat /\ last < w /\ w < i
<1> DEFINE q == last \div SeqMod
           x == i - (last + 1)
           gap == Packets!Gap(i)
<1>1. q \in Int /\ rxLast \in Nat /\ last = SeqMod * q + rxLast
  OBVIOUS
<1>2. x \in Nat
  OBVIOUS
<1>3. i - (rxLast + 1) = x + SeqMod * q
  <2> HIDE DEF q
  <2> DEFINE sq == SeqMod * q
  <2>1. sq \in Int
    BY <1>1
  <2>2. last = sq + rxLast
    BY <1>1
  <2> HIDE DEF sq
  <2>3. i - (rxLast + 1) = x + sq
    BY <1>1, <2>1, <2>2
  <2> QED
    BY <2>3 DEF sq
<1>4. gap \in 0..x
  <2>1. SeqMod \in Nat /\ SeqMod > 0
    OBVIOUS
  <2>2. gap = (i - (rxLast + 1)) % SeqMod
    BY DEF Packets!Gap
  <2> HIDE DEF q, x, gap
  <2>3. (x + SeqMod * q) % SeqMod \in 0..x
    BY <1>1, <1>2, <2>1, RestOfSum
  <2> QED
    BY <1>3, <2>2, <2>3
<1> HIDE DEF gap, q
<1>5. \A d \in 1..gap : last < i - d /\ i - d < i
  BY <1>4
<1> QED
  BY <1>5 DEF Packets!Wanted, gap

PacketRec == [i : Nat, again : BOOLEAN]

\* What is followed comes in order: nothing that was noted or asked for is later
\* than the last packet that was noted, and what is still to come is.
Ordered(last) ==
    /\ last \in rxSeen /\ rxLast = last % SeqMod
    /\ \A j \in rxSeen \cup rxAsked : j <= last
    /\ \A k \in 1..Len(rxData) : ~rxData[k].again => rxData[k].i > last

PacketsInv ==
    /\ rxSent \in Nat /\ rxData \in Seq(PacketRec)
    /\ rxSeen \in SUBSET Nat /\ rxAsked \in SUBSET Nat /\ rxControl \subseteq rxAsked
    /\ rxDecoded \subseteq rxSeen \cup rxAsked
    /\ rxAsked \cap rxSeen = {}
    /\ \A k \in 1..Len(rxData) : IF rxData[k].again THEN rxData[k].i \in rxAsked
                                 ELSE rxData[k].i < rxSent
    /\ \A k, l \in 1..Len(rxData) :
          k < l /\ ~rxData[k].again /\ ~rxData[l].again => rxData[k].i < rxData[l].i
    /\ rxSeen = {} => rxAsked = {} /\ rxLast = 0
    /\ rxSeen # {} => \E last \in Nat : Ordered(last)
    /\ \A j \in rxSeen \cup rxAsked : j < rxSent

\* Nothing was sent.
LEMMA PacketsInit == Packets!Init => PacketsInv
<1> SUFFICES ASSUME Packets!Init PROVE PacketsInv
  OBVIOUS
<1>1. rxData = <<>> /\ 1..Len(rxData) = {}
  BY EmptySeq DEF Packets!Init
<1>2. rxData \in Seq(PacketRec)
  BY <1>1, EmptySeq
<1> QED
  BY <1>1, <1>2 DEF Packets!Init, PacketsInv

\* A packet that is appended is later than those before it, or was asked for.
LEMMA ArriveKeeps ==
    ASSUME PacketsInv, NEW p \in PacketRec, rxData' = Append(rxData, p),
           rxSent' \in {rxSent, rxSent + 1}, rxControl' \subseteq rxControl,
           IF p.again THEN p.i \in rxAsked ELSE p.i = rxSent /\ rxSent' = rxSent + 1,
           UNCHANGED <<rxLast, rxSeen, rxDecoded, rxAsked>>
    PROVE  PacketsInv'
<1> DEFINE n == Len(rxData)
           data == Append(rxData, p)
<1>1. /\ n \in Nat /\ data \in Seq(PacketRec) /\ Len(data) = n + 1 /\ data[n + 1] = p
      /\ \A k \in 1..n : data[k] = rxData[k]
  BY AppendProperties, LenProperties DEF PacketsInv
<1>2. \A k \in 1..n : rxData[k] \in PacketRec
  BY ElementOfSeq DEF PacketsInv
<1>3. rxSent \in Nat /\ rxSent <= rxSent' /\ rxSent' \in Nat
  BY DEF PacketsInv
<1>4. p.i \in Nat /\ \A k \in 1..n : rxData[k].i \in Nat
  BY <1>2 DEF PacketRec
<1> HIDE DEF data, n
<1>5. \A k \in 1..(n + 1) : k = n + 1 \/ k \in 1..n
  BY <1>1
<1>6. \A k \in 1..Len(data) : IF data[k].again THEN data[k].i \in rxAsked ELSE data[k].i < rxSent'
  <2> SUFFICES ASSUME NEW k \in 1..Len(data)
               PROVE  IF data[k].again THEN data[k].i \in rxAsked ELSE data[k].i < rxSent'
    OBVIOUS
  <2>1. CASE k = n + 1
    BY <1>1, <1>3, <2>1
  <2>2. CASE k \in 1..n
    BY <1>1, <1>3, <1>4, <2>2 DEF PacketsInv, n
  <2> QED
    BY <1>1, <1>5, <2>1, <2>2
<1>7. \A k, l \in 1..Len(data) :
         k < l /\ ~data[k].again /\ ~data[l].again => data[k].i < data[l].i
  <2> SUFFICES ASSUME NEW k \in 1..Len(data), NEW l \in 1..Len(data), k < l,
                      ~data[k].again, ~data[l].again
               PROVE  data[k].i < data[l].i
    OBVIOUS
  <2>1. k \in 1..n
    BY <1>1
  <2>2. CASE l \in 1..n
    BY <1>1, <2>1, <2>2 DEF PacketsInv, n
  <2>3. CASE l = n + 1
    <3>1. rxData[k].i < rxSent
      BY <1>1, <2>1 DEF PacketsInv, n
    <3> QED
      BY <1>1, <2>1, <2>3, <3>1
  <2> QED
    BY <1>1, <1>5, <2>2, <2>3
<1>8. rxSeen # {} => \E last \in Nat : Ordered(last)'
  <2> SUFFICES ASSUME NEW last \in Nat, Ordered(last) PROVE Ordered(last)'
    BY DEF PacketsInv
  <2>1. last < rxSent
    BY DEF Ordered, PacketsInv
  <2>2. \A k \in 1..Len(data) : ~data[k].again => data[k].i > last
    <3> SUFFICES ASSUME NEW k \in 1..Len(data), ~data[k].again PROVE data[k].i > last
      OBVIOUS
    <3>1. CASE k = n + 1
      BY <1>1, <1>3, <2>1, <3>1
    <3>2. CASE k \in 1..n
      BY <1>1, <3>2 DEF Ordered, n
    <3> QED
      BY <1>1, <1>5, <3>1, <3>2
  <2> QED
    BY <2>2 DEF Ordered, data
<1>9. \A j \in rxSeen \cup rxAsked : j < rxSent'
  <2> SUFFICES ASSUME NEW j \in rxSeen \cup rxAsked PROVE j < rxSent'
    OBVIOUS
  <2>1. j \in Nat /\ j < rxSent
    BY DEF PacketsInv
  <2> QED
    BY <1>3, <2>1
<1> QED
  BY <1>1, <1>3, <1>6, <1>7, <1>8, <1>9 DEF PacketsInv, data

\* The head of the data socket is taken.
LEMMA HeadTaken ==
    ASSUME PacketsInv, rxData # <<>>
    PROVE  LET rest == Packets!Without(rxData, 1)
           IN  /\ rest \in Seq(PacketRec) /\ Len(rest) = Len(rxData) - 1
               /\ \A k \in 1..Len(rest) : rest[k] = rxData[k + 1] /\ k + 1 \in 1..Len(rxData)
               /\ rxData[1] \in PacketRec /\ 1 \in 1..Len(rxData) /\ Len(rxData) \in Nat
<1>1. rxData \in Seq(PacketRec) /\ Len(rxData) \in Nat /\ Len(rxData) >= 1
  BY EmptySeq, LenProperties DEF PacketsInv
<1>2. SubSeq(rxData, 1, 1 - 1) = <<>>
  BY SubSeqEmpty
<1>3. Tail(rxData) \in Seq(PacketRec) /\ SubSeq(rxData, 1 + 1, Len(rxData)) = Tail(rxData)
  BY <1>1, TailIsSubSeq, HeadTailProperties
<1>4. Packets!Without(rxData, 1) = Tail(rxData)
  BY <1>2, <1>3, ConcatEmptySeq DEF Packets!Without
<1>5. /\ Len(Tail(rxData)) = Len(rxData) - 1
      /\ \A k \in 1..Len(Tail(rxData)) : Tail(rxData)[k] = rxData[k + 1]
  BY <1>1, HeadTailProperties
<1>6. rxData[1] \in PacketRec
  BY <1>1, ElementOfSeq
<1> DEFINE rest == Tail(rxData)
<1> HIDE DEF rest
<1>7. /\ rest \in Seq(PacketRec) /\ Len(rest) = Len(rxData) - 1
      /\ \A k \in 1..Len(rest) : rest[k] = rxData[k + 1]
  BY <1>3, <1>5 DEF rest
<1>8. \A k \in 1..Len(rest) : k + 1 \in 1..Len(rxData)
  BY <1>1, <1>7
<1>9. 1 \in 1..Len(rxData)
  BY <1>1
<1>10. Packets!Without(rxData, 1) = rest
  BY <1>4 DEF rest
<1> QED
  BY <1>1, <1>6, <1>7, <1>8, <1>9, <1>10

\* What the receive task does with the head of the socket: nothing, or what
\* Follow does with it, and it decodes what it follows or has asked for.
Taken(p) == /\ rxData' = Packets!Without(rxData, 1)
            /\ rxSent' = rxSent
            /\ rxDecoded' \subseteq rxDecoded \cup {p.i}

\* A packet that is not noted changes nothing that is known of the others.
LEMMA UnnotedKeeps ==
    ASSUME PacketsInv, rxData # <<>>, NEW p, p = rxData[1], Taken(p),
           UNCHANGED <<rxAsked, rxControl, rxLast, rxSeen>>,
           rxDecoded' # rxDecoded => p.again
    PROVE  PacketsInv'
<1> DEFINE rest == Packets!Without(rxData, 1)
<1>1. /\ rest \in Seq(PacketRec) /\ Len(rest) = Len(rxData) - 1
      /\ \A k \in 1..Len(rest) : rest[k] = rxData[k + 1] /\ k + 1 \in 1..Len(rxData)
      /\ p \in PacketRec /\ 1 \in 1..Len(rxData)
  BY HeadTaken
<1>2. rxData' = rest /\ rxSent' = rxSent
  BY DEF Taken
<1> HIDE DEF rest
<1>3. rxDecoded' \subseteq rxSeen \cup rxAsked
  <2>1. p.again => p.i \in rxAsked
    BY <1>1 DEF PacketsInv
  <2> QED
    BY <2>1 DEF Taken, PacketsInv
<1>4. \A k \in 1..Len(rest) : IF rest[k].again THEN rest[k].i \in rxAsked ELSE rest[k].i < rxSent
  BY <1>1 DEF PacketsInv
<1>5. \A k, l \in 1..Len(rest) :
         k < l /\ ~rest[k].again /\ ~rest[l].again => rest[k].i < rest[l].i
  <2> SUFFICES ASSUME NEW k \in 1..Len(rest), NEW l \in 1..Len(rest), k < l,
                      ~rest[k].again, ~rest[l].again
               PROVE  rest[k].i < rest[l].i
    OBVIOUS
  <2>1. k + 1 < l + 1 /\ k + 1 \in 1..Len(rxData) /\ l + 1 \in 1..Len(rxData)
    BY <1>1
  <2> QED
    BY <1>1, <2>1 DEF PacketsInv
<1>6. \A last \in Nat : Ordered(last) => Ordered(last)'
  BY <1>1, <1>2 DEF Ordered
<1> QED
  BY <1>1, <1>2, <1>3, <1>4, <1>5, <1>6 DEF PacketsInv

\* A packet that is noted is the last one, and what is asked for lies between it
\* and the one before.
LEMMA NotedKeeps ==
    ASSUME SeqMod \in Nat \ {0}, PacketsInv, rxData # <<>>, NEW p, p = rxData[1], Taken(p),
           ~p.again, NEW wanted,
           wanted = (IF rxDecoded # {} /\ Packets!Gap(p.i) \in 1..(MaxGap - 1)
                     THEN Packets!Wanted(p.i, Packets!Gap(p.i)) ELSE {}),
           Packets!Ask(wanted), rxLast' = p.i % SeqMod, rxSeen' = rxSeen \cup {p.i}
    PROVE  PacketsInv' /\ Packets!AsksOnce
<1> DEFINE rest == Packets!Without(rxData, 1)
           i == p.i
<1>1. /\ rest \in Seq(PacketRec) /\ Len(rest) = Len(rxData) - 1 /\ Len(rxData) \in Nat
      /\ \A k \in 1..Len(rest) : rest[k] = rxData[k + 1] /\ k + 1 \in 1..Len(rxData)
      /\ p \in PacketRec /\ 1 \in 1..Len(rxData)
  BY HeadTaken
<1>2. rxData' = rest /\ rxSent' = rxSent /\ rxDecoded' \subseteq rxDecoded \cup {i}
  BY DEF Taken
<1>3. i \in Nat /\ rxSent \in Nat /\ i < rxSent
  BY <1>1 DEF PacketRec, PacketsInv
<1> HIDE DEF rest, i
<1>4. /\ \/ rxAsked' = rxAsked \cup wanted /\ rxControl' = rxControl \cup wanted
         \/ UNCHANGED <<rxAsked, rxControl>>
  BY DEF Packets!Ask
<1>5. \A j \in rxSeen \cup rxAsked : j < i /\ j \in Nat
  <2> SUFFICES ASSUME NEW j \in rxSeen \cup rxAsked PROVE j < i /\ j \in Nat
    OBVIOUS
  <2>1. rxSeen # {} /\ j \in Nat
    BY DEF PacketsInv
  <2>2. PICK last \in Nat : Ordered(last)
    BY <2>1 DEF PacketsInv
  <2>3. j <= last /\ last < i
    BY <1>1, <2>2 DEF Ordered, i
  <2> QED
    BY <1>3, <2>1, <2>2, <2>3
<1>6. \A w \in wanted : w \in Nat /\ w < i /\ ~(w \in rxSeen \cup rxAsked)
  <2> SUFFICES ASSUME NEW w \in wanted PROVE w \in Nat /\ w < i /\ ~(w \in rxSeen \cup rxAsked)
    OBVIOUS
  <2>1. w \in Packets!Wanted(i, Packets!Gap(i)) /\ rxDecoded # {}
    BY DEF i
  <2>2. rxSeen # {}
    BY <2>1 DEF PacketsInv
  <2>3. PICK last \in Nat : Ordered(last)
    BY <2>2 DEF PacketsInv
  <2>4. last < i
    BY <1>5, <2>3 DEF Ordered
  <2>5. w \in Nat /\ last < w /\ w < i
    BY <1>3, <2>1, <2>3, <2>4, WantedBetween DEF Ordered
  <2>6. \A j \in rxSeen \cup rxAsked : j <= last
    BY <2>3 DEF Ordered
  <2> QED
    BY <1>5, <2>5, <2>6
<1>7. Packets!AsksOnce
  BY <1>4, <1>6 DEF Packets!AsksOnce
<1>8. /\ rxSeen' \in SUBSET Nat /\ rxAsked' \in SUBSET Nat /\ rxControl' \subseteq rxAsked'
      /\ rxAsked' \cap rxSeen' = {} /\ rxSeen' # {} /\ i \in rxSeen'
      /\ rxAsked \subseteq rxAsked' /\ rxSeen \subseteq rxSeen'
  <2>1. rxSeen' = rxSeen \cup {i}
    BY DEF i
  <2>2. ~(i \in rxAsked)
    BY <1>3, <1>5
  <2>3. rxAsked' \cap rxSeen' = {} /\ rxAsked' \in SUBSET Nat
    <3>1. CASE rxAsked' = rxAsked \cup wanted
      <4>1. \A w \in wanted : w \in Nat /\ w # i /\ w \notin rxSeen
        BY <1>3, <1>6
      <4>2. rxAsked \cap rxSeen = {} /\ rxAsked \subseteq Nat
        BY DEF PacketsInv
      <4> QED
        BY <2>1, <2>2, <3>1, <4>1, <4>2, Zenon
    <3>2. CASE rxAsked' = rxAsked
      BY <2>1, <2>2, <3>2 DEF PacketsInv
    <3> QED
      BY <1>4, <3>1, <3>2
  <2>4. rxControl' \subseteq rxAsked' /\ rxAsked \subseteq rxAsked'
    BY <1>4 DEF PacketsInv
  <2> QED
    BY <1>3, <2>1, <2>3, <2>4 DEF PacketsInv
<1>9. \A j \in rxSeen' \cup rxAsked' : j <= i
  BY <1>3, <1>4, <1>5, <1>6 DEF i
<1>10. rxDecoded' \subseteq rxSeen' \cup rxAsked'
  BY <1>2, <1>8 DEF PacketsInv
<1>11. \A k \in 1..Len(rest) : IF rest[k].again THEN rest[k].i \in rxAsked' ELSE rest[k].i < rxSent
  BY <1>1, <1>8 DEF PacketsInv
<1>12. \A k, l \in 1..Len(rest) :
          k < l /\ ~rest[k].again /\ ~rest[l].again => rest[k].i < rest[l].i
  <2> SUFFICES ASSUME NEW k \in 1..Len(rest), NEW l \in 1..Len(rest), k < l,
                      ~rest[k].again, ~rest[l].again
               PROVE  rest[k].i < rest[l].i
    OBVIOUS
  <2>1. k + 1 < l + 1 /\ k + 1 \in 1..Len(rxData) /\ l + 1 \in 1..Len(rxData)
    BY <1>1
  <2> QED
    BY <1>1, <2>1 DEF PacketsInv
<1>13. \A k \in 1..Len(rest) : ~rest[k].again => rest[k].i > i
  <2> SUFFICES ASSUME NEW k \in 1..Len(rest), ~rest[k].again PROVE rest[k].i > i
    OBVIOUS
  <2>1. rest[k] = rxData[k + 1] /\ k + 1 \in 1..Len(rxData) /\ 1 < k + 1
    BY <1>1
  <2>2. rxData[1].i < rxData[k + 1].i
    BY <1>1, <2>1 DEF PacketsInv
  <2>3. rxData[k + 1] \in PacketRec
    BY <2>1, ElementOfSeq DEF PacketsInv
  <2> QED
    BY <1>3, <2>1, <2>2, <2>3 DEF i, PacketRec
<1>14. Ordered(i)'
  <2>1. rxLast' = i % SeqMod
    BY DEF i
  <2> QED
    BY <1>2, <1>8, <1>9, <1>13, <2>1 DEF Ordered
<1>15. \E last \in Nat : Ordered(last)'
  BY <1>3, <1>14
<1>16. \A j \in rxSeen' \cup rxAsked' : j < rxSent
  <2> SUFFICES ASSUME NEW j \in rxSeen' \cup rxAsked' PROVE j < rxSent
    OBVIOUS
  <2>1. j <= i /\ j \in Nat
    BY <1>8, <1>9
  <2> QED
    BY <1>3, <2>1
<1> QED
  BY <1>1, <1>2, <1>3, <1>7, <1>8, <1>10, <1>11, <1>12, <1>15, <1>16 DEF PacketsInv

LEMMA PacketsNext ==
    ASSUME SeqMod \in Nat \ {0}, ~Reorders, PacketsInv, [Packets!Next]_(Packets!rxVars)
    PROVE  PacketsInv' /\ (Packets!AsksOnce \/ UNCHANGED Packets!rxVars)
<1>1. CASE UNCHANGED Packets!rxVars
  BY <1>1 DEF Packets!rxVars, PacketsInv, Ordered
<1>2. CASE Packets!Send
  <2>1. UNCHANGED <<rxControl, rxLast, rxSeen, rxDecoded, rxAsked, rxBackoff>> /\ rxSent' = rxSent + 1
    BY <1>2 DEF Packets!Send
  <2>2. Packets!AsksOnce
    BY <2>1 DEF Packets!AsksOnce
  <2>3. CASE UNCHANGED rxData
    <3>1. rxSent \in Nat
      BY DEF PacketsInv
    <3>2. \A k \in 1..Len(rxData) : rxData[k].i \in Nat
      <4> SUFFICES ASSUME NEW k \in 1..Len(rxData) PROVE rxData[k].i \in Nat
        OBVIOUS
      <4>1. rxData[k] \in PacketRec
        BY ElementOfSeq DEF PacketsInv
      <4> QED
        BY <4>1 DEF PacketRec
    <3>3. \A j \in rxSeen \cup rxAsked : j < rxSent'
      <4> SUFFICES ASSUME NEW j \in rxSeen \cup rxAsked PROVE j < rxSent'
        OBVIOUS
      <4>1. j \in Nat /\ j < rxSent
        BY DEF PacketsInv
      <4> QED
        BY <2>1, <3>1, <4>1
    <3>4. \A k \in 1..Len(rxData) : IF rxData[k].again THEN rxData[k].i \in rxAsked
                                    ELSE rxData[k].i < rxSent'
      BY <2>1, <3>1, <3>2 DEF PacketsInv
    <3>5. \A last \in Nat : Ordered(last) => Ordered(last)'
      BY <2>1, <2>3 DEF Ordered
    <3>6. rxSent' \in Nat
      BY <2>1, <3>1
    <3> QED
      BY <2>1, <2>2, <2>3, <3>3, <3>4, <3>5, <3>6 DEF PacketsInv
  <2>4. CASE rxData' = Append(rxData, [i |-> rxSent, again |-> FALSE])
    <3> DEFINE p == [i |-> rxSent, again |-> FALSE]
    <3>1. p \in PacketRec /\ ~p.again /\ p.i = rxSent
      BY DEF PacketRec, PacketsInv
    <3> HIDE DEF p
    <3>2. rxData' = Append(rxData, p)
      BY <2>4 DEF p
    <3> QED
      BY <2>1, <2>2, <3>1, <3>2, ArriveKeeps
  <2> QED
    BY <1>2, <2>3, <2>4 DEF Packets!Send
<1>3. ASSUME NEW i \in rxControl, Packets!Answer(i)
      PROVE  PacketsInv' /\ Packets!AsksOnce
  <2> DEFINE p == [i |-> i, again |-> TRUE]
  <2>1. p \in PacketRec /\ p.again /\ p.i \in rxAsked
    BY DEF PacketRec, PacketsInv
  <2>2. /\ rxData' = Append(rxData, p) /\ rxControl' \subseteq rxControl
        /\ UNCHANGED <<rxSent, rxLast, rxSeen, rxDecoded, rxAsked, rxBackoff>>
    BY <1>3 DEF Packets!Answer, Packets!Forward
  <2> HIDE DEF p
  <2>3. Packets!AsksOnce
    BY <2>2 DEF Packets!AsksOnce
  <2> QED
    BY <2>1, <2>2, <2>3, ArriveKeeps
<1>4. ASSUME NEW k \in 1..Len(rxData), Packets!Receive(k)
      PROVE  PacketsInv' /\ Packets!AsksOnce
  <2> DEFINE p == rxData[1]
  <2>1. k = 1 /\ rxData' = Packets!Without(rxData, 1) /\ UNCHANGED rxSent
    BY <1>4 DEF Packets!Receive
  <2>2. rxData # <<>>
    BY EmptySeq
  <2>3. \/ UNCHANGED <<rxAsked, rxControl, rxLast, rxSeen, rxDecoded>>
        \/ Packets!Follow(p) /\ rxDecoded' \in {rxDecoded, rxDecoded \cup {p.i}}
    BY <1>4, <2>1 DEF Packets!Receive
  <2>4. rxDecoded' \subseteq rxDecoded \cup {p.i}
    BY <2>3
  <2>5. Taken(p)
    BY <2>1, <2>4 DEF Taken
  <2> HIDE DEF p
  <2>6. CASE UNCHANGED <<rxAsked, rxControl, rxLast, rxSeen, rxDecoded>>
    <3>1. Packets!AsksOnce
      BY <2>6 DEF Packets!AsksOnce
    <3> QED
      BY <2>2, <2>5, <2>6, <3>1, UnnotedKeeps DEF p
  <2>7. CASE Packets!Follow(p) /\ p.again
    <3>1. UNCHANGED <<rxAsked, rxControl, rxLast, rxSeen>>
      BY <2>7 DEF Packets!Follow
    <3>2. Packets!AsksOnce
      BY <3>1 DEF Packets!AsksOnce
    <3> QED
      BY <2>2, <2>5, <2>7, <3>1, <3>2, UnnotedKeeps DEF p
  <2>8. CASE Packets!Follow(p) /\ ~p.again
    <3> DEFINE wanted == IF rxDecoded # {} /\ Packets!Gap(p.i) \in 1..(MaxGap - 1)
                         THEN Packets!Wanted(p.i, Packets!Gap(p.i)) ELSE {}
    <3>1. Packets!Ask(wanted) /\ rxLast' = p.i % SeqMod /\ rxSeen' = rxSeen \cup {p.i}
      BY <2>8 DEF Packets!Follow
    <3> QED
      BY <2>2, <2>5, <2>8, <3>1, NotedKeeps DEF p
  <2> QED
    BY <2>3, <2>6, <2>7, <2>8
<1>5. CASE Packets!BackoffEnds
  BY <1>5 DEF Packets!BackoffEnds, PacketsInv, Ordered, Packets!AsksOnce
<1> QED
  BY <1>1, <1>2, <1>3, <1>4, <1>5 DEF Packets!Next, Packets!ReceiveSome

\* While the packets come in their order, whatever is lost of them and wherever
\* their 16-bit numbers wrap, audio_stream_realtime.c asks only for packets that
\* did not come, and for none of them twice; for every longest gap, with requests
\* that cannot be sent and answers that are of no use.
THEOREM AsksForMissing ==
    ASSUME SeqMod \in Nat \ {0}, ~Reorders
    PROVE  Packets!Spec => [](Packets!NothingSeenAsked) /\ Packets!AskedOnce
<1>1. PacketsInv => Packets!NothingSeenAsked
  BY DEF PacketsInv, Packets!NothingSeenAsked
<1>2. PacketsInv /\ [Packets!Next]_(Packets!rxVars) => PacketsInv'
  BY PacketsNext
<1>3. PacketsInv /\ [Packets!Next]_(Packets!rxVars) => [Packets!AsksOnce]_(Packets!rxVars)
  BY PacketsNext
<1> QED
  BY <1>1, <1>2, <1>3, PacketsInit, PTL DEF Packets!Spec, Packets!AskedOnce

-----------------------------------------------------------------------------
\* Whatever the order in which packets come: those on the data socket were sent
\* or asked for, and so was all that was noted or decoded.
Known == {p \in PacketRec : IF p.again THEN p.i \in rxAsked ELSE p.i < rxSent}

PacketsTyped ==
    /\ rxSent \in Nat /\ rxData \in Seq(Known)
    /\ rxSeen \cup rxAsked \subseteq 0..(rxSent - 1)
    /\ rxControl \subseteq rxAsked
    /\ rxDecoded \subseteq rxSeen \cup rxAsked
    /\ rxLast \in 0..(SeqMod - 1)

LEMMA TypedInit == SeqMod \in Nat \ {0} /\ Packets!Init => PacketsTyped
  BY EmptySeq DEF Packets!Init, PacketsTyped

\* What is left without one of the packets, and with one more.
LEMMA WithoutOne ==
    ASSUME NEW S, NEW s \in Seq(S), NEW k \in 1..Len(s)
    PROVE  s[k] \in S /\ Packets!Without(s, k) \in Seq(S)
<1>1. Len(s) \in Nat /\ \A j \in 1..Len(s) : s[j] \in S
  BY LenProperties, ElementOfSeq
<1>2. SubSeq(s, 1, k - 1) \in Seq(S)
  <2>1. \A j \in 1..(k - 1) : s[j] \in S
    BY <1>1
  <2> QED
    BY <1>1, <2>1, SubSeqProperties
<1>3. SubSeq(s, k + 1, Len(s)) \in Seq(S)
  <2>1. \A j \in (k + 1)..Len(s) : s[j] \in S
    BY <1>1
  <2> QED
    BY <1>1, <2>1, SubSeqProperties
<1> QED
  BY <1>1, <1>2, <1>3, ConcatProperties DEF Packets!Without

\* A packet is noted, and those it passes over are asked for.
LEMMA FollowTyped ==
    ASSUME SeqMod \in Nat \ {0}, PacketsTyped, NEW p \in Known, Packets!Follow(p)
    PROVE  /\ rxSeen \subseteq rxSeen' /\ rxAsked \subseteq rxAsked'
           /\ rxSeen' \cup rxAsked' \subseteq 0..(rxSent - 1)
           /\ rxControl' \subseteq rxAsked' /\ rxLast' \in 0..(SeqMod - 1)
           /\ p.i \in rxSeen' \cup rxAsked'
<1>1. p.i \in Nat /\ rxSent \in Nat
  BY DEF Known, PacketRec, PacketsTyped
<1>2. CASE p.again
  BY <1>1, <1>2 DEF Packets!Follow, PacketsTyped, Known
<1>3. CASE ~p.again
  <2> DEFINE wanted == IF rxDecoded # {} /\ Packets!Gap(p.i) \in 1..(MaxGap - 1)
                       THEN Packets!Wanted(p.i, Packets!Gap(p.i)) ELSE {}
  <2>1. Packets!Ask(wanted) /\ rxLast' = p.i % SeqMod /\ rxSeen' = rxSeen \cup {p.i}
    BY <1>3 DEF Packets!Follow
  <2>2. p.i < rxSent
    BY <1>3 DEF Known
  <2>3. Packets!Gap(p.i) \in Int
    BY <1>1 DEF Packets!Gap, PacketsTyped
  <2>4. wanted \subseteq 0..(rxSent - 1)
    BY <1>1, <2>2, <2>3 DEF Packets!Wanted
  <2> HIDE DEF wanted
  <2>5. /\ rxAsked \subseteq rxAsked' /\ rxAsked' \subseteq rxAsked \cup wanted
        /\ rxControl' \subseteq rxAsked'
    BY <2>1 DEF Packets!Ask, PacketsTyped
  <2>6. p.i % SeqMod \in 0..(SeqMod - 1)
    BY <1>1
  <2>7. p.i \in 0..(rxSent - 1)
    BY <1>1, <2>2
  <2> QED
    BY <2>1, <2>4, <2>5, <2>6, <2>7 DEF PacketsTyped
<1> QED
  BY <1>2, <1>3

LEMMA TypedNext ==
    ASSUME SeqMod \in Nat \ {0}, PacketsTyped, [Packets!Next]_(Packets!rxVars)
    PROVE  PacketsTyped'
<1>1. CASE UNCHANGED Packets!rxVars
  BY <1>1 DEF Packets!rxVars, PacketsTyped, Known
<1>2. rxSent \in Nat /\ rxData \in Seq(Known)
  BY DEF PacketsTyped
<1>3. CASE Packets!Send
  <2> DEFINE p == [i |-> rxSent, again |-> FALSE]
  <2>1. rxSent' = rxSent + 1 /\ UNCHANGED <<rxControl, rxLast, rxSeen, rxDecoded, rxAsked>>
    BY <1>3 DEF Packets!Send
  <2>2. Known \subseteq Known'
    BY <1>2, <2>1 DEF Known, PacketRec
  <2>3. p \in Known'
    BY <1>2, <2>1 DEF Known, PacketRec
  <2>4. rxData' \in {rxData, Append(rxData, p)}
    BY <1>3 DEF Packets!Send
  <2> HIDE DEF p
  <2>5. rxData \in Seq(Known')
    BY <1>2, <2>2
  <2>6. rxData' \in Seq(Known')
    BY <2>3, <2>4, <2>5, AppendProperties
  <2>7. 0..(rxSent - 1) \subseteq 0..(rxSent' - 1) /\ rxSent' \in Nat
    BY <1>2, <2>1
  <2> QED
    BY <2>1, <2>6, <2>7 DEF PacketsTyped
<1>4. ASSUME NEW i \in rxControl, Packets!Answer(i) PROVE PacketsTyped'
  <2> DEFINE p == [i |-> i, again |-> TRUE]
  <2>1. /\ rxData' = Append(rxData, p) /\ rxControl' \subseteq rxControl
        /\ UNCHANGED <<rxSent, rxLast, rxSeen, rxDecoded, rxAsked>>
    BY <1>4 DEF Packets!Answer, Packets!Forward
  <2>2. p \in Known
    BY DEF Known, PacketRec, PacketsTyped
  <2>3. Known' = Known
    BY <2>1 DEF Known
  <2> HIDE DEF p
  <2>4. rxData' \in Seq(Known)
    BY <1>2, <2>1, <2>2, AppendProperties
  <2> QED
    BY <2>1, <2>3, <2>4 DEF PacketsTyped
<1>5. ASSUME NEW k \in 1..Len(rxData), Packets!Receive(k) PROVE PacketsTyped'
  <2> DEFINE p == rxData[k]
  <2>1. p \in Known /\ Packets!Without(rxData, k) \in Seq(Known)
    BY <1>2, WithoutOne
  <2>2. rxData' \in {Packets!Without(rxData, k), rxData} /\ UNCHANGED rxSent
    BY <1>5 DEF Packets!Receive
  <2>3. \/ UNCHANGED <<rxAsked, rxControl, rxLast, rxSeen, rxDecoded>>
        \/ Packets!Follow(p) /\ rxDecoded' \in {rxDecoded, rxDecoded \cup {p.i}}
    BY <1>5 DEF Packets!Receive
  <2> HIDE DEF p
  <2>4. /\ rxSeen \subseteq rxSeen' /\ rxAsked \subseteq rxAsked'
        /\ rxSeen' \cup rxAsked' \subseteq 0..(rxSent - 1)
        /\ rxControl' \subseteq rxAsked' /\ rxLast' \in 0..(SeqMod - 1)
        /\ rxDecoded' \subseteq rxSeen' \cup rxAsked'
    <3>1. CASE UNCHANGED <<rxAsked, rxControl, rxLast, rxSeen, rxDecoded>>
      BY <3>1 DEF PacketsTyped
    <3>2. CASE Packets!Follow(p) /\ rxDecoded' \in {rxDecoded, rxDecoded \cup {p.i}}
      <4>1. /\ rxSeen \subseteq rxSeen' /\ rxAsked \subseteq rxAsked'
            /\ rxSeen' \cup rxAsked' \subseteq 0..(rxSent - 1)
            /\ rxControl' \subseteq rxAsked' /\ rxLast' \in 0..(SeqMod - 1)
            /\ p.i \in rxSeen' \cup rxAsked'
        BY <2>1, <3>2, FollowTyped
      <4> QED
        BY <3>2, <4>1 DEF PacketsTyped
    <3> QED
      BY <2>3, <3>1, <3>2
  <2>5. Known \subseteq Known'
    BY <2>2, <2>4 DEF Known
  <2>6. rxData' \in Seq(Known)
    BY <1>2, <2>1, <2>2
  <2>7. rxData' \in Seq(Known')
    BY <2>5, <2>6
  <2> QED
    BY <1>2, <2>2, <2>4, <2>7 DEF PacketsTyped
<1>6. CASE Packets!BackoffEnds
  BY <1>6 DEF Packets!BackoffEnds, PacketsTyped, Known
<1> QED
  BY <1>1, <1>3, <1>4, <1>5, <1>6 DEF Packets!Next, Packets!ReceiveSome

LEMMA PacketTypes == PacketsTyped => Packets!TypeOK
  BY DEF PacketsTyped, Packets!TypeOK

-----------------------------------------------------------------------------
(* The audio path.  A behaviour is that of the part that was chosen, and   *)
(* the invariant that of each part.                                        *)

PathInv ==
    /\ Does("search") => SearchInv
    /\ Does("clock") => /\ ClockInv /\ TaskTyped /\ AnchorTyped /\ ModeInv
                        /\ (~Overlap => TaskInv)
                        /\ (OneSession /\ Mode!NoZeroOffset => FollowInv)
    /\ Does("packets") => PacketsTyped /\ (~Reorders => PacketsInv)
    /\ Does("seek") => SeekBounded /\ (Faults = {} => SeekInv)
    /\ Does("stream") => StreamInv
    /\ Does("worker") => WorkerInv

\* The part that was chosen stays the same and takes a step of its own, or none.
LEMMA PartSteps ==
    ASSUME [PathNext]_pathVars
    PROVE  /\ job' = job
           /\ Does("search") => [Next]_vars
           /\ Does("clock") => [Mode!Next]_(Mode!syncVars)
           /\ Does("packets") => [Packets!Next]_(Packets!rxVars)
           /\ Does("seek") => [Gates!Next]_(Gates!skVars)
           /\ Does("stream") => [Stream!Next]_(Stream!strVars)
           /\ Does("worker") => [Worker!Next]_(Worker!rbVars)
<1>1. CASE PathNext
  BY <1>1 DEF PathNext
<1>2. CASE UNCHANGED pathVars
  BY <1>2 DEF pathVars, vars, searchVars, clockVars, packetVars, seekVars, streamVars, workerVars,
    Mode!syncVars, Mode!ntpVars, Packets!rxVars, Gates!skVars, Stream!strVars, Worker!rbVars
<1> QED
  BY <1>1, <1>2

\* The part that was chosen starts as its module says.
LEMMA PathStarts == PathInit => PathInv
<1> SUFFICES ASSUME PathInit PROVE PathInv
  OBVIOUS
<1>1. /\ Does("search") => Init
      /\ Does("clock") => Mode!Init /\ Mode!NtpInit
      /\ Does("packets") => Packets!Init
      /\ Does("seek") => Gates!Init
      /\ Does("stream") => Stream!Init
      /\ Does("worker") => Worker!Init
  BY DEF PathInit, Mode!Init
<1>2. Does("clock") => /\ ClockInv /\ TaskTyped /\ AnchorTyped /\ ModeInv
                       /\ TaskInv /\ FollowInv
  BY <1>1, PathAssumption, ClockInit, TaskTypeInit, TaskInit, FollowInit, ModeInit DEF FollowInv
<1>3. Does("packets") => PacketsTyped /\ (~Reorders => PacketsInv)
  BY <1>1, PathAssumption, TypedInit, PacketsInit
<1>4. Does("seek") => SeekBounded /\ (Faults = {} => SeekInv)
  BY <1>1, PathAssumption, BoundedInit, SeekInit
<1>5. Does("stream") => StreamInv
  BY <1>1, StreamInit
<1>6. Does("worker") => WorkerInv
  BY <1>1, PathAssumption, WorkerInit
<1> QED
  BY <1>1, <1>2, <1>3, <1>4, <1>5, <1>6, SearchInit DEF PathInv

\* Every step keeps the invariant of the part that takes it.
LEMMA PathKeeps == PathInv /\ [PathNext]_pathVars => PathInv'
<1> SUFFICES ASSUME PathInv, [PathNext]_pathVars PROVE PathInv'
  OBVIOUS
<1> USE PartSteps, PathAssumption DEF PathInv
<1>1. Does("search") => SearchInv'
  BY SearchNext
<1>2. Does("clock") => /\ ClockInv' /\ TaskTyped' /\ AnchorTyped' /\ ModeInv'
                       /\ (~Overlap => TaskInv')
                       /\ (OneSession /\ Mode!NoZeroOffset' => FollowInv')
  <2>1. Mode!NoZeroOffset' = Mode!NoZeroOffset
    BY DEF Mode!NoZeroOffset
  <2> QED
    BY <2>1, ClockNext, TaskTypeNext, AnchorNext, ModeNext, TaskNext, FollowNext
<1>3. Does("packets") => PacketsTyped' /\ (~Reorders => PacketsInv')
  BY TypedNext, PacketsNext
<1>4. Does("seek") => SeekBounded' /\ (Faults = {} => SeekInv')
  BY BoundedNext, SeekNext
<1>5. Does("stream") => StreamInv'
  BY StreamNext
<1>6. Does("worker") => WorkerInv'
  BY WorkerNext
<1> QED
  BY <1>1, <1>2, <1>3, <1>4, <1>5, <1>6 DEF Does

LEMMA PathInvariant == PathSpec => []PathInv
  BY PathStarts, PathKeeps, PTL DEF PathSpec

\* ntp_clock.c, audio_timing.c, audio_stream_realtime.c and audio_receiver.c, with
\* whatever the network does to the packets: the error of the clock is bounded, a
\* flush uses the last projection where one session at a time starts the clock;
\* the search of audio_buffer.c finds the one place for a frame;
\* what was noted or asked for was sent; the buffer holds no more than it may, and
\* without the faults the model lists nothing of an old place; the stream's tasks,
\* sockets and handles tell the same, but for a task its stop went on without; and
\* the levels of the worker are in order.
THEOREM PathSound == PathSpec => []AudioSafe
<1>1. PathInv => AudioSafe
  <2> SUFFICES ASSUME PathInv PROVE AudioSafe
    OBVIOUS
  <2> USE DEF PathInv
  <2>1. Does("search") => TypeOK /\ PositionSplits
    BY BracketSplits DEF SearchInv
  <2>2. Does("clock") => /\ Mode!TypeOK /\ Mode!ErrorBounded
                         /\ (~Overlap => Mode!NtpMemoryFree)
                         /\ (OneSession /\ Mode!NoZeroOffset => Mode!TargetsAgree)
    <3> SUFFICES ASSUME ClockInv, TaskTyped, AnchorTyped, ModeInv,
                        ~Overlap => TaskInv,
                        OneSession /\ Mode!NoZeroOffset => FollowInv
                 PROVE  /\ Mode!TypeOK /\ Mode!ErrorBounded
                        /\ (~Overlap => Mode!NtpMemoryFree)
                        /\ (OneSession /\ Mode!NoZeroOffset => Mode!TargetsAgree)
      OBVIOUS
    <3>1. Mode!TypeOK /\ Mode!ErrorBounded
      BY PathAssumption, ModeTyped, ErrorSafe
    <3>2. ~Overlap => Mode!NtpMemoryFree
      BY DEF TaskInv, Mode!NtpMemoryFree
    <3>3. OneSession /\ Mode!NoZeroOffset => Mode!TargetsAgree
      BY DEF FollowInv, Mode!TargetsAgree
    <3> QED
      BY <3>1, <3>2, <3>3
  <2>3. Does("packets") => Packets!TypeOK /\ (~Reorders => Packets!NothingSeenAsked)
    BY PacketTypes DEF PacketsInv, Packets!NothingSeenAsked
  <2>4. Does("seek") => Gates!TypeOK /\ (Faults = {} => Gates!OldPlaceSilent)
    BY PathAssumption, SeekTypes, SeekSafe
  <2>5. Does("stream") => Stream!StateAgrees
    BY IdleAgrees
  <2>6. Does("worker") => Worker!TypeOK
    BY DEF WorkerInv
  <2> QED
    BY <2>1, <2>2, <2>3, <2>4, <2>5, <2>6 DEF AudioSafe
<1> QED
  BY <1>1, PathInvariant, PTL

\* What no step of the audio path does: play against a projection that does not
\* follow a tracked clock, ask twice for a packet while they come in order, begin a
\* task on a stack in use unless a stop went on without its task, let a decoder go
\* that decodes except by an ANNOUNCE or after such a stop, and wait for frames again
\* before any was played.
THEOREM StepsSound == PathSpec => AudioSteps
<1> DEFINE Sound == /\ Does("clock") => Mode!FollowsClock
                    /\ Does("packets") /\ ~Reorders => Packets!AsksOnce
                    /\ Does("stream") => Stream!TakesFreeStack /\ Stream!KeepsDecoder
                    /\ Does("worker") /\ ~LateDrops /\ ~Flushes => Worker!PlaysFirst
<1>1. PathInv /\ [PathNext]_pathVars => [Sound]_pathVars
  <2> SUFFICES ASSUME PathInv, PathNext PROVE Sound \/ UNCHANGED pathVars
    OBVIOUS
  <2> USE PathAssumption DEF PathInv
  <2>1. Does("clock") => Mode!FollowsClock
    BY FollowSteps
  <2>2. ASSUME Does("packets"), ~Reorders PROVE Packets!AsksOnce
    <3>1. Packets!Next
      BY <2>2 DEF PathNext
    <3> QED
      BY <2>2, <3>1, PacketsNext DEF Packets!rxVars, Packets!AsksOnce
  <2>3. ASSUME Does("stream") PROVE Stream!TakesFreeStack /\ Stream!KeepsDecoder
    <3>1. Stream!Next
      BY <2>3 DEF PathNext
    <3> QED
      BY <2>3, <3>1, StreamSteps
  <2>4. ASSUME Does("worker"), ~LateDrops, ~Flushes PROVE Worker!PlaysFirst
    <3>1. Worker!Next
      BY <2>4 DEF PathNext
    <3> QED
      BY <2>4, <3>1, WorkerSteps
  <2> QED
    BY <2>1, <2>2, <2>3, <2>4
<1> HIDE DEF Sound
<1>2. PathSpec => [][Sound]_pathVars
  BY <1>1, PathInvariant, PTL DEF PathSpec
<1> QED
  BY <1>2 DEF Sound, AudioSteps

=============================================================================
