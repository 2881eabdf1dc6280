---------------------------- MODULE SortedInsert ----------------------------
(***************************************************************************)
(* sorted_insert_pos of audio_buffer.c: the binary search that finds where *)
(* a frame goes in the timestamp-sorted index of the jitter buffer.  The   *)
(* search is a loop over lo and hi; one action is one probe.               *)
(***************************************************************************)
EXTENDS RtpOrder

CONSTANT MaxCount   \* the most frames the index holds

ASSUME MaxCountAssumption == MaxCount \in Nat

VARIABLES count,      \* b->count when the search starts
          stamp,      \* the timestamps of b->sorted[0 .. count-1]
          timestamp,  \* the timestamp of the new frame
          lo, hi      \* the bounds of the search

vars == <<count, stamp, timestamp, lo, hi>>

\* The index is sorted, and all the timestamps live in one arc.
SortedIndex ==
    /\ OneArc({stamp[i] : i \in 0..(count - 1)} \cup {timestamp})
    /\ \A i, j \in 0..(count - 1) : i < j => ~Before(stamp[j], stamp[i])

Init == /\ count \in 0..MaxCount
        /\ stamp \in [0..(count - 1) -> Timestamp]
        /\ timestamp \in Timestamp
        /\ SortedIndex
        /\ lo = 0
        /\ hi = count

\* Mutant: hi skips the probed frame, too.
MutProbeHi == LET mid == lo + (hi - lo) \div 2
              IN  /\ lo < hi
                  /\ IF Before(stamp[mid], timestamp)
                     THEN lo' = mid + 1 /\ UNCHANGED hi
                     ELSE hi' = mid - 1 /\ UNCHANGED lo
                  /\ UNCHANGED <<count, stamp, timestamp>>

\* Mutant: lo stays on the probed frame.
MutProbeLo == LET mid == lo + (hi - lo) \div 2
              IN  /\ lo < hi
                  /\ IF Before(stamp[mid], timestamp)
                     THEN lo' = mid /\ UNCHANGED hi
                     ELSE hi' = mid /\ UNCHANGED lo
                  /\ UNCHANGED <<count, stamp, timestamp>>

\* Mutant: timestamps are compared as plain unsigned numbers.
MutProbeUnsigned == LET mid == lo + (hi - lo) \div 2
                    IN  /\ lo < hi
                        /\ IF stamp[mid] < timestamp
                           THEN lo' = mid + 1 /\ UNCHANGED hi
                           ELSE hi' = mid /\ UNCHANGED lo
                        /\ UNCHANGED <<count, stamp, timestamp>>

\* Mutant: the search goes past an equal timestamp.
MutProbeUpper == LET mid == lo + (hi - lo) \div 2
                 IN  /\ lo < hi
                     /\ IF Before(timestamp, stamp[mid])
                        THEN hi' = mid /\ UNCHANGED lo
                        ELSE lo' = mid + 1 /\ UNCHANGED hi
                     /\ UNCHANGED <<count, stamp, timestamp>>

\* One turn of the while loop.
Probe == LET mid == lo + (hi - lo) \div 2
         IN  /\ lo < hi
             /\ IF Before(stamp[mid], timestamp)
                THEN lo' = mid + 1 /\ UNCHANGED hi
                ELSE hi' = mid /\ UNCHANGED lo
             /\ UNCHANGED <<count, stamp, timestamp>>

Next == Probe

Spec == Init /\ [][Next]_vars /\ WF_vars(Next)

-----------------------------------------------------------------------------

\* The type of the search state; a probe never reads outside the index.
TypeOK == /\ count \in 0..MaxCount
          /\ stamp \in [0..(count - 1) -> Timestamp]
          /\ timestamp \in Timestamp
          /\ lo \in 0..count
          /\ hi \in lo..count

Done == lo = hi

\* What the search must return (the postcondition that AudioBuffer inserts
\* by): the frame before the position is earlier than the new one, the frame
\* at the position is not.
BoundaryFound ==
    Done => /\ lo > 0 => Before(stamp[lo - 1], timestamp)
            /\ lo < count => ~Before(stamp[lo], timestamp)

\* On a sorted index that makes the position the only one that keeps the
\* index sorted and puts a duplicate in front of its twin: every frame below
\* it is earlier, no frame from it on is.
PositionSplits ==
    Done => \A i \in 0..(count - 1) : Before(stamp[i], timestamp) <=> i < lo

\* The search ends.
Terminates == <>Done
=============================================================================
