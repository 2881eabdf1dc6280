------------------------------- MODULE RtpReceive -------------------------------
(***************************************************************************)
(* The packets of the realtime stream (audio_stream_realtime.c): the       *)
(* receive task follows the sequence numbers and asks for what is missing, *)
(* the control task hands the answers on to it over the data socket.       *)
(* Packets may be lost, and under the constant Reorders be reordered or    *)
(* doubled; requests and answers are not lost.  Packets are numbered as    *)
(* they were sent; their sequence number is that modulo SeqMod.            *)
(***************************************************************************)
EXTENDS Integers, Sequences, FiniteSets

CONSTANTS SeqMod,     \* 2^16
          MaxGap,     \* MAX_RESEND_GAP (100)
          MaxSent,    \* bound: packets of the stream
          Reorders,   \* may packets be reordered or doubled?
          Fails       \* may sendto fail, and an answer be of no use?

VARIABLES
  rxSent,     \* packets sent so far
  rxData,     \* the data socket: records [i, again]
  rxControl,  \* answers on the control socket
  rxLast,     \* stats.last_seq
  rxSeen,     \* packets whose sequence number was noted
  rxDecoded,  \* packets decoded; stats.packets_decoded is their number
  rxAsked,    \* packets asked for
  rxBackoff   \* was there a sendto error less than RESEND_ERROR_BACKOFF_US ago?

rxVars == <<rxSent, rxData, rxControl, rxLast, rxSeen, rxDecoded, rxAsked, rxBackoff>>

Init == /\ rxSent = 0 /\ rxData = <<>> /\ rxControl = {}
        /\ rxLast = 0 /\ rxSeen = {} /\ rxDecoded = {} /\ rxAsked = {}
        /\ rxBackoff = FALSE

\* The client sends a packet, which may be lost on its way.
Send == /\ rxSent < MaxSent
        /\ rxSent' = rxSent + 1
        /\ \/ rxData' = Append(rxData, [i |-> rxSent, again |-> FALSE])
           \/ UNCHANGED rxData
        /\ UNCHANGED <<rxControl, rxLast, rxSeen, rxDecoded, rxAsked, rxBackoff>>

\* Mutant: the packet that came counts as missing too.
MutGap(i) == (i - rxLast) % SeqMod

\* How many packets the sequence number of i passes over.
Gap(i) == (i - (rxLast + 1)) % SeqMod

\* Mutant: the request begins at the packet that came.
MutWanted(i, n) == {i + d : d \in 0..(n - 1)}

\* What the client takes a request for the n numbers before that of i for: far
\* fewer than SeqMod packets are under way.
Wanted(i, n) == {i - d : d \in 1..n} \cap Nat

\* send_resend_request.
Ask(wanted) ==
    IF wanted = {} \/ rxBackoff THEN UNCHANGED <<rxAsked, rxControl, rxBackoff>>
    ELSE \/ /\ rxAsked' = rxAsked \cup wanted
            /\ rxControl' = rxControl \cup wanted
            /\ rxBackoff' = FALSE
         \/ /\ Fails
            /\ rxBackoff' = TRUE
            /\ UNCHANGED <<rxAsked, rxControl>>

\* Mutant: the number of a packet that was sent again is noted as well.
MutFollow(p) ==
    /\ Ask(IF rxDecoded # {} /\ Gap(p.i) \in 1..(MaxGap - 1) THEN Wanted(p.i, Gap(p.i)) ELSE {})
    /\ rxLast' = p.i % SeqMod
    /\ rxSeen' = rxSeen \cup {p.i}

\* The numbers are followed once something was decoded; a packet sent again is
\* not noted.
Follow(p) ==
    IF p.again THEN UNCHANGED <<rxAsked, rxControl, rxBackoff, rxLast, rxSeen>>
    ELSE /\ Ask(IF rxDecoded # {} /\ Gap(p.i) \in 1..(MaxGap - 1) THEN Wanted(p.i, Gap(p.i)) ELSE {})
         /\ rxLast' = p.i % SeqMod
         /\ rxSeen' = rxSeen \cup {p.i}

Without(s, k) == SubSeq(s, 1, k - 1) \o SubSeq(s, k + 1, Len(s))

\* realtime_receive_packet.  A packet that is no RTP is not followed; one that
\* cannot be decrypted or decoded, or that a gate refuses, is.
Receive(k) ==
    LET p == rxData[k]
    IN /\ k = 1 \/ Reorders
       /\ rxData' \in {Without(rxData, k)} \cup (IF Reorders /\ ~p.again THEN {rxData} ELSE {})
       /\ \/ /\ Fails \/ ~p.again
             /\ UNCHANGED <<rxAsked, rxControl, rxBackoff, rxLast, rxSeen, rxDecoded>>
          \/ /\ Fails \/ ~p.again
             /\ Follow(p) /\ UNCHANGED rxDecoded
          \/ Follow(p) /\ rxDecoded' = rxDecoded \cup {p.i}
       /\ UNCHANGED rxSent

\* Mutant: the answer is decoded where it is received, past the data socket.
MutForward(i) == UNCHANGED rxData

Forward(i) == rxData' = Append(rxData, [i |-> i, again |-> TRUE])

\* control_receiver_task, type 0xD6: the answer goes to the own data port.
Answer(i) == /\ i \in rxControl
             /\ rxControl' = rxControl \ {i}
             /\ Forward(i)
             /\ UNCHANGED <<rxSent, rxLast, rxSeen, rxDecoded, rxAsked, rxBackoff>>

BackoffEnds == /\ rxBackoff
               /\ rxBackoff' = FALSE
               /\ UNCHANGED <<rxSent, rxData, rxControl, rxLast, rxSeen, rxDecoded, rxAsked>>

ReceiveSome == \E k \in 1..Len(rxData) : Receive(k)
Next == Send \/ ReceiveSome \/ BackoffEnds \/ \E i \in rxControl : Answer(i)

\* The tasks run.
Spec == /\ Init /\ [][Next]_rxVars
        /\ WF_rxVars(ReceiveSome)
        /\ \A i \in 0..(MaxSent - 1) : WF_rxVars(Answer(i))

-----------------------------------------------------------------------------
(* Properties.                                                             *)

TypeOK == /\ rxLast \in 0..(SeqMod - 1)
          /\ rxDecoded \subseteq rxSeen \cup rxAsked
          /\ rxControl \subseteq rxAsked
          /\ rxSeen \cup rxAsked \subseteq 0..(rxSent - 1)

\* Only what is missing is asked for, ...
NothingSeenAsked == rxAsked \cap rxSeen = {}

\* ... and only once, whatever is sent again meanwhile.
AsksOnce == rxControl' \subseteq rxControl \/ (rxControl' \ rxControl) \cap rxAsked = {}
AskedOnce == [][AsksOnce]_rxVars

\* All that was asked for is decoded in the end.
AskedComes == <>[](rxAsked \subseteq rxDecoded)

=============================================================================
