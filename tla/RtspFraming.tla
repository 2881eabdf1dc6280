----------------------------- MODULE RtspFraming -----------------------------
(***************************************************************************)
(* How the client task cuts the bytes of its connection into requests      *)
(* (client_task and process_rtsp_buffer of rtsp_server.c, rtsp_message.c): *)
(* a buffer that grows once, pieces of any size, requests that come close  *)
(* after one another, and requests that are too large.                     *)
(*                                                                         *)
(* A byte is known by its place in the stream.  The end of a header is one *)
(* byte here, and a body holds neither that nor a Content-Length.          *)
(***************************************************************************)
EXTENDS Integers, Sequences

CONSTANTS Initial,      \* RTSP_BUFFER_INITIAL (4096)
          Slack,        \* what must be free before a recv (1024)
          Large,        \* RTSP_BUFFER_LARGE (256 KiB)
          HeadLen,      \* bytes of a header
          Bodies,       \* lengths a body may have
          MaxRequests,  \* bound
          AllocFails    \* may a header or the larger buffer find no memory?

VARIABLES
  rtReqs,     \* requests of the client: records [start, body]
  rtAt,       \* "recv", "parse", or why the loop was left: "peer" or "limit"
  rtBase,     \* place of the first byte of the buffer
  rtLen,      \* buf_len
  rtCap,      \* buf_capacity
  rtHandled   \* requests that were dispatched whole, in order

rtVars == <<rtReqs, rtAt, rtBase, rtLen, rtCap, rtHandled>>

Init == /\ rtReqs = <<>> /\ rtHandled = <<>>
        /\ rtAt = "recv"
        /\ rtBase = 0 /\ rtLen = 0 /\ rtCap = Initial

\* The place after the last byte of the client.
Sent == IF rtReqs = <<>> THEN 0
        ELSE rtReqs[Len(rtReqs)].start + HeadLen + rtReqs[Len(rtReqs)].body

Request(body) == /\ Len(rtReqs) < MaxRequests
                 /\ rtReqs' = Append(rtReqs, [start |-> Sent, body |-> body])
                 /\ UNCHANGED <<rtAt, rtBase, rtLen, rtCap, rtHandled>>

-----------------------------------------------------------------------------
NearFull == rtLen >= rtCap - Slack

\* Mutant: a full buffer is never made larger.
MutGrow == rtAt' = "limit" /\ UNCHANGED rtCap

\* The one larger size there is, if there is memory for it.
Grow == \/ rtCap < Large /\ rtCap' = Large /\ UNCHANGED rtAt
        \/ /\ rtCap = Large \/ AllocFails
           /\ rtAt' = "limit" /\ UNCHANGED rtCap

MakeRoom == /\ rtAt = "recv" /\ NearFull
            /\ Grow
            /\ UNCHANGED <<rtReqs, rtBase, rtLen, rtHandled>>

\* recv: some of what has come.
Receive == /\ rtAt = "recv" /\ ~NearFull
           /\ \E n \in 1..(rtCap - rtLen) :
                 /\ rtBase + rtLen + n <= Sent
                 /\ rtLen' = rtLen + n
           /\ rtAt' = "parse"
           /\ UNCHANGED <<rtReqs, rtBase, rtCap, rtHandled>>

\* rtsp_find_header_end: the first request whose header ends in the buffer.
HeaderEnd(k) == rtReqs[k].start + HeadLen
InBuffer(k) == HeaderEnd(k) - 1 \in rtBase..(rtBase + rtLen - 1)
First(k) == InBuffer(k) /\ \A j \in 1..(k - 1) : ~InBuffer(j)

\* rtsp_parse_content_length: the line may be lost with the beginning.
ContentLength(k) == {rtReqs[k].body} \cup (IF rtBase > rtReqs[k].start THEN {0} ELSE {})

\* Mutant: the body is left in the buffer.
MutTotal(k, body) == HeaderEnd(k) - rtBase

Total(k, body) == HeaderEnd(k) - rtBase + body

\* All that is buffered is thrown away.
Drop == rtLen' = 0 /\ rtBase' = rtBase + rtLen /\ rtAt' = "recv"

NoHeader == /\ rtAt = "parse"
            /\ \A k \in 1..Len(rtReqs) : ~InBuffer(k)
            /\ rtAt' = "recv"
            /\ UNCHANGED <<rtReqs, rtBase, rtLen, rtCap, rtHandled>>

\* A message that does not begin where the request does is dispatched too; its
\* method is unknown.
Dispatch(k, body) ==
    /\ Total(k, body) <= Large /\ rtLen >= Total(k, body)
    /\ rtHandled' = IF rtBase = rtReqs[k].start THEN Append(rtHandled, k) ELSE rtHandled
    /\ rtBase' = rtBase + Total(k, body)
    /\ rtLen' = rtLen - Total(k, body)
    /\ UNCHANGED rtAt

Message == /\ rtAt = "parse"
           /\ \E k \in 1..Len(rtReqs) : First(k) /\ \E body \in ContentLength(k) :
                 \/ Dispatch(k, body)
                 \/ /\ Total(k, body) > Large \/ AllocFails
                    /\ Drop
                    /\ UNCHANGED rtHandled
                 \/ /\ Total(k, body) <= Large /\ rtLen < Total(k, body)
                    /\ rtAt' = "recv"
                    /\ UNCHANGED <<rtBase, rtLen, rtHandled>>
           /\ UNCHANGED <<rtReqs, rtCap>>

\* The client closes the connection, or should_stop ends the loop.
Leave == /\ rtAt \in {"recv", "parse"}
         /\ rtAt' = "peer"
         /\ UNCHANGED <<rtReqs, rtBase, rtLen, rtCap, rtHandled>>

Serve == MakeRoom \/ Receive \/ NoHeader \/ Message
Next == Serve \/ Leave \/ \E body \in Bodies : Request(body)

Spec == Init /\ [][Next]_rtVars /\ WF_rtVars(Serve)

-----------------------------------------------------------------------------
(* Properties.                                                             *)

TypeOK == /\ rtLen \in 0..rtCap /\ rtCap \in {Initial, Large}
          /\ rtBase + rtLen <= Sent
          /\ \A i \in 1..Len(rtHandled) : rtHandled[i] \in 1..Len(rtReqs)

\* No request is dispatched twice, or before one that was sent earlier, whatever
\* is thrown away.
InOrder == \A i \in 1..(Len(rtHandled) - 1) : rtHandled[i] < rtHandled[i + 1]

\* A request that the buffer takes however it is cut.
Small(k) == HeadLen + rtReqs[k].body <= Large - Slack

\* While there is memory, and the requests are small, the buffer begins where a
\* request does, and all the requests before it were dispatched.
InSync ==
    (~AllocFails /\ \A k \in 1..Len(rtReqs) : Small(k)) =>
        /\ \A i \in 1..Len(rtHandled) : rtHandled[i] = i
        /\ rtBase = IF Len(rtHandled) = Len(rtReqs) THEN Sent
                    ELSE rtReqs[Len(rtHandled) + 1].start

\* The requests are all answered in the end, unless one of them is not small; only
\* the client ends the connection.
Answered == \/ \A k \in 1..Len(rtReqs) : \E i \in 1..Len(rtHandled) : rtHandled[i] = k
            \/ rtAt = "peer"
            \/ \E k \in 1..Len(rtReqs) : ~Small(k)
SmallAnswered == ~AllocFails => <>[]Answered

\* A request that fits the buffer is answered however its bytes are cut.
LargeAnswered == \A n \in 1..MaxRequests :
    (n <= Len(rtReqs) /\ ~AllocFails) ~>
        \/ \E i \in 1..Len(rtHandled) : rtHandled[i] = n
        \/ rtAt = "peer"
        \/ \E k \in 1..Len(rtReqs) : HeadLen + rtReqs[k].body > Large

\* rtsp_server.c:146: the byte set to zero after a message lies in the buffer.
TerminatorInside == [][rtBase' # rtBase /\ rtAt' = "parse" => rtBase' - rtBase < rtCap]_rtVars

=============================================================================
