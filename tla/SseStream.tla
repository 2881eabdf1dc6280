------------------------------ MODULE SseStream ------------------------------
(***************************************************************************)
(* The answer of the cloud to one voice request (omni_client.c): a stream  *)
(* of server-sent events that arrives in pieces cut anywhere, the lines    *)
(* put together in a buffer that grows, what each line does, and the reply *)
(* collected from the audio (tts_accum_append of voice_controller.c).      *)
(*                                                                         *)
(* The loop of http_event_handler takes one step per newline and one for   *)
(* what is left of a piece, so any sequence of the two steps here is a way *)
(* to cut the stream.  Lengths are in units of a buffer's first size over  *)
(* LineCap; the samples of the reply are numbered through the stream, 0    *)
(* stands for a WAV header that is played as if it were sound.             *)
(***************************************************************************)
EXTENDS Integers, Sequences

CONSTANTS Events,    \* lines the cloud may send: kind, length, header, samples, word
          MaxLines,  \* bound: lines of one answer
          LineCap,   \* first size of the line buffer (4096)
          LineMax,   \* largest size of the line buffer (262144)
          ReplyMax,  \* samples a reply may have (120 s)
          Short      \* may a reallocation fail?

VARIABLES
  sseLine,   \* [lines, event, got]: lines so far, the current one, its bytes received
  sseBuf,    \* [kept, cap]: bytes in the line buffer and its size
  sseCtx,    \* error, stripped, next sample, and what was lost on the way
  sseReply,  \* [state, acc]: collecting, played or failed; the samples collected
  sseVolume  \* [saved, target]: s_volume_db and the volume of the output, in steps

sseVars == <<sseLine, sseBuf, sseCtx, sseReply, sseVolume>>

Blank == [kind |-> "blank", len |-> 0, riff |-> FALSE, pcm |-> 0, word |-> "none"]

\* The WAV header of 44 bytes and the quietest volume, -30 dB in steps of 3 dB.
Quiet == -10

Init == /\ sseLine = [lines |-> 0, event |-> Blank, got |-> 0]
        /\ sseBuf = [kept |-> 0, cap |-> LineCap]
        /\ \E refused \in BOOLEAN :
               sseCtx = [refused |-> refused, error |-> FALSE, stripped |-> FALSE,
                         next |-> 1, lost |-> {}, short |-> FALSE]
        /\ sseReply = [state |-> "collecting", acc |-> <<>>]
        /\ sseVolume \in [saved : {0, -1, Quiet}, target : {0}]

-----------------------------------------------------------------------------
(* The line buffer.                                                        *)

\* Mutant: the buffer grows fourfold.
MutNewCap(needed) == IF needed <= sseBuf.cap THEN sseBuf.cap
                     ELSE IF 4 * sseBuf.cap < needed THEN needed ELSE 4 * sseBuf.cap

\* Twice the size, or what is needed: nothing looks whether half of it would do.
NewCap(needed) == IF needed <= sseBuf.cap THEN sseBuf.cap
                  ELSE IF 2 * sseBuf.cap < needed THEN needed ELSE 2 * sseBuf.cap

Fits(cap) == cap <= LineMax
MayDrop(cap) == ~Fits(cap) \/ (Short /\ cap # sseBuf.cap)

\* The next line begins; with an HTTP error the body is only logged.
Begin(event) == /\ sseReply.state = "collecting" /\ ~sseCtx.refused
                /\ sseLine.event = Blank /\ sseLine.lines < MaxLines
                /\ sseLine' = [lines |-> sseLine.lines + 1, event |-> event, got |-> 0]
                /\ UNCHANGED <<sseBuf, sseCtx, sseReply, sseVolume>>

\* A piece ends within the line: its bytes are kept, or all kept so far is dropped.
Piece(n) == LET cap == NewCap(sseBuf.kept + n + 1)
            IN  /\ sseReply.state = "collecting" /\ sseLine.event # Blank
                /\ sseLine.got + n <= sseLine.event.len
                /\ sseLine' = [sseLine EXCEPT !.got = @ + n]
                /\ \/ /\ Fits(cap)
                      /\ sseBuf' = [kept |-> sseBuf.kept + n, cap |-> cap]
                      /\ UNCHANGED sseCtx
                   \/ /\ MayDrop(cap)
                      /\ sseBuf' = [sseBuf EXCEPT !.kept = 0]
                      /\ sseCtx' = [sseCtx EXCEPT !.short = @ \/ Fits(cap)]
                /\ UNCHANGED <<sseReply, sseVolume>>

\* Bytes of the line up to and with its newline.
Rest == sseLine.event.len - sseLine.got
LineDone == /\ sseLine' = [sseLine EXCEPT !.event = Blank, !.got = 0]
            /\ sseReply.state = "collecting" /\ sseLine.event # Blank

-----------------------------------------------------------------------------
(* The lines: process_sse_line and its call-backs.                         *)

\* The samples of an audio line.  A header is cut off once, and only if
\* something follows it in the same line.
Samples(event) ==
    LET played == event.riff /\ (sseCtx.stripped \/ event.pcm = 0)
    IN  (IF played THEN <<0>> ELSE <<>>)
        \o [i \in 1..event.pcm |-> sseCtx.next + i - 1]

\* Mutant: beyond 120 s the end of the reply is kept.
MutCollected(samples) ==
    LET all == sseReply.acc \o samples
    IN  SubSeq(all, IF Len(all) > ReplyMax THEN Len(all) - ReplyMax + 1 ELSE 1, Len(all))

\* Beyond 120 s the reply is cut off.
Collected(samples) ==
    LET room == ReplyMax - Len(sseReply.acc)
    IN  sseReply.acc \o SubSeq(samples, 1, IF room < Len(samples) THEN room ELSE Len(samples))

\* Without memory for the decoded bytes, or for a longer reply, the chunk goes.
Audio(event) ==
    /\ event.kind = "audio"
    /\ \/ /\ sseReply' = [sseReply EXCEPT !.acc = Collected(Samples(event))]
          /\ sseCtx' = [sseCtx EXCEPT !.stripped = @ \/ event.riff, !.next = @ + event.pcm]
       \/ /\ Short
          /\ \E stripped \in {sseCtx.stripped, sseCtx.stripped \/ event.riff} :
                 sseCtx' = [sseCtx EXCEPT !.stripped = stripped, !.short = TRUE,
                                          !.next = @ + event.pcm]
          /\ UNCHANGED sseReply
    /\ UNCHANGED sseVolume

\* handle_volume_command, on each piece of text: the new volume is saved, the
\* output is set to it, and then to the one before.
Text(event) ==
    /\ event.kind = "text"
    /\ LET old == sseVolume.saved
           new == CASE event.word = "up" -> IF old < 0 THEN old + 1 ELSE 0
                    [] event.word = "down" -> IF old > Quiet THEN old - 1 ELSE Quiet
                    [] event.word = "mute" -> Quiet
       IN  sseVolume' = IF event.word = "none" THEN sseVolume ELSE [saved |-> new, target |-> old]
    /\ UNCHANGED <<sseCtx, sseReply>>

\* An error object: the rest of the stream is still read.
ErrorLine(event) == /\ event.kind = "error"
                    /\ sseCtx' = [sseCtx EXCEPT !.error = TRUE]
                    /\ UNCHANGED <<sseReply, sseVolume>>

\* [DONE], keep-alives, other fields, and what is not JSON.
OtherLine(event) == event.kind = "other" /\ UNCHANGED <<sseCtx, sseReply, sseVolume>>

\* A line whose beginning was dropped is no "data: " line: nobody misses it.
Line == LET cap == NewCap(sseBuf.kept + Rest + 1)
            event == sseLine.event
        IN  /\ LineDone
            /\ Fits(cap) /\ sseBuf.kept = sseLine.got
            /\ sseBuf' = [kept |-> 0, cap |-> cap]
            /\ Audio(event) \/ Text(event) \/ ErrorLine(event) \/ OtherLine(event)

LineLost == LET cap == NewCap(sseBuf.kept + Rest + 1)
                drop == MayDrop(cap)
            IN  /\ LineDone
                /\ drop \/ sseBuf.kept # sseLine.got
                /\ sseBuf' = [kept |-> 0, cap |-> IF drop THEN sseBuf.cap ELSE cap]
                /\ sseCtx' = [sseCtx EXCEPT !.lost = @ \cup {sseLine.event.len},
                                            !.short = @ \/ (drop /\ Fits(cap)),
                                            !.next = @ + sseLine.event.pcm]
                /\ UNCHANGED <<sseReply, sseVolume>>

-----------------------------------------------------------------------------
(* The end of the stream, in any line: a line without its newline is lost. *)

\* Played, however much of it came: the missing [DONE] is only logged.
EndPlays == /\ sseReply.state = "collecting" /\ ~sseCtx.refused /\ ~sseCtx.error
            /\ sseReply' = [sseReply EXCEPT !.state = "played"]
            /\ UNCHANGED <<sseLine, sseBuf, sseCtx, sseVolume>>

\* An error line, an HTTP error, or a connection that broke.
EndFails == /\ sseReply.state = "collecting"
            /\ sseReply' = [state |-> "failed", acc |-> <<>>]
            /\ UNCHANGED <<sseLine, sseBuf, sseCtx, sseVolume>>

Next == \/ \E event \in Events : Begin(event)
        \/ \E n \in 1..sseLine.event.len : Piece(n)
        \/ Line \/ LineLost
        \/ EndPlays \/ EndFails

Spec == Init /\ [][Next]_sseVars

-----------------------------------------------------------------------------
(* Properties.                                                             *)

TypeOK ==
    /\ sseLine \in [lines : 0..MaxLines, event : Events \cup {Blank}, got : Nat]
    /\ sseLine.got <= sseLine.event.len
    /\ sseBuf \in [kept : 0..sseLine.got, cap : LineCap..LineMax]
    /\ sseBuf.kept < sseBuf.cap
    /\ sseReply.state \in {"collecting", "played", "failed"}
    /\ sseReply.acc \in Seq(Nat) /\ Len(sseReply.acc) <= ReplyMax
    /\ sseVolume \in [saved : Quiet..0, target : Quiet..0]

\* A line of less than half of the largest buffer is never lost, however the
\* stream is cut and whatever came before, unless memory is short.
ShortLinesKept == ~sseCtx.short => \A len \in sseCtx.lost : 2 * (len + 1) > LineMax

\* The places of what is kept of the reply.
Heard == 1..Len(sseReply.acc)

\* The reply is the sound of the stream in its order: without a lost line or
\* a failed allocation there is no gap in it, only an end that is cut off.
ReplyInOrder ==
    /\ \A i, j \in Heard :
          i < j /\ sseReply.acc[i] > 0 /\ sseReply.acc[j] > 0 => sseReply.acc[i] < sseReply.acc[j]
    /\ (sseCtx.lost = {} /\ ~sseCtx.short) =>
          \A i \in Heard : \A n \in 1..sseReply.acc[i] : \E j \in Heard : sseReply.acc[j] = n

\* Nothing is played of an answer that reports an error anywhere.
ErrorNotPlayed == sseReply.state = "played" => ~sseCtx.error /\ ~sseCtx.refused

\* omni_client.c:293: a line is discarded because it exceeds SSE_LINE_BUF_MAX.
OnlyLongLinesLost == ~sseCtx.short => \A len \in sseCtx.lost : len + 1 > LineMax

\* voice_controller.c:286: a spoken command sets the output to the new volume.
CommandHeard == [][sseVolume'.saved # sseVolume.saved
                       => sseVolume'.target = sseVolume'.saved]_sseVars

\* The WAV header is not sound.
HeaderNeverPlayed == \A i \in 1..Len(sseReply.acc) : sseReply.acc[i] # 0

=============================================================================
