--------------------------- MODULE MCAudioBuffer ---------------------------
(* TLC instance of AudioBuffer: one receive task, the playback task and    *)
(* one RTSP task that flushes.                                             *)
EXTENDS AudioBuffer

CONSTANTS rtp, rtsp

MCProducers == {rtp}
MCFlushers == {rtsp}
=============================================================================
