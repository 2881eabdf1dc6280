--------------------------- MODULE MCAudioRingbuf ---------------------------
(* TLC instance of AudioRingbuf: a four-cell ring, chunks of up to five    *)
(* samples, so that pushes are truncated and both indices wrap.            *)
EXTENDS AudioRingbuf
=============================================================================
