--------------------------- MODULE MCSpeakerOwner ---------------------------
(* TLC instance of SpeakerOwner with its four tasks.                       *)
EXTENDS SpeakerOwner

CONSTANTS rtsp, net_mon

MCAirTasks == {rtsp, net_mon}
=============================================================================
