-------------------------- MODULE MCAirplaySession --------------------------
(* TLC instance of AirplaySession.                                         *)
EXTENDS AirplaySession
=============================================================================
