------------------------------ MODULE MCPlayout ------------------------------
EXTENDS Playout

MCFloor == -4
MCJumps == {-4, 4}
=============================================================================
