------------------------------- MODULE MCFrames -------------------------------
EXTENDS Frames

Builds == BOOLEAN
=============================================================================
