---------------------------- MODULE MCFrameGroup ----------------------------
\* Instance of FrameGroup for TLC.
EXTENDS FrameGroup
===========================================================================
