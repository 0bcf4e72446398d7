---------------------------- MODULE MCFrameReceiver ----------------------------
\* FrameReceiver with headers of two bytes and payloads of none, one and three.
EXTENDS FrameReceiver
================================================================================
