---------------------------- MODULE MCPortOutbound -----------------------------
\* Two ports, one of them sent per batch; a port that was published before stands
\* near the end of the revisions.
EXTENDS PortOutbound
================================================================================
