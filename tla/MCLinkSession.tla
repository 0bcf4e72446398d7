----------------------------- MODULE MCLinkSession -----------------------------
\* Two requests, so that one attempt can leave something for the next; one power
\* cycle, which may fall anywhere; as many connections per request as the code.
EXTENDS LinkSession
================================================================================
