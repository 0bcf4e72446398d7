----------------------------- MODULE MCPortInbound -----------------------------
\* A port that clamps to its hard limits, which may be given in the wrong order, and
\* one that rejects what is outside of its expected range, where the Hub sends 0.
EXTENDS PortInbound

Limits(policies, hards, defaults) ==
    [policy : policies, hard : hards, expected : {<<1, 2>>}, default : defaults]
MCSpecOf == << Limits({"clamp"}, {<<1, 1>>, <<2, 1>>}, {0}),
               Limits({"reject"}, {<< >>}, {0, NoValue}) >>
================================================================================
