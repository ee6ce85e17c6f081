--------------------------- MODULE MCTaskChannels ---------------------------
EXTENDS TaskChannels, TLC

CONSTANTS s1, s2, s3, r1, r2, r3

\* Two producers, a task that receives and passes on, and two consumers.
Pipeline == [op \in Op |-> CASE op \in {s1, s3} -> 1 [] op \in {s2, r1} -> 2
                           [] OTHER -> 3]
=============================================================================
