---------------------------- MODULE MCNgnFunding ----------------------------
\* One buyer with two agreements, either within the ceiling and both together
\* above it; a token for each, and a pool of two connections.
EXTENDS NgnFunding

CONSTANTS ann, a1, a2, t1, t2

MCBuyer == [id \in Agr |-> ann]
MCTotal == [id \in Agr |-> 3]
MCBoundTo == [t \in Credential |-> IF t = t1 THEN a1 ELSE a2]
=============================================================================
