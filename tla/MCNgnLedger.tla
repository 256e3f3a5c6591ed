---------------------------- MODULE MCNgnLedger ----------------------------
\* ann invites ben twice, so that her second creation meets a cap of one; her
\* deposit pays for either agreement but not for both, and ben's is there too.
EXTENDS NgnLedger

CONSTANTS ann, ben, a1, a2, d1, d2

MCBuyer == [id \in Agr |-> ann]
MCSeller == [id \in Agr |-> ben]
MCPrincipal == [id \in Agr |-> IF id = a2 THEN 2 ELSE 1]
MCDepositUser == [r \in Ref |-> IF r = d1 THEN ann ELSE ben]
MCDepositNet == [r \in Ref |-> IF r = d1 THEN 4 ELSE 1]
=============================================================================
