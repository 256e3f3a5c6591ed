---------------------------- MODULE MCNgnLedgerTx ----------------------------
\* One agreement from its creation to its end, and the deposit that pays for it.
EXTENDS NgnLedgerTx

CONSTANTS ann, ben, a1, d1

MCBuyer == [id \in Agr |-> ann]
MCSeller == [id \in Agr |-> ben]
MCPrincipal == [id \in Agr |-> 1]
MCDepositUser == [r \in Ref |-> ann]
MCDepositNet == [r \in Ref |-> 2]
MCRank == [u \in User |-> IF u = ann THEN 0 ELSE 1]
=============================================================================
