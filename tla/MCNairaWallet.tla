--------------------------- MODULE MCNairaWallet ----------------------------
\* A purchase and a cash-out that each cost all there is.
EXTENDS NairaWallet

CONSTANT sme

MCChain == <<sme>>
MCPrice == [i \in Item |-> Deposit]
=============================================================================
