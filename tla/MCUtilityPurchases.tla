------------------------- MODULE MCUtilityPurchases -------------------------
\* Two keys, each of which costs all there is, and a chain of two providers.
EXTENDS UtilityPurchases

CONSTANTS sme, paystack

MCChain == <<sme, paystack>>
MCPrice == [k \in Key |-> Deposit]
=============================================================================
