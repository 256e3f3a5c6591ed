--------------------------- MODULE MCBankCashouts ---------------------------
\* Each cash-out costs half of what there is.
EXTENDS BankCashouts

MCPrice == [c \in Cashout |-> 1]
=============================================================================
