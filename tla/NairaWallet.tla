---------------------------- MODULE NairaWallet -----------------------------
(****************************************************************************)
(* Purchases and cash-outs of one user on one balance.  Neither knows of    *)
(* the other but by the journal: a purchase is checked against journal and  *)
(* rows under a lock of the user, a cash-out against the journal, without a *)
(* lock, and it leaves no virtual account row.                              *)
(****************************************************************************)
EXTENDS UtilityPurchases

CONSTANTS Handler, AnswersLost, Overlaps, HooksFail

VARIABLES payouts, bank, hooks, told

Outflow == INSTANCE BankCashouts

wvars == <<pvars, payouts, bank, hooks, told>>

WalletInit == Init /\ Outflow!Init

WalletNext ==
  \/ Next /\ UNCHANGED <<payouts, bank, hooks, told>>
  \/ Outflow!Next /\ UNCHANGED <<calls, receipts, settling, delivered, faults, restarts>>

WalletSpec == WalletInit /\ [][WalletNext]_wvars

\* The comment on getUserBalance says of every utility purchase that it "comes out
\* of available and is refused once available runs out" (balance.service.ts): so
\* none is let through that the available balance does not cover.
RefusedBeyondAvailable ==
  [][\A r \in Request : At(r, "asked") /\ calls'[r].at = "locked" => Available >= Price[calls[r].key]]_wvars
=============================================================================
