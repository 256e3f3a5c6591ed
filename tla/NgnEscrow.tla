------------------------------ MODULE NgnEscrow ------------------------------
(****************************************************************************)
(* What the naira agreement ledger promises, with none of its statuses,     *)
(* operation rows or deadlines.  The money of an agreement is locked whole, *)
(* at most once; it leaves the lock whole, at most once: back to the buyer, *)
(* or split between the buyer and the seller with the fee kept by Sivan.    *)
(****************************************************************************)
EXTENDS Integers

CONSTANTS User,          \* canonical payment user ids
          Agr,           \* agreement ids
          Ref,           \* provider deposit references
          Buyer, Seller, \* the parties of each agreement
          Principal,     \* the principal of each agreement, in kobo
          FeeOf,         \* the fee of each agreement, in kobo
          DepositUser,   \* whose virtual account a deposit reached
          DepositNet     \* what the deposit credits, in kobo

VARIABLES stage,      \* "open", "held" or "closed", per agreement
          wallet,     \* spendable kobo, per user
          revenue,    \* fees Sivan has earned
          credited    \* the deposits already credited

vars == <<stage, wallet, revenue, credited>>

Total(id) == Principal[id] + FeeOf[id]

Init == /\ stage = [id \in Agr |-> "open"]
        /\ wallet = [u \in User |-> 0]
        /\ revenue = 0
        /\ credited = {}

\* A verified deposit reaches a wallet once.
TopUp(r) == /\ r \notin credited
            /\ credited' = credited \cup {r}
            /\ wallet' = [wallet EXCEPT ![DepositUser[r]] = @ + DepositNet[r]]
            /\ UNCHANGED <<stage, revenue>>

\* The buyer locks principal and fee, and never more than the wallet holds.
Hold(id) == /\ stage[id] = "open"
            /\ wallet[Buyer[id]] >= Total(id)
            /\ stage' = [stage EXCEPT ![id] = "held"]
            /\ wallet' = [wallet EXCEPT ![Buyer[id]] = @ - Total(id)]
            /\ UNCHANGED <<revenue, credited>>

\* An agreement ends before any money was locked.
Void(id) == /\ stage[id] = "open"
            /\ stage' = [stage EXCEPT ![id] = "closed"]
            /\ UNCHANGED <<wallet, revenue, credited>>

\* The lock is undone: everything goes back, the fee included.
Return(id) == /\ stage[id] = "held"
              /\ stage' = [stage EXCEPT ![id] = "closed"]
              /\ wallet' = [wallet EXCEPT ![Buyer[id]] = @ + Total(id)]
              /\ UNCHANGED <<revenue, credited>>

\* The lock pays out: toBuyer of the principal to the buyer, the rest to the
\* seller, the fee to Sivan.
Settle(id, toBuyer) ==
  /\ stage[id] = "held"
  /\ stage' = [stage EXCEPT ![id] = "closed"]
  /\ wallet' = [wallet EXCEPT ![Buyer[id]] = @ + toBuyer,
                              ![Seller[id]] = @ + (Principal[id] - toBuyer)]
  /\ revenue' = revenue + FeeOf[id]
  /\ UNCHANGED credited

Next == \/ \E r \in Ref : TopUp(r)
        \/ \E id \in Agr : \/ Hold(id)
                           \/ Void(id)
                           \/ Return(id)
                           \/ \E toBuyer \in 0..Principal[id] : Settle(id, toBuyer)

Spec == Init /\ [][Next]_vars
=============================================================================
