------------------------------ MODULE NgnLedger ------------------------------
(****************************************************************************)
(* The naira balance-agreement ledger (ngn/balance-agreements/ledger.ts)    *)
(* over its tables: agreements, accounts, operations, cancellation consents.*)
(*                                                                          *)
(* One action is one ledger call, from BEGIN to COMMIT.  That a call may be *)
(* taken as one step although it is a dozen statements that interleave with *)
(* the statements of others is what NgnLedgerTx shows.  A call that fails   *)
(* rolls back and leaves nothing, a replayed call (its operation row is     *)
(* there already) returns the stored result and writes nothing: neither     *)
(* changes these variables, so neither is an action.                        *)
(*                                                                          *)
(* The terms of an agreement and the content of a verified deposit never    *)
(* change once written, so they are constants.                              *)
(****************************************************************************)
EXTENDS Integers, FiniteSets, FiniteSetsExt

CONSTANTS User,          \* canonical payment user ids
          Agr,           \* agreement ids
          Ref,           \* provider deposit references
          Buyer, Seller, \* the parties of each agreement
          Principal,     \* the principal of each agreement, in kobo
          DepositUser,   \* owner of the virtual account a deposit reached
          DepositNet,    \* what verifyDeposit says the deposit credits
          MaxInvites     \* unaccepted agreements a buyer may have: 3 in the code

\* The request checks (buyerId === sellerId, amount()) hold of every agreement
\* and deposit that reaches the tables.
ASSUME LedgerAssumption ==
  /\ IsFiniteSet(User) /\ IsFiniteSet(Agr) /\ IsFiniteSet(Ref)
  /\ Buyer \in [Agr -> User] /\ Seller \in [Agr -> User]
  /\ \A id \in Agr : Buyer[id] # Seller[id]
  /\ Principal \in [Agr -> Nat \ {0}]
  /\ DepositUser \in [Ref -> User]
  /\ DepositNet \in [Ref -> Nat \ {0}]
  /\ MaxInvites \in Nat

VARIABLES
  agreements,  \* row of ngn_balance_agreements; status "ABSENT": no row yet
  consents,    \* rows of ngn_agreement_cancellation_consents, per agreement
  available,   \* balance of user:X:available
  principal,   \* balance of agreement:X:principal
  pendingFee,  \* balance of agreement:X:pending_fee
  clearing,    \* balance of provider:paystack:clearing
  earnedFees,  \* balance of protocol:earned_fees
  ops,         \* ids in ngn_agreement_operations
  lapsed       \* agreements whose expires_at the database clock has passed

accounts == <<available, principal, pendingFee, clearing, earnedFees>>
vars == <<agreements, consents, accounts, ops, lapsed>>

Terminal == {"COMPLETED", "CANCELLED"}
Fundable == {"DRAFT_PENDING_SELLER_KYC", "PENDING_PAYMENT"}
Status == Terminal \cup Fundable \cup
            {"FUNDED_PENDING_ACCEPTANCE", "FUNDED", "IN_DELIVERY",
             "DELIVERED", "DISPUTED", "ABSENT"}

\* accepted_at, funded_at, started_at, delivered_at: TRUE when not NULL.
Row == [status : Status, accepted : BOOLEAN, funded : BOOLEAN,
        started : BOOLEAN, delivered : BOOLEAN]

NoRow == [status |-> "ABSENT", accepted |-> FALSE, funded |-> FALSE,
          started |-> FALSE, delivered |-> FALSE]

Parties(id) == {Buyer[id], Seller[id]}

\* 1%, rounded up to a whole kobo.
Fee(kobo) == (kobo + 99) \div 100

FeeOf == [id \in Agr |-> Fee(Principal[id])]

AgrOp == {"create", "fund", "accept", "start", "deliver", "dispute",
          "expire", "release", "ruling"}
OpId == (AgrOp \X Agr) \cup ({"cancel"} \X Agr \X User) \cup ({"paystack"} \X Ref)

\* What the invite cap counts: no acceptance yet, not terminal.
Invites(b) == {id \in Agr : /\ Buyer[id] = b
                            /\ ~agreements[id].accepted
                            /\ agreements[id].status \notin Terminal \cup {"ABSENT"}}

------------------------------------------------------------------------------
\* Slips the properties must notice stand before the definition they replace:
\* here, an operation id that admits a replay.
OnceAlways(op) == ops' = ops \cup {op}

\* operation(): the row is inserted, or the call is a replay.
Once(op) == op \notin ops /\ ops' = ops \cup {op}

\* A deadline was checked before COMMIT: by then it may have passed.
ClockMayPass(id) == \/ UNCHANGED lapsed
                    \/ lapsed' = [lapsed EXCEPT ![id] = TRUE]

SetRow(id, row) == agreements' = [agreements EXCEPT ![id] = row]

\* Slips: refunding what was never funded, forgetting the fee, keeping it.
RefundUnfunded(id) ==
  /\ SetRow(id, [agreements[id] EXCEPT !.status = "CANCELLED"])
  /\ principal' = [principal EXCEPT ![id] = @ - Principal[id]]
  /\ pendingFee' = [pendingFee EXCEPT ![id] = @ - FeeOf[id]]
  /\ available' = [available EXCEPT ![Buyer[id]] = @ + Principal[id] + FeeOf[id]]
  /\ UNCHANGED <<clearing, earnedFees>>

RefundPrincipal(id) ==
  /\ SetRow(id, [agreements[id] EXCEPT !.status = "CANCELLED"])
  /\ principal' = [principal EXCEPT ![id] = 0]
  /\ available' = [available EXCEPT ![Buyer[id]] = @ + principal[id]]
  /\ UNCHANGED <<pendingFee, clearing, earnedFees>>

RefundKeepingFee(id) ==
  /\ SetRow(id, [agreements[id] EXCEPT !.status = "CANCELLED"])
  /\ principal' = [principal EXCEPT ![id] = 0]
  /\ pendingFee' = [pendingFee EXCEPT ![id] = 0]
  /\ available' = [available EXCEPT ![Buyer[id]] = @ + principal[id]]
  /\ earnedFees' = earnedFees + pendingFee[id]
  /\ UNCHANGED clearing

\* refund(): a funded agreement gives principal and fee back; the post is
\* refused when an escrow account holds less than it must give.
Refund(id) ==
  LET a == agreements[id] IN
  /\ SetRow(id, [a EXCEPT !.status = "CANCELLED"])
  /\ IF a.funded
     THEN /\ principal[id] >= Principal[id] /\ pendingFee[id] >= FeeOf[id]
          /\ principal' = [principal EXCEPT ![id] = @ - Principal[id]]
          /\ pendingFee' = [pendingFee EXCEPT ![id] = @ - FeeOf[id]]
          /\ available' = [available EXCEPT ![Buyer[id]] = @ + Principal[id] + FeeOf[id]]
     ELSE UNCHANGED <<principal, pendingFee, available>>
  /\ UNCHANGED <<clearing, earnedFees>>

\* Slip: paying out without closing the agreement.
SettleOpen(id, toBuyer) ==
  /\ principal[id] >= Principal[id]
  /\ principal' = [principal EXCEPT ![id] = 0]
  /\ pendingFee' = [pendingFee EXCEPT ![id] = 0]
  /\ available' = [available EXCEPT ![Buyer[id]] = @ + toBuyer,
                                    ![Seller[id]] = @ + (Principal[id] - toBuyer)]
  /\ earnedFees' = earnedFees + FeeOf[id]
  /\ UNCHANGED <<agreements, clearing>>

\* settle(): the principal splits, the fee is earned.
Settle(id, toBuyer) ==
  /\ toBuyer <= Principal[id]
  /\ principal[id] >= Principal[id] /\ pendingFee[id] >= FeeOf[id]
  /\ principal' = [principal EXCEPT ![id] = @ - Principal[id]]
  /\ pendingFee' = [pendingFee EXCEPT ![id] = @ - FeeOf[id]]
  /\ available' = [available EXCEPT ![Buyer[id]] = @ + toBuyer,
                                    ![Seller[id]] = @ + (Principal[id] - toBuyer)]
  /\ earnedFees' = earnedFees + FeeOf[id]
  /\ SetRow(id, [agreements[id] EXCEPT !.status = "COMPLETED"])
  /\ UNCHANGED clearing

------------------------------------------------------------------------------
Init == /\ agreements = [id \in Agr |-> NoRow]
        /\ consents = [id \in Agr |-> {}]
        /\ available = [u \in User |-> 0]
        /\ principal = [id \in Agr |-> 0]
        /\ pendingFee = [id \in Agr |-> 0]
        /\ clearing = 0
        /\ earnedFees = 0
        /\ ops = {}
        /\ lapsed = [id \in Agr |-> FALSE]

\* The database clock passes expires_at, 48 hours after creation.
ClockPasses(id) ==
  /\ agreements[id].status # "ABSENT" /\ ~lapsed[id]
  /\ lapsed' = [lapsed EXCEPT ![id] = TRUE]
  /\ UNCHANGED <<agreements, consents, accounts, ops>>

CreditVerifiedDeposit(r) ==
  /\ Once(<<"paystack", r>>)
  /\ clearing' = clearing - DepositNet[r]
  /\ available' = [available EXCEPT ![DepositUser[r]] = @ + DepositNet[r]]
  /\ UNCHANGED <<agreements, consents, principal, pendingFee, earnedFees, lapsed>>

\* eligible: the seller's eligibility, read before the transaction began.
Create(id, eligible) ==
  /\ Once(<<"create", id>>)
  /\ agreements[id].status = "ABSENT"
  /\ Cardinality(Invites(Buyer[id])) < MaxInvites
  /\ SetRow(id, [NoRow EXCEPT !.status = IF eligible THEN "PENDING_PAYMENT"
                                         ELSE "DRAFT_PENDING_SELLER_KYC"])
  /\ UNCHANGED <<consents, accounts, lapsed>>

\* An accepted agreement has no deadline: only an unaccepted one is refused.
Fund(id) ==
  LET a == agreements[id] IN
  /\ Once(<<"fund", id>>)
  /\ a.status \in Fundable
  /\ a.accepted \/ ~lapsed[id]
  /\ available[Buyer[id]] >= Principal[id] + FeeOf[id]
  /\ available' = [available EXCEPT ![Buyer[id]] = @ - (Principal[id] + FeeOf[id])]
  /\ principal' = [principal EXCEPT ![id] = @ + Principal[id]]
  /\ pendingFee' = [pendingFee EXCEPT ![id] = @ + FeeOf[id]]
  /\ SetRow(id, [a EXCEPT !.funded = TRUE,
                          !.status = IF a.accepted THEN "FUNDED"
                                     ELSE "FUNDED_PENDING_ACCEPTANCE"])
  /\ ClockMayPass(id)
  /\ UNCHANGED <<consents, clearing, earnedFees>>

\* Slip: an acceptance that takes the money for granted.
AcceptAsFunded(id) ==
  LET a == agreements[id] IN
  /\ Once(<<"accept", id>>)
  /\ a.status \notin Terminal \cup {"ABSENT"} /\ ~a.accepted /\ ~lapsed[id]
  /\ SetRow(id, [a EXCEPT !.accepted = TRUE, !.status = "FUNDED"])
  /\ UNCHANGED <<consents, accounts, lapsed>>

\* The seller's eligibility is an answer of other services: either may come,
\* and a refusal changes nothing.
Accept(id) ==
  LET a == agreements[id] IN
  /\ Once(<<"accept", id>>)
  /\ a.status \notin Terminal \cup {"ABSENT"} /\ ~a.accepted /\ ~lapsed[id]
  /\ SetRow(id, [a EXCEPT !.accepted = TRUE,
                          !.status = IF a.funded THEN "FUNDED" ELSE "PENDING_PAYMENT"])
  /\ ClockMayPass(id)
  /\ UNCHANGED <<consents, accounts>>

Start(id) ==
  LET a == agreements[id] IN
  /\ Once(<<"start", id>>)
  /\ a.status = "FUNDED"
  /\ consents' = [consents EXCEPT ![id] = {}]
  /\ SetRow(id, [a EXCEPT !.status = "IN_DELIVERY", !.started = TRUE])
  /\ UNCHANGED <<accounts, lapsed>>

Deliver(id) ==
  LET a == agreements[id] IN
  /\ Once(<<"deliver", id>>)
  /\ a.status = "IN_DELIVERY"
  /\ SetRow(id, [a EXCEPT !.status = "DELIVERED", !.delivered = TRUE])
  /\ UNCHANGED <<consents, accounts, lapsed>>

Dispute(id) ==
  /\ Once(<<"dispute", id>>)
  /\ agreements[id].status = "DELIVERED"
  /\ SetRow(id, [agreements[id] EXCEPT !.status = "DISPUTED"])
  /\ UNCHANGED <<consents, accounts, lapsed>>

\* Slips: trusting the sweep's reading that nobody accepted, and sweeping the
\* funded invites alone.
ExpireOnReading(id) ==
  /\ Once(<<"expire", id>>)
  /\ agreements[id].status \notin Terminal \cup {"ABSENT"} /\ lapsed[id]
  /\ Refund(id)
  /\ UNCHANGED <<consents, lapsed>>

ExpireFunded(id) ==
  /\ Once(<<"expire", id>>)
  /\ agreements[id].status = "FUNDED_PENDING_ACCEPTANCE" /\ lapsed[id]
  /\ Refund(id)
  /\ UNCHANGED <<consents, lapsed>>

\* Reached through expireDue, whose query is stale by the time expire() locks
\* the row: the guard is the one expire() evaluates under the lock.
Expire(id) ==
  LET a == agreements[id] IN
  /\ Once(<<"expire", id>>)
  /\ a.status \notin Terminal \cup {"ABSENT"} /\ ~a.accepted /\ lapsed[id]
  /\ Refund(id)
  /\ UNCHANGED <<consents, lapsed>>

\* The second of the two consents cancels.
ConsentCancellation(id, actor) ==
  LET a == agreements[id]
      given == consents[id] \cup {actor}
  IN /\ Once(<<"cancel", id, actor>>)
     /\ actor \in Parties(id)
     /\ a.status \notin Terminal \cup {"ABSENT"} /\ ~a.started
     /\ consents' = [consents EXCEPT ![id] = given]
     /\ IF Cardinality(given) = 2 THEN Refund(id)
        ELSE UNCHANGED <<agreements, accounts>>
     /\ UNCHANGED lapsed

Release(id) ==
  /\ Once(<<"release", id>>)
  /\ agreements[id].status = "DELIVERED"
  /\ Settle(id, 0)
  /\ UNCHANGED <<consents, lapsed>>

Rule(id, toBuyer) ==
  /\ Once(<<"ruling", id>>)
  /\ agreements[id].status = "DISPUTED" /\ agreements[id].delivered
  /\ Settle(id, toBuyer)
  /\ UNCHANGED <<consents, lapsed>>

------------------------------------------------------------------------------
AgreementStep(id) ==
  \/ ClockPasses(id)
  \/ \E eligible \in BOOLEAN : Create(id, eligible)
  \/ Fund(id)
  \/ Accept(id)
  \/ Start(id)
  \/ Deliver(id)
  \/ Dispute(id)
  \/ Expire(id)
  \/ \E actor \in Parties(id) : ConsentCancellation(id, actor)
  \/ Release(id)
  \/ \E toBuyer \in 0..Principal[id] : Rule(id, toBuyer)

Next == \/ \E r \in Ref : CreditVerifiedDeposit(r)
        \/ \E id \in Agr : AgreementStep(id)

Spec == Init /\ [][Next]_vars

\* The worker's timer runs the expiry sweep again and again (workers.ts start),
\* and the clock goes on; nobody is obliged to act on an agreement.
FairSpec == Spec /\ \A id \in Agr : WF_vars(ClockPasses(id)) /\ WF_vars(Expire(id))

------------------------------------------------------------------------------
TypeOK ==
  /\ agreements \in [Agr -> Row]
  /\ consents \in [Agr -> SUBSET User]
  /\ available \in [User -> Nat]
  /\ principal \in [Agr -> Nat]
  /\ pendingFee \in [Agr -> Nat]
  /\ clearing \in Int
  /\ earnedFees \in Nat
  /\ ops \subseteq OpId
  /\ lapsed \in [Agr -> BOOLEAN]

\* The money of an agreement is in its escrow accounts.
Held(id) == agreements[id].funded /\ agreements[id].status \notin Terminal

EscrowHolds(id) ==
  /\ principal[id] = IF Held(id) THEN Principal[id] ELSE 0
  /\ pendingFee[id] = IF Held(id) THEN FeeOf[id] ELSE 0

\* The escrow accounts of an agreement hold exactly its principal and its fee
\* from the funding to the end of the agreement, and nothing before or after:
\* whatever calls race, none pays out twice or leaves kobo behind (fund,
\* refund and settle each post against these two accounts).
EscrowMatchesStatus == \A id \in Agr : EscrowHolds(id)

\* Every kobo in a wallet, in escrow or earned came in through a deposit that
\* was credited once (the journal of post() sums to zero, and the operation
\* row paystack:reference admits a reference once).
MoneyConserved ==
  /\ clearing + earnedFees + SumFunction(available) + SumFunction(principal)
       + SumFunction(pendingFee) = 0
  /\ clearing = -SumFunctionOnSet(DepositNet, {r \in Ref : <<"paystack", r>> \in ops})

\* The three-invite cap holds however creations, acceptances and expiries
\* interleave (create, under the buyer's account lock).
InviteCap == \A b \in User : Cardinality(Invites(b)) <= MaxInvites

History(a) ==
  /\ a.status = "ABSENT" => a = NoRow
  /\ a.status = "FUNDED_PENDING_ACCEPTANCE" => a.funded /\ ~a.accepted
  /\ a.status \in Fundable => ~a.funded
  /\ a.status = "DRAFT_PENDING_SELLER_KYC" => ~a.accepted
  /\ a.status \in {"FUNDED", "IN_DELIVERY", "DELIVERED", "DISPUTED", "COMPLETED"}
       => a.accepted /\ a.funded
  /\ a.started <=> a.status \in {"IN_DELIVERY", "DELIVERED", "DISPUTED", "COMPLETED"}
  /\ a.delivered <=> a.status \in {"DELIVERED", "DISPUTED", "COMPLETED"}

\* Work starts only on money that is there and on terms the seller accepted,
\* and each status is backed by the timestamps that lead to it.
StatusMatchesHistory == \A id \in Agr : History(agreements[id])

\* An agreement is cancelled only before work started, and then either both
\* parties consented or the invite lapsed unaccepted: a lone consent, or a
\* consent given before work started, never cancels on its own
\* (consentCancellation, expire, and the DELETE in start).
CancelledByBothOrByTime ==
  \A id \in Agr :
    agreements[id].status = "CANCELLED" =>
      /\ ~agreements[id].started
      /\ consents[id] = Parties(id) \/ (lapsed[id] /\ ~agreements[id].accepted)

\* The amount by which a step raises the spendable balance of u.
Gain(u) == available'[u] - available[u]

\* What a step that ends an agreement does with the money.
EndsPaid(id) ==
  agreements[id].status \notin Terminal /\ agreements'[id].status \in Terminal =>
    \/ /\ agreements'[id].status = "CANCELLED"
       /\ Gain(Buyer[id]) = principal[id] + pendingFee[id]
       /\ earnedFees' = earnedFees
    \/ /\ agreements'[id].status = "COMPLETED"
       /\ agreements[id].delivered
       /\ Gain(Buyer[id]) \in 0..Principal[id]
       /\ Gain(Seller[id]) = Principal[id] - Gain(Buyer[id])
       /\ earnedFees' - earnedFees = FeeOf[id]

\* When an agreement that holds money ends, the whole of it leaves in that
\* step: cancelled, the buyer gets principal and fee back; completed, the
\* delivery had been made, the buyer and the seller share the principal, and
\* Sivan earns the fee, which it earns in no other way.
PayoutExact == [][\A id \in Agr : EndsPaid(id)]_vars

\* An invite nobody accepted does not hold the buyer's money for ever: once it
\* has lapsed the worker cancels it, unless both parties cancel it first.
LapsedInviteEnds ==
  \A id \in Agr : (lapsed[id] /\ ~agreements[id].accepted)
                    ~> agreements[id].status \in Terminal

------------------------------------------------------------------------------
Stage(id) == IF Held(id) THEN "held"
             ELSE IF agreements[id].status \in Terminal THEN "closed" ELSE "open"

Escrow == INSTANCE NgnEscrow WITH
            stage <- [id \in Agr |-> Stage(id)],
            wallet <- available,
            revenue <- earnedFees,
            credited <- {r \in Ref : <<"paystack", r>> \in ops}

\* The ledger keeps the promise of NgnEscrow: money is locked whole and once,
\* and leaves the lock whole and once.
EscrowPromise == Escrow!Spec
=============================================================================
