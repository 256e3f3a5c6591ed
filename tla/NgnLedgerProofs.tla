--------------------------- MODULE NgnLedgerProofs ---------------------------
(****************************************************************************)
(* Proofs about NgnLedger, for any users, agreements, deposits and cap: its *)
(* tables stay in agreement, its money is conserved, it implements          *)
(* NgnEscrow, and its invite cap holds. Then about NgnLedgerTx, for any     *)
(* connections: its transactions never wait on each other for good, and     *)
(* they implement NgnLedger.                                                *)
(****************************************************************************)
EXTENDS NgnLedgerTx, SumLemmas

\* The fee is one per cent of the principal rounded up: it never falls short of
\* one per cent and never exceeds it by a kobo (create, (principal + 99n) / 100n).
THEOREM FeeRoundsUp ==
  ASSUME NEW kobo \in Nat \ {0}
  PROVE  /\ Fee(kobo) \in Nat \ {0}
         /\ 100 * Fee(kobo) >= kobo
         /\ 100 * (Fee(kobo) - 1) < kobo
BY DEF Fee

\* The constants as the proofs below use them.
LEMMA Terms ==
  ASSUME NEW id \in Agr
  PROVE  /\ Buyer[id] \in User /\ Seller[id] \in User /\ Buyer[id] # Seller[id]
         /\ Parties(id) \subseteq User
         /\ Principal[id] \in Nat \ {0}
         /\ FeeOf[id] \in Nat \ {0}
<1>1. Principal[id] \in Nat \ {0}
  BY LedgerAssumption
<1>2. FeeOf[id] \in Nat \ {0}
  BY <1>1, FeeRoundsUp DEF FeeOf
<1> QED
  BY <1>1, <1>2, LedgerAssumption DEF Parties

\* A row stays one when its status or a timestamp is written.
LEMMA RowWith ==
  ASSUME NEW row \in Row, NEW status \in Status
  PROVE  /\ [row EXCEPT !.status = status] \in Row
         /\ [row EXCEPT !.accepted = TRUE, !.status = status] \in Row
         /\ [row EXCEPT !.funded = TRUE, !.status = status] \in Row
         /\ [row EXCEPT !.status = status, !.started = TRUE] \in Row
         /\ [row EXCEPT !.status = status, !.delivered = TRUE] \in Row
BY DEF Row

LEMMA StatusNames ==
  {"ABSENT", "PENDING_PAYMENT", "DRAFT_PENDING_SELLER_KYC", "FUNDED_PENDING_ACCEPTANCE", "FUNDED",
   "IN_DELIVERY", "DELIVERED", "DISPUTED", "COMPLETED", "CANCELLED"} = Status
BY DEF Status, Terminal, Fundable

LEMMA NoRowType == NoRow \in Row
BY StatusNames DEF NoRow, Row

------------------------------------------------------------------------------
\* refund() keeps every table and account well typed.
LEMMA RefundType ==
  ASSUME TypeOK, NEW id \in Agr, Refund(id)
  PROVE  /\ agreements' \in [Agr -> Row]
         /\ available' \in [User -> Nat]
         /\ principal' \in [Agr -> Nat]
         /\ pendingFee' \in [Agr -> Nat]
         /\ clearing' \in Int
         /\ earnedFees' \in Nat
<1> USE Terms DEF TypeOK, Refund, SetRow
<1>1. agreements' \in [Agr -> Row]
  BY RowWith, StatusNames
<1>2. CASE agreements[id].funded
  BY <1>1, <1>2
<1>3. CASE ~agreements[id].funded
  BY <1>1, <1>3
<1> QED
  BY <1>2, <1>3

\* settle() keeps every table and account well typed.
LEMMA SettleType ==
  ASSUME TypeOK, NEW id \in Agr, NEW toBuyer \in 0..Principal[id], Settle(id, toBuyer)
  PROVE  /\ agreements' \in [Agr -> Row]
         /\ available' \in [User -> Nat]
         /\ principal' \in [Agr -> Nat]
         /\ pendingFee' \in [Agr -> Nat]
         /\ clearing' \in Int
         /\ earnedFees' \in Nat
<1> USE Terms DEF TypeOK, Settle, SetRow
<1>1. agreements' \in [Agr -> Row]
  BY RowWith, StatusNames
<1>2. toBuyer \in Nat /\ Principal[id] - toBuyer \in Nat
  OBVIOUS
<1>3. available' \in [User -> Nat]
  BY <1>2
<1> QED
  BY <1>1, <1>3

\* The operation ids the code makes.
LEMMA OpIds ==
  /\ \A id \in Agr : /\ \A name \in AgrOp : <<name, id>> \in OpId
                     /\ \A u \in User : <<"cancel", id, u>> \in OpId
  /\ \A r \in Ref : <<"paystack", r>> \in OpId
BY DEF OpId

\* operation() adds no other id.
LEMMA OnceType ==
  ASSUME TypeOK, NEW op \in OpId, Once(op)
  PROVE  ops' \subseteq OpId
BY DEF TypeOK, Once

------------------------------------------------------------------------------
\* Calls as the transactions of NgnLedgerTx commit them: a deadline that fund or
\* accept found open may have passed when they COMMIT, so neither has it for a
\* guard.  What is proved below of these steps holds of the ledger, whose calls
\* are among them, and of its transactions.
LateFund(id) ==
  LET a == agreements[id] IN
  /\ Once(<<"fund", id>>)
  /\ a.status \in Fundable
  /\ available[Buyer[id]] >= Principal[id] + FeeOf[id]
  /\ available' = [available EXCEPT ![Buyer[id]] = @ - (Principal[id] + FeeOf[id])]
  /\ principal' = [principal EXCEPT ![id] = @ + Principal[id]]
  /\ pendingFee' = [pendingFee EXCEPT ![id] = @ + FeeOf[id]]
  /\ SetRow(id, [a EXCEPT !.funded = TRUE,
                          !.status = IF a.accepted THEN "FUNDED"
                                     ELSE "FUNDED_PENDING_ACCEPTANCE"])
  /\ ClockMayPass(id)
  /\ UNCHANGED <<consents, clearing, earnedFees>>

LateAccept(id) ==
  LET a == agreements[id] IN
  /\ Once(<<"accept", id>>)
  /\ a.status \notin Terminal \cup {"ABSENT"} /\ ~a.accepted
  /\ SetRow(id, [a EXCEPT !.accepted = TRUE,
                          !.status = IF a.funded THEN "FUNDED" ELSE "PENDING_PAYMENT"])
  /\ ClockMayPass(id)
  /\ UNCHANGED <<consents, accounts>>

LateStep(id) ==
  \/ ClockPasses(id)
  \/ \E eligible \in BOOLEAN : Create(id, eligible)
  \/ LateFund(id)
  \/ LateAccept(id)
  \/ Start(id)
  \/ Deliver(id)
  \/ Dispute(id)
  \/ Expire(id)
  \/ \E actor \in Parties(id) : ConsentCancellation(id, actor)
  \/ Release(id)
  \/ \E toBuyer \in 0..Principal[id] : Rule(id, toBuyer)

LateNext == \/ \E r \in Ref : CreditVerifiedDeposit(r)
            \/ \E id \in Agr : LateStep(id)

\* A call made in time is one of them.
LEMMA InTime == [Next]_vars => [LateNext]_vars
<1> SUFFICES ASSUME NEW id \in Agr, AgreementStep(id) PROVE LateStep(id)
  BY DEF Next, LateNext
<1>1. Fund(id) => LateFund(id)
  BY DEF Fund, LateFund
<1>2. Accept(id) => LateAccept(id)
  BY DEF Accept, LateAccept
<1> QED
  BY <1>1, <1>2 DEF AgreementStep, LateStep

\* Each call of the ledger keeps every table and account well typed.
LEMMA TypeStep == TypeOK /\ [LateNext]_vars => TypeOK'
<1> SUFFICES ASSUME TypeOK, [LateNext]_vars PROVE TypeOK'
  OBVIOUS
<1> USE DEF TypeOK, accounts
<1>0. CASE UNCHANGED vars
  BY <1>0 DEF vars
<1>1. ASSUME NEW r \in Ref, CreditVerifiedDeposit(r) PROVE TypeOK'
  <2>1. DepositUser[r] \in User /\ DepositNet[r] \in Nat
    BY LedgerAssumption
  <2>2. ops' \subseteq OpId
    BY <1>1, OpIds, OnceType DEF CreditVerifiedDeposit
  <2> QED
    BY <1>1, <2>1, <2>2 DEF CreditVerifiedDeposit
<1>2. ASSUME NEW id \in Agr, LateStep(id) PROVE TypeOK'
  <2> USE Terms
  <2>1. /\ \A name \in AgrOp : Once(<<name, id>>) => ops' \subseteq OpId
        /\ \A u \in User : Once(<<"cancel", id, u>>) => ops' \subseteq OpId
    BY OpIds, OnceType
  <2>2. CASE ClockPasses(id)
    BY <2>2 DEF ClockPasses
  <2>3. ASSUME NEW eligible \in BOOLEAN, Create(id, eligible) PROVE TypeOK'
    BY <2>1, <2>3 DEF AgrOp, Create, SetRow, NoRow, Row, Status, Fundable
  <2>4. CASE LateFund(id)
    <3>1. agreements' \in [Agr -> Row]
      <4> DEFINE row == [agreements[id] EXCEPT !.funded = TRUE,
                                               !.status = IF agreements[id].accepted
                                                          THEN "FUNDED"
                                                          ELSE "FUNDED_PENDING_ACCEPTANCE"]
      <4>1. row \in Row
        BY RowWith, StatusNames
      <4>2. agreements' = [agreements EXCEPT ![id] = row]
        BY <2>4 DEF LateFund, SetRow
      <4> QED
        BY <4>1, <4>2
    <3>2. /\ available' \in [User -> Nat]
          /\ principal' \in [Agr -> Nat]
          /\ pendingFee' \in [Agr -> Nat]
      BY <2>4 DEF LateFund
    <3> QED
      BY <2>1, <2>4, <3>1, <3>2 DEF ClockMayPass, AgrOp, LateFund
  <2>5. CASE LateAccept(id)
    <3> DEFINE row == [agreements[id] EXCEPT !.accepted = TRUE,
                                             !.status = IF agreements[id].funded
                                                        THEN "FUNDED"
                                                        ELSE "PENDING_PAYMENT"]
    <3>1. row \in Row
      BY RowWith, StatusNames
    <3>2. agreements' = [agreements EXCEPT ![id] = row]
      BY <2>5 DEF LateAccept, SetRow
    <3>3. lapsed' \in [Agr -> BOOLEAN]
      BY <2>5 DEF LateAccept, ClockMayPass
    <3> QED
      BY <2>1, <2>5, <3>1, <3>2, <3>3 DEF AgrOp, LateAccept
  <2>6. CASE Start(id)
    <3>1. agreements' \in [Agr -> Row]
      BY <2>6, RowWith, StatusNames DEF Start, SetRow
    <3> QED
      BY <2>1, <2>6, <3>1 DEF AgrOp, Start
  <2>7. CASE Deliver(id)
    <3>1. agreements' \in [Agr -> Row]
      BY <2>7, RowWith, StatusNames DEF Deliver, SetRow
    <3> QED
      BY <2>1, <2>7, <3>1 DEF AgrOp, Deliver
  <2>8. CASE Dispute(id)
    <3>1. agreements' \in [Agr -> Row]
      BY <2>8, RowWith, StatusNames DEF Dispute, SetRow
    <3> QED
      BY <2>1, <2>8, <3>1 DEF AgrOp, Dispute
  <2>9. CASE Expire(id)
    BY <2>1, <2>9, RefundType DEF AgrOp, Expire
  <2>10. ASSUME NEW actor \in Parties(id), ConsentCancellation(id, actor) PROVE TypeOK'
    <3>1. consents' \in [Agr -> SUBSET User]
      BY <2>10 DEF ConsentCancellation
    <3>2. CASE Refund(id)
      BY <2>1, <2>10, <3>1, <3>2, RefundType DEF ConsentCancellation
    <3>3. CASE UNCHANGED <<agreements, accounts>>
      BY <2>1, <2>10, <3>1, <3>3 DEF ConsentCancellation
    <3> QED
      BY <2>10, <3>2, <3>3 DEF ConsentCancellation
  <2>11. CASE Release(id)
    BY <2>1, <2>11, SettleType DEF AgrOp, Release
  <2>12. ASSUME NEW toBuyer \in 0..Principal[id], Rule(id, toBuyer) PROVE TypeOK'
    BY <2>1, <2>12, SettleType DEF AgrOp, Rule
  <2> QED
    BY <1>2, <2>2, <2>3, <2>4, <2>5, <2>6, <2>7, <2>8, <2>9, <2>10, <2>11, <2>12
    DEF LateStep
<1> QED
  BY <1>0, <1>1, <1>2 DEF LateNext

\* The empty tables are well typed.
LEMMA TypeInit == Init => TypeOK
BY DEF Init, TypeOK, Row, NoRow, Status

\* Balances other than the clearing account never go below zero, every row has
\* a status of the CHECK constraint, and every operation id is one the code
\* makes, whatever the calls.
THEOREM TypeCorrect == Spec => []TypeOK
BY TypeInit, TypeStep, InTime, PTL DEF Spec

------------------------------------------------------------------------------
\* A call on one agreement leaves the rows and the escrow of the others alone.
LEMMA OthersUntouched ==
  ASSUME TypeOK, NEW id \in Agr, LateStep(id), NEW other \in Agr \ {id}
  PROVE  /\ agreements'[other] = agreements[other]
         /\ consents'[other] = consents[other]
         /\ lapsed'[other] = lapsed[other]
         /\ principal'[other] = principal[other]
         /\ pendingFee'[other] = pendingFee[other]
<1> USE DEF TypeOK, SetRow, accounts
<1>1. Refund(id) => /\ agreements'[other] = agreements[other]
                    /\ principal'[other] = principal[other]
                    /\ pendingFee'[other] = pendingFee[other]
  BY DEF Refund
<1>2. \A toBuyer : Settle(id, toBuyer) => /\ agreements'[other] = agreements[other]
                                          /\ principal'[other] = principal[other]
                                          /\ pendingFee'[other] = pendingFee[other]
  BY DEF Settle
<1>3. CASE ClockPasses(id)
  BY <1>3 DEF ClockPasses
<1>4. CASE \E eligible \in BOOLEAN : Create(id, eligible)
  BY <1>4 DEF Create
<1>5. CASE LateFund(id)
  BY <1>5 DEF LateFund, ClockMayPass
<1>6. CASE LateAccept(id) \/ Start(id) \/ Deliver(id) \/ Dispute(id)
  BY <1>6 DEF LateAccept, Start, Deliver, Dispute, ClockMayPass
<1>7. CASE Expire(id)
  BY <1>1, <1>7 DEF Expire
<1>8. ASSUME NEW actor \in Parties(id), ConsentCancellation(id, actor)
      PROVE  /\ agreements'[other] = agreements[other]
             /\ consents'[other] = consents[other]
             /\ lapsed'[other] = lapsed[other]
             /\ principal'[other] = principal[other]
             /\ pendingFee'[other] = pendingFee[other]
  BY <1>1, <1>8 DEF ConsentCancellation
<1>9. CASE Release(id) \/ \E toBuyer \in 0..Principal[id] : Rule(id, toBuyer)
  BY <1>2, <1>9 DEF Release, Rule
<1> QED
  BY <1>3, <1>4, <1>5, <1>6, <1>7, <1>8, <1>9 DEF LateStep

\* refund() of an agreement that is not over empties its escrow.
LEMMA RefundEffect ==
  ASSUME TypeOK, NEW id \in Agr, Refund(id),
         EscrowHolds(id), agreements[id].status \notin Terminal
  PROVE  /\ agreements'[id] = [agreements[id] EXCEPT !.status = "CANCELLED"]
         /\ principal'[id] = 0 /\ pendingFee'[id] = 0
         /\ available'[Buyer[id]] - available[Buyer[id]] = principal[id] + pendingFee[id]
         /\ earnedFees' = earnedFees
<1> USE Terms DEF TypeOK, Refund, SetRow, EscrowHolds, Held
<1>1. CASE agreements[id].funded
  BY <1>1
<1>2. CASE ~agreements[id].funded
  BY <1>2
<1> QED
  BY <1>1, <1>2

\* settle() of an agreement whose money is in escrow empties its escrow.
LEMMA SettleEffect ==
  ASSUME TypeOK, NEW id \in Agr, NEW toBuyer \in 0..Principal[id], Settle(id, toBuyer),
         EscrowHolds(id), Held(id)
  PROVE  /\ agreements'[id] = [agreements[id] EXCEPT !.status = "COMPLETED"]
         /\ principal'[id] = 0 /\ pendingFee'[id] = 0
         /\ available'[Buyer[id]] - available[Buyer[id]] = toBuyer
         /\ available'[Seller[id]] - available[Seller[id]] = Principal[id] - toBuyer
         /\ earnedFees' = earnedFees + FeeOf[id]
BY Terms DEF TypeOK, Settle, SetRow, EscrowHolds

------------------------------------------------------------------------------
\* The inductive invariant.  That escrow matches status is not inductive on its
\* own: that the money is not locked a second time rests on a fundable row
\* having no funded_at, which StatusMatchesHistory says.
IInv == TypeOK /\ EscrowMatchesStatus /\ StatusMatchesHistory

Sound(id) == EscrowHolds(id) /\ History(agreements[id])

\* One call on id keeps its own row and escrow in agreement.
LEMMA SoundStep ==
  ASSUME TypeOK, NEW id \in Agr, Sound(id), LateStep(id)
  PROVE  Sound(id)'
<1> DEFINE a == agreements[id]
           b == agreements'[id]
<1> USE Terms DEF Sound, EscrowHolds, Held, History
<1>0. a \in Row
  BY DEF TypeOK
\* A call that moves no money and goes on from one running status to another.
<1>1. ASSUME principal'[id] = principal[id], pendingFee'[id] = pendingFee[id],
             b.funded = a.funded, a.status \notin Terminal, b.status \notin Terminal
      PROVE  EscrowHolds(id)'
  BY <1>1
<1>2. CASE ClockPasses(id)
  BY <1>2 DEF ClockPasses, accounts
<1>3. ASSUME NEW eligible \in BOOLEAN, Create(id, eligible) PROVE Sound(id)'
  <2>1. b = [NoRow EXCEPT !.status = IF eligible THEN "PENDING_PAYMENT"
                                     ELSE "DRAFT_PENDING_SELLER_KYC"]
    BY <1>3 DEF Create, SetRow, TypeOK
  <2>2. a = NoRow
    BY <1>3 DEF Create
  <2> QED
    BY <1>3, <2>1, <2>2 DEF Create, accounts, NoRow, Fundable, Terminal
<1>4. CASE LateFund(id)
  <2>1. b = [a EXCEPT !.funded = TRUE,
                      !.status = IF a.accepted THEN "FUNDED"
                                 ELSE "FUNDED_PENDING_ACCEPTANCE"]
    BY <1>4 DEF LateFund, SetRow, TypeOK
  <2>2. ~a.funded /\ ~a.started /\ ~a.delivered
    BY <1>4, <1>0 DEF LateFund, Fundable, Row
  <2>3. History(b)
    BY <1>0, <2>1, <2>2 DEF Row, Fundable
  <2>4. /\ b.funded /\ b.status \notin Terminal
        /\ principal'[id] = Principal[id] /\ pendingFee'[id] = FeeOf[id]
    BY <1>0, <1>4, <2>1, <2>2 DEF LateFund, TypeOK, Row, Terminal
  <2> QED
    BY <2>3, <2>4
<1>5. CASE LateAccept(id)
  <2>1. b = [a EXCEPT !.accepted = TRUE,
                      !.status = IF a.funded THEN "FUNDED" ELSE "PENDING_PAYMENT"]
    BY <1>5 DEF LateAccept, SetRow, TypeOK
  <2>2. a.status \in {"PENDING_PAYMENT", "DRAFT_PENDING_SELLER_KYC", "FUNDED_PENDING_ACCEPTANCE"}
    BY <1>0, <1>5 DEF LateAccept, Row, Status, Fundable
  <2>3. History(b)
    BY <1>0, <2>1, <2>2 DEF Row, Fundable
  <2>4. EscrowHolds(id)'
    BY <1>0, <1>1, <1>5, <2>1, <2>2 DEF LateAccept, accounts, Row, Terminal
  <2> QED
    BY <2>3, <2>4
<1>6. CASE Start(id)
  <2>1. b = [a EXCEPT !.status = "IN_DELIVERY", !.started = TRUE]
    BY <1>6 DEF Start, SetRow, TypeOK
  <2>2. History(b)
    BY <1>0, <1>6, <2>1 DEF Start, Row, Fundable
  <2>3. EscrowHolds(id)'
    BY <1>0, <1>1, <1>6, <2>1 DEF Start, accounts, Row, Terminal
  <2> QED
    BY <2>2, <2>3
<1>7. CASE Deliver(id)
  <2>1. b = [a EXCEPT !.status = "DELIVERED", !.delivered = TRUE]
    BY <1>7 DEF Deliver, SetRow, TypeOK
  <2>2. History(b)
    BY <1>0, <1>7, <2>1 DEF Deliver, Row, Fundable
  <2>3. EscrowHolds(id)'
    BY <1>0, <1>1, <1>7, <2>1 DEF Deliver, accounts, Row, Terminal
  <2> QED
    BY <2>2, <2>3
<1>8. CASE Dispute(id)
  <2>1. b = [a EXCEPT !.status = "DISPUTED"]
    BY <1>8 DEF Dispute, SetRow, TypeOK
  <2>2. History(b)
    BY <1>0, <1>8, <2>1 DEF Dispute, Row, Fundable
  <2>3. EscrowHolds(id)'
    BY <1>0, <1>1, <1>8, <2>1 DEF Dispute, accounts, Row, Terminal
  <2> QED
    BY <2>2, <2>3
<1>9. ASSUME Refund(id), a.status \notin Terminal \cup {"ABSENT"}, ~a.started
      PROVE  Sound(id)'
  <2>1. b = [a EXCEPT !.status = "CANCELLED"] /\ principal'[id] = 0 /\ pendingFee'[id] = 0
    BY <1>9, RefundEffect
  <2>2. History(b)
    BY <1>0, <1>9, <2>1 DEF Row, Fundable
  <2> QED
    BY <1>0, <2>1, <2>2 DEF Row, Terminal
<1>10. CASE Expire(id)
  BY <1>0, <1>9, <1>10 DEF Expire, Row, Status, Terminal, Fundable
<1>11. ASSUME NEW actor \in Parties(id), ConsentCancellation(id, actor) PROVE Sound(id)'
  <2>1. CASE Refund(id)
    BY <1>9, <1>11, <2>1 DEF ConsentCancellation
  <2>2. CASE UNCHANGED <<agreements, accounts>>
    BY <2>2 DEF accounts
  <2> QED
    BY <1>11, <2>1, <2>2 DEF ConsentCancellation
<1>12. ASSUME NEW toBuyer \in 0..Principal[id], Settle(id, toBuyer),
              a.status \in {"DELIVERED", "DISPUTED"}
       PROVE  Sound(id)'
  <2>1. Held(id)
    BY <1>12 DEF Terminal
  <2>2. b = [a EXCEPT !.status = "COMPLETED"] /\ principal'[id] = 0 /\ pendingFee'[id] = 0
    BY <1>12, <2>1, SettleEffect
  <2>3. History(b)
    BY <1>0, <1>12, <2>2 DEF Row, Fundable
  <2> QED
    BY <1>0, <2>2, <2>3 DEF Row, Terminal
<1>13. CASE Release(id)
  BY <1>12, <1>13 DEF Release
<1>14. ASSUME NEW toBuyer \in 0..Principal[id], Rule(id, toBuyer) PROVE Sound(id)'
  BY <1>12, <1>14 DEF Rule
<1> QED
  BY <1>2, <1>3, <1>4, <1>5, <1>6, <1>7, <1>8, <1>10, <1>11, <1>13, <1>14 DEF LateStep

\* The empty tables satisfy the invariant: nothing is held, nothing happened.
LEMMA IInvInit == Init => IInv
BY TypeInit DEF Init, IInv, EscrowMatchesStatus, EscrowHolds, Held, StatusMatchesHistory,
                History, NoRow, Fundable

\* No call of the ledger, and no passing of the clock, breaks the invariant.
LEMMA IInvStep == IInv /\ [LateNext]_vars => IInv'
<1> SUFFICES ASSUME IInv, [LateNext]_vars PROVE IInv'
  OBVIOUS
<1>1. TypeOK'
  BY TypeStep DEF IInv
<1>2. SUFFICES ASSUME NEW other \in Agr PROVE Sound(other)'
  BY <1>1 DEF IInv, EscrowMatchesStatus, StatusMatchesHistory, Sound
<1>3. TypeOK /\ Sound(other)
  BY DEF IInv, EscrowMatchesStatus, StatusMatchesHistory, Sound
<1> DEFINE Same == /\ agreements'[other] = agreements[other]
                   /\ principal'[other] = principal[other]
                   /\ pendingFee'[other] = pendingFee[other]
<1>4. Same => Sound(other)'
  BY <1>3 DEF Sound, EscrowHolds, Held, History
<1>5. CASE UNCHANGED vars
  BY <1>4, <1>5 DEF vars, accounts
<1>6. ASSUME NEW r \in Ref, CreditVerifiedDeposit(r) PROVE Sound(other)'
  BY <1>4, <1>6 DEF CreditVerifiedDeposit
<1>7. ASSUME NEW id \in Agr, LateStep(id) PROVE Sound(other)'
  BY <1>3, <1>4, <1>7, SoundStep, OthersUntouched
<1> QED
  BY <1>5, <1>6, <1>7 DEF LateNext

\* The invariant holds in every reachable state.
LEMMA Inductive == Spec => []IInv
BY IInvInit, IInvStep, InTime, PTL DEF Spec

\* Whatever calls are made on whatever agreements, the escrow accounts of each
\* hold its principal and fee exactly while it is funded and not over.
THEOREM EscrowCorrect == Spec => []EscrowMatchesStatus
<1>1. IInv => EscrowMatchesStatus
  BY DEF IInv
<1> QED
  BY <1>1, Inductive, PTL

\* Work is never started on an agreement that is unfunded or unaccepted, nor is
\* one settled that was not delivered.
THEOREM HistoryCorrect == Spec => []StatusMatchesHistory
<1>1. IInv => StatusMatchesHistory
  BY DEF IInv
<1> QED
  BY <1>1, Inductive, PTL

------------------------------------------------------------------------------
\* How each kind of call ends an agreement that was running.
LEMMA EndStep ==
  ASSUME TypeOK, NEW id \in Agr, Sound(id), LateStep(id),
         agreements[id].status \notin Terminal, agreements'[id].status \in Terminal
  PROVE  \/ /\ Refund(id)
            /\ ~agreements[id].started
         \/ /\ agreements[id].delivered /\ Held(id)
            /\ \E toBuyer \in 0..Principal[id] : Settle(id, toBuyer)
<1> USE DEF TypeOK, SetRow, Sound, History, Terminal
<1>1. CASE ClockPasses(id)
  BY <1>1 DEF ClockPasses
<1>2. CASE \E eligible \in BOOLEAN : Create(id, eligible)
  BY <1>2 DEF Create, NoRow
<1>3. CASE LateFund(id)
  BY <1>3 DEF LateFund, ClockMayPass, Row
<1>4. CASE LateAccept(id)
  BY <1>4 DEF LateAccept, ClockMayPass, Row
<1>5. CASE Start(id)
  BY <1>5 DEF Start, Row
<1>10. CASE Deliver(id)
  BY <1>10 DEF Deliver, Row
<1>11. CASE Dispute(id)
  BY <1>11 DEF Dispute, Row
<1>6. CASE Expire(id)
  BY <1>6 DEF Expire, Row
<1>7. CASE \E actor \in Parties(id) : ConsentCancellation(id, actor)
  BY <1>7 DEF ConsentCancellation
<1>8. CASE Release(id)
  <2>1. Settle(id, 0) /\ 0 \in 0..Principal[id]
    BY <1>8, Terms DEF Release
  <2> QED
    BY <1>8, <2>1 DEF Release, Row, Held
<1>9. CASE \E toBuyer \in 0..Principal[id] : Rule(id, toBuyer)
  BY <1>9 DEF Rule, Row, Held
<1> QED
  BY <1>1, <1>2, <1>3, <1>4, <1>5, <1>6, <1>7, <1>8, <1>9, <1>10, <1>11 DEF LateStep

\* Every step from a sound state pays an ending agreement out exactly.
LEMMA PayoutStep == IInv /\ [LateNext]_vars => [\A id \in Agr : EndsPaid(id)]_vars
<1> SUFFICES ASSUME IInv, [LateNext]_vars, NEW id \in Agr,
                    agreements[id].status \notin Terminal, agreements'[id].status \in Terminal
             PROVE  EndsPaid(id)
  BY DEF EndsPaid
<1>1. TypeOK /\ Sound(id)
  BY DEF IInv, EscrowMatchesStatus, StatusMatchesHistory, Sound
<1>2. LateStep(id)
  <2>1. ~ UNCHANGED vars
    BY DEF vars
  <2>2. \A r \in Ref : ~ CreditVerifiedDeposit(r)
    BY DEF CreditVerifiedDeposit
  <2> QED
    BY <1>1, <2>1, <2>2, OthersUntouched DEF LateNext
<1>3. agreements[id] \in Row
  BY <1>1 DEF TypeOK
<1>4. CASE Refund(id)
  BY <1>1, <1>3, <1>4, RefundEffect DEF EndsPaid, Gain, Sound, Row
<1>5. CASE /\ agreements[id].delivered /\ Held(id)
           /\ \E toBuyer \in 0..Principal[id] : Settle(id, toBuyer)
  <2> PICK toBuyer \in 0..Principal[id] : Settle(id, toBuyer)
    BY <1>5
  <2>1. /\ agreements'[id] = [agreements[id] EXCEPT !.status = "COMPLETED"]
        /\ Gain(Buyer[id]) = toBuyer
        /\ Gain(Seller[id]) = Principal[id] - toBuyer
        /\ earnedFees' = earnedFees + FeeOf[id]
    BY <1>1, <1>5, SettleEffect DEF Sound, Gain
  <2>2. earnedFees \in Nat /\ FeeOf[id] \in Nat
    BY <1>1, Terms DEF TypeOK
  <2> QED
    BY <1>3, <1>5, <2>1, <2>2 DEF EndsPaid, Row
<1> QED
  BY <1>1, <1>2, <1>4, <1>5, EndStep

\* An agreement that ends pays out all it holds in that step, to the buyer when
\* it is cancelled, between the two and Sivan when the delivery was made.
THEOREM PayoutCorrect == Spec => PayoutExact
BY PayoutStep, Inductive, InTime, PTL DEF Spec, PayoutExact

------------------------------------------------------------------------------
\* What CancelledByBothOrByTime needs of the consents: only the parties give one.
Consent(id) ==
  /\ consents[id] \subseteq Parties(id)
  /\ agreements[id].status = "CANCELLED" =>
       consents[id] = Parties(id) \/ (lapsed[id] /\ ~agreements[id].accepted)

\* Two consents of a two-party agreement are the consents of both.
LEMMA TwoOfTwo ==
  ASSUME NEW id \in Agr, NEW given \in SUBSET Parties(id), Cardinality(given) = 2
  PROVE  given = Parties(id)
<1> SUFFICES ASSUME given # Parties(id) PROVE FALSE
  OBVIOUS
<1>1. given = {} \/ \E u \in User : given = {u}
  BY Terms DEF Parties
<1>2. Cardinality(given) \in {0, 1}
  BY <1>1, FS_EmptySet, FS_Singleton
<1> QED
  BY <1>2

\* No call cancels without both consents or a lapsed, unaccepted invite.
LEMMA ConsentStep ==
  ASSUME TypeOK, NEW id \in Agr, Sound(id), Consent(id), LateStep(id)
  PROVE  Consent(id)'
<1> DEFINE a == agreements[id]
<1> USE DEF TypeOK, SetRow, Consent, Sound, History, Terminal
<1>0. /\ a \in Row
      /\ Parties(id)' = Parties(id)
  BY DEF Parties
<1>1. CASE ClockPasses(id)
  BY <1>0, <1>1 DEF ClockPasses
<1>2. CASE \E eligible \in BOOLEAN : Create(id, eligible)
  BY <1>0, <1>2 DEF Create, NoRow
<1>3. CASE LateFund(id)
  BY <1>0, <1>3 DEF LateFund, ClockMayPass, Row
<1>4. CASE LateAccept(id)
  BY <1>0, <1>4 DEF LateAccept, ClockMayPass, Row
<1>5. CASE Start(id)
  BY <1>0, <1>5 DEF Start, Row
<1>9. CASE Deliver(id)
  BY <1>0, <1>9 DEF Deliver, Row
<1>10. CASE Dispute(id)
  BY <1>0, <1>10 DEF Dispute, Row
<1>6. CASE Expire(id)
  <2>1. agreements'[id] = [a EXCEPT !.status = "CANCELLED"]
    BY <1>6 DEF Expire, Refund
  <2> QED
    BY <1>0, <1>6, <2>1 DEF Expire, Row
<1>7. ASSUME NEW actor \in Parties(id), ConsentCancellation(id, actor) PROVE Consent(id)'
  <2> DEFINE given == consents[id] \cup {actor}
  <2>1. consents'[id] = given /\ given \subseteq Parties(id) /\ lapsed' = lapsed
    BY <1>7 DEF ConsentCancellation
  <2>2. CASE Cardinality(given) = 2
    BY <1>0, <2>1, <2>2, TwoOfTwo
  <2>3. CASE Cardinality(given) # 2
    BY <1>0, <1>7, <2>1, <2>3 DEF ConsentCancellation
  <2> QED
    BY <2>2, <2>3
<1>8. CASE Release(id) \/ \E toBuyer \in 0..Principal[id] : Rule(id, toBuyer)
  BY <1>0, <1>8 DEF Release, Rule, Settle, Row
<1> QED
  BY <1>1, <1>2, <1>3, <1>4, <1>5, <1>6, <1>7, <1>8, <1>9, <1>10 DEF LateStep

\* Of every agreement, as an invariant next to IInv.
Consented == \A id \in Agr : Consent(id)

LEMMA ConsentedStep == IInv /\ Consented /\ [LateNext]_vars => Consented'
<1> SUFFICES ASSUME IInv, Consented, [LateNext]_vars, NEW other \in Agr
             PROVE  Consent(other)'
  BY DEF Consented
<1>1. TypeOK /\ Sound(other) /\ Consent(other)
  BY DEF IInv, EscrowMatchesStatus, StatusMatchesHistory, Sound, Consented
<1> DEFINE Same == /\ agreements'[other] = agreements[other]
                   /\ consents'[other] = consents[other]
                   /\ lapsed'[other] = lapsed[other]
<1>2. Same => Consent(other)'
  BY <1>1 DEF Consent, Parties
<1>3. CASE UNCHANGED vars
  BY <1>2, <1>3 DEF vars
<1>4. ASSUME NEW r \in Ref, CreditVerifiedDeposit(r) PROVE Consent(other)'
  BY <1>2, <1>4 DEF CreditVerifiedDeposit
<1>5. ASSUME NEW id \in Agr, LateStep(id) PROVE Consent(other)'
  BY <1>1, <1>2, <1>5, ConsentStep, OthersUntouched
<1> QED
  BY <1>3, <1>4, <1>5 DEF LateNext

LEMMA ConsentedInit == Init => Consented
BY DEF Init, Consented, Consent, NoRow

LEMMA ConsentedCancels == IInv /\ Consented => CancelledByBothOrByTime
<1> SUFFICES ASSUME IInv, Consented, NEW id \in Agr, agreements[id].status = "CANCELLED"
             PROVE  ~agreements[id].started
  BY DEF CancelledByBothOrByTime, Consented, Consent
<1> QED
  BY DEF IInv, StatusMatchesHistory, History, TypeOK, Row

\* An agreement is cancelled by both of its parties or by its deadline, and
\* never once work started.
THEOREM CancellationCorrect == Spec => []CancelledByBothOrByTime
BY ConsentedInit, ConsentedStep, ConsentedCancels, Inductive, InTime, PTL DEF Spec

------------------------------------------------------------------------------
\* The mapped variables of the abstract specification.
Credited == {r \in Ref : <<"paystack", r>> \in ops}
Stages == [id \in Agr |-> Stage(id)]

\* A step the escrow does not see.
Unseen == UNCHANGED <<Stages, available, earnedFees, Credited>>

\* What leaves stages, wallets, revenue and deposits alone is no step there.
LEMMA UnseenStutters == Unseen => UNCHANGED Escrow!vars
BY DEF Unseen, Stages, Credited, Escrow!vars

\* Only a deposit adds a deposit's operation id.
LEMMA NoDeposit ==
  ASSUME TypeOK, NEW id \in Agr, LateStep(id)
  PROVE  Credited' = Credited
<1>1. ASSUME NEW name \in AgrOp, Once(<<name, id>>) PROVE Credited' = Credited
  BY <1>1 DEF Once, Credited, AgrOp
<1>2. ASSUME NEW u, Once(<<"cancel", id, u>>) PROVE Credited' = Credited
  <2>1. \A r \in Ref : <<"paystack", r>> # <<"cancel", id, u>>
    OBVIOUS
  <2> QED
    BY <1>2, <2>1 DEF Once, Credited
<1>3. CASE ClockPasses(id)
  BY <1>3 DEF ClockPasses, Credited
<1>4. CASE \E eligible \in BOOLEAN : Create(id, eligible)
  BY <1>1, <1>4 DEF Create, AgrOp
<1>5. CASE LateFund(id)
  BY <1>1, <1>5 DEF LateFund, AgrOp
<1>6. CASE LateAccept(id)
  BY <1>1, <1>6 DEF LateAccept, AgrOp
<1>7. CASE Start(id)
  BY <1>1, <1>7 DEF Start, AgrOp
<1>8. CASE Deliver(id)
  BY <1>1, <1>8 DEF Deliver, AgrOp
<1>9. CASE Dispute(id)
  BY <1>1, <1>9 DEF Dispute, AgrOp
<1>10. CASE Expire(id)
  BY <1>1, <1>10 DEF Expire, AgrOp
<1>11. CASE \E actor \in Parties(id) : ConsentCancellation(id, actor)
  BY <1>2, <1>11 DEF ConsentCancellation
<1>12. CASE Release(id)
  BY <1>1, <1>12 DEF Release, AgrOp
<1>13. CASE \E toBuyer \in 0..Principal[id] : Rule(id, toBuyer)
  BY <1>1, <1>13 DEF Rule, AgrOp
<1> QED
  BY <1>3, <1>4, <1>5, <1>6, <1>7, <1>8, <1>9, <1>10, <1>11, <1>12, <1>13 DEF LateStep

\* When a step on id does not touch the money, nor fund nor end the agreement,
\* the escrow sees nothing.
LEMMA QuietStep ==
  ASSUME TypeOK, NEW id \in Agr, LateStep(id),
         available' = available, earnedFees' = earnedFees,
         agreements'[id].funded = agreements[id].funded,
         agreements[id].status \notin Terminal, agreements'[id].status \notin Terminal
  PROVE  Unseen
<1>1. \A x \in Agr : Stage(x)' = Stage(x)
  BY OthersUntouched DEF Stage, Held
<1>2. Stages' = Stages
  BY <1>1 DEF Stages
<1> QED
  BY <1>2, NoDeposit DEF Unseen

\* Only the stage of id moves, to the one named.
LEMMA StageMove ==
  ASSUME TypeOK, NEW id \in Agr, LateStep(id), NEW s, Stage(id)' = s
  PROVE  Stages' = [Stages EXCEPT ![id] = s]
BY OthersUntouched DEF Stages, Stage, Held

\* The three ways an agreement's money moves are the three of the escrow.
LEMMA HoldStep ==
  ASSUME TypeOK, NEW id \in Agr, Sound(id), LateFund(id)
  PROVE  Escrow!Hold(id)
<1>1. LateStep(id)
  BY DEF LateStep
<1>2. Stage(id) = "open"
  BY DEF LateFund, Sound, History, Stage, Held, Fundable, Terminal
<1>3. Stage(id)' = "held"
  BY DEF LateFund, SetRow, TypeOK, Row, Stage, Held, Terminal
<1>4. Stages' = [Stages EXCEPT ![id] = "held"]
  BY <1>1, <1>3, StageMove
<1> QED
  BY <1>1, <1>2, <1>4, NoDeposit DEF LateFund, Stages, Credited, Escrow!Hold, Escrow!Total

\* A refund of held money is a Return, a refund of nothing a Void.
LEMMA ReturnStep ==
  ASSUME TypeOK, NEW id \in Agr, Sound(id), LateStep(id), Refund(id),
         agreements[id].status \notin Terminal
  PROVE  Escrow!Return(id) \/ Escrow!Void(id)
<1>1. agreements'[id].status = "CANCELLED" /\ earnedFees' = earnedFees
  BY RefundEffect DEF Sound, TypeOK, Row
<1>2. Stages' = [Stages EXCEPT ![id] = "closed"]
  BY <1>1, StageMove DEF Stage, Held, Terminal
<1>3. CASE agreements[id].funded
  <2>1. Stages[id] = "held"
    BY <1>3 DEF Stages, Stage, Held
  <2>2. available' = [available EXCEPT ![Buyer[id]] = @ + (Principal[id] + FeeOf[id])]
    BY <1>3, Terms DEF Refund, TypeOK
  <2> QED
    BY <1>1, <1>2, <2>1, <2>2, NoDeposit DEF Stages, Credited, Escrow!Return, Escrow!Total
<1>4. CASE ~agreements[id].funded
  <2>1. Stages[id] = "open"
    BY <1>4 DEF Stages, Stage, Held
  <2>2. available' = available
    BY <1>4 DEF Refund
  <2> QED
    BY <1>1, <1>2, <2>1, <2>2, NoDeposit DEF Stages, Credited, Escrow!Void
<1> QED
  BY <1>3, <1>4

\* A settlement, by release or by ruling, is a Settle.
LEMMA SettleStep ==
  ASSUME TypeOK, NEW id \in Agr, Sound(id), LateStep(id), Held(id),
         NEW toBuyer \in 0..Principal[id], Settle(id, toBuyer)
  PROVE  Escrow!Settle(id, toBuyer)
<1>1. agreements'[id].status = "COMPLETED"
  BY SettleEffect DEF Sound, TypeOK, Row
<1>2. Stages' = [Stages EXCEPT ![id] = "closed"]
  BY <1>1, StageMove DEF Stage, Held, Terminal
<1>3. Stages[id] = "held"
  BY DEF Stages, Stage
<1> QED
  BY <1>2, <1>3, NoDeposit DEF Settle, Stages, Credited, Escrow!Settle

\* Every step of the ledger is a step of the escrow, or one it does not see.
LEMMA EscrowStep == IInv /\ [LateNext]_vars => [Escrow!Next]_Escrow!vars
<1> SUFFICES ASSUME IInv, [LateNext]_vars PROVE Escrow!Next \/ Unseen
  BY UnseenStutters
<1>1. CASE UNCHANGED vars
  BY <1>1 DEF vars, accounts, Unseen, Stages, Stage, Held, Credited
<1>2. ASSUME NEW r \in Ref, CreditVerifiedDeposit(r) PROVE Escrow!TopUp(r)
  BY <1>2 DEF CreditVerifiedDeposit, Once, Escrow!TopUp, Stage, Held
<1>3. ASSUME NEW id \in Agr, LateStep(id) PROVE Escrow!Next \/ Unseen
  <2> DEFINE a == agreements[id]
  <2>1. TypeOK /\ Sound(id) /\ a \in Row
    BY DEF IInv, EscrowMatchesStatus, StatusMatchesHistory, Sound, TypeOK
  <2> USE DEF TypeOK, SetRow, accounts, Terminal
  <2>2. CASE a.status \notin Terminal /\ agreements'[id].status \in Terminal
    <3>1. CASE Refund(id)
      BY <1>3, <2>1, <2>2, <3>1, ReturnStep DEF Escrow!Next
    <3>2. CASE Held(id) /\ \E toBuyer \in 0..Principal[id] : Settle(id, toBuyer)
      BY <1>3, <2>1, <3>2, SettleStep DEF Escrow!Next
    <3> QED
      BY <1>3, <2>1, <2>2, <3>1, <3>2, EndStep
  <2>3. CASE ClockPasses(id)
    BY <2>1, <2>3, NoDeposit, <1>3 DEF ClockPasses, Unseen, Stages, Stage, Held
  <2>4. CASE LateFund(id)
    BY <2>1, <2>4, HoldStep DEF Escrow!Next
  <2>5. ASSUME NEW eligible \in BOOLEAN, Create(id, eligible) PROVE Unseen
    <3>1. /\ agreements'[id].status \in {"PENDING_PAYMENT", "DRAFT_PENDING_SELLER_KYC"}
          /\ agreements'[id].funded = a.funded
      BY <2>1, <2>5 DEF Create, NoRow, Sound, History
    <3>2. a.status \notin Terminal /\ available' = available /\ earnedFees' = earnedFees
      BY <2>5 DEF Create
    <3> QED
      BY <1>3, <2>1, <3>1, <3>2, QuietStep
  <2>6. CASE LateAccept(id)
    BY <1>3, <2>1, <2>6, QuietStep DEF LateAccept, Row
  <2>7. CASE Start(id)
    BY <1>3, <2>1, <2>7, QuietStep DEF Start, Row
  <2>8. CASE Deliver(id)
    BY <1>3, <2>1, <2>8, QuietStep DEF Deliver, Row
  <2>9. CASE Dispute(id)
    BY <1>3, <2>1, <2>9, QuietStep DEF Dispute, Row
  <2>10. CASE Expire(id)
    BY <2>1, <2>2, <2>10 DEF Expire, Refund, Row
  <2>11. ASSUME NEW actor \in Parties(id), ConsentCancellation(id, actor)
         PROVE  Escrow!Next \/ Unseen
    <3>1. CASE Refund(id)
      BY <2>1, <2>2, <2>11, <3>1 DEF ConsentCancellation, Refund, Row
    <3>2. CASE UNCHANGED <<agreements, accounts>>
      BY <1>3, <2>1, <2>11, <3>2, QuietStep DEF ConsentCancellation
    <3> QED
      BY <2>11, <3>1, <3>2 DEF ConsentCancellation
  <2>12. CASE Release(id) \/ \E toBuyer \in 0..Principal[id] : Rule(id, toBuyer)
    BY <2>1, <2>2, <2>12 DEF Release, Rule, Settle, Row
  <2> QED
    BY <1>3, <2>3, <2>4, <2>5, <2>6, <2>7, <2>8, <2>9, <2>10, <2>11, <2>12 DEF LateStep
<1> QED
  BY <1>1, <1>2, <1>3 DEF LateNext, Escrow!Next

\* The empty tables are the initial state of the promise.
LEMMA EscrowInit == Init => Escrow!Init
BY DEF Init, Escrow!Init, Stage, Held, NoRow, Terminal

\* The ledger, with its nine statuses, its consents and its deadlines, does to
\* the money only what NgnEscrow allows: lock it whole and once, give it all
\* back or pay it all out, once.
THEOREM LedgerImplementsEscrow == Spec => EscrowPromise
BY EscrowInit, EscrowStep, Inductive, InTime, PTL DEF Spec, EscrowPromise, Escrow!Spec

------------------------------------------------------------------------------
\* No call but the creation of id adds an invite, and that one adds only id.
LEMMA InviteStep ==
  ASSUME TypeOK, NEW b \in User, [LateNext]_vars
  PROVE  \/ Invites(b)' \subseteq Invites(b)
         \/ \E id \in Agr : /\ Invites(b)' \subseteq Invites(b) \cup {id}
                            /\ Cardinality(Invites(b)) < MaxInvites
<1> USE DEF SetRow, Terminal, Invites
<1>1. CASE UNCHANGED vars
  BY <1>1 DEF vars
<1>2. ASSUME NEW r \in Ref, CreditVerifiedDeposit(r)
      PROVE  Invites(b)' \subseteq Invites(b)
  BY <1>2 DEF CreditVerifiedDeposit
<1>3. ASSUME NEW id \in Agr, LateStep(id)
      PROVE  \/ Invites(b)' \subseteq Invites(b)
             \/ /\ Invites(b)' \subseteq Invites(b) \cup {id}
                /\ Cardinality(Invites(b)) < MaxInvites
  <2>0. /\ TypeOK
        /\ agreements[id] \in Row
        /\ \A other \in Agr \ {id} : agreements'[other] = agreements[other]
    BY <1>3, OthersUntouched DEF TypeOK
  <2>1. Invites(b)' \subseteq Invites(b) \cup {id}
    BY <2>0
  <2>2. (id \in Invites(b)' => id \in Invites(b)) => Invites(b)' \subseteq Invites(b)
    BY <2>0
  <2>3. CASE \E eligible \in BOOLEAN : Create(id, eligible)
    <3>1. CASE Buyer[id] = b
      BY <2>1, <2>3, <3>1 DEF Create
    <3>2. CASE Buyer[id] # b
      BY <2>2, <3>2
    <3> QED
      BY <3>1, <3>2
  <2>4. CASE /\ agreements'[id].status \notin Terminal => agreements[id].status \notin Terminal \cup {"ABSENT"}
             /\ agreements[id].accepted => agreements'[id].accepted
    BY <2>2, <2>4
  <2> USE <2>0 DEF TypeOK, Row, accounts
  <2>5. CASE ClockPasses(id)
    BY <2>2, <2>5 DEF ClockPasses
  <2>6. CASE LateFund(id)
    BY <2>4, <2>6 DEF LateFund, Fundable
  <2>7. CASE LateAccept(id)
    BY <2>4, <2>7 DEF LateAccept
  <2>8. CASE Start(id)
    BY <2>4, <2>8 DEF Start
  <2>9. CASE Deliver(id)
    BY <2>4, <2>9 DEF Deliver
  <2>10. CASE Dispute(id)
    BY <2>4, <2>10 DEF Dispute
  <2>11. CASE Expire(id)
    BY <2>4, <2>11 DEF Expire, Refund
  <2>12. CASE \E actor \in Parties(id) : ConsentCancellation(id, actor)
    BY <2>4, <2>12 DEF ConsentCancellation, Refund
  <2>13. CASE Release(id) \/ \E toBuyer \in 0..Principal[id] : Rule(id, toBuyer)
    BY <2>4, <2>13 DEF Release, Rule, Settle
  <2> QED
    BY <1>3, <2>3, <2>5, <2>6, <2>7, <2>8, <2>9, <2>10, <2>11, <2>12, <2>13 DEF LateStep
<1> QED
  BY <1>1, <1>2, <1>3 DEF LateNext

LEMMA CapInit == Init => InviteCap
<1> SUFFICES ASSUME Init, NEW b \in User PROVE Cardinality(Invites(b)) <= MaxInvites
  BY DEF InviteCap
<1>1. Invites(b) = {}
  BY DEF Init, Invites, NoRow
<1> QED
  BY <1>1, LedgerAssumption, FS_EmptySet

\* The creation counts them first, so the one it adds is within the cap.
LEMMA CapStep == TypeOK /\ InviteCap /\ [LateNext]_vars => InviteCap'
<1> SUFFICES ASSUME TypeOK, InviteCap, [LateNext]_vars, NEW b \in User
             PROVE  Cardinality(Invites(b)') <= MaxInvites
  BY DEF InviteCap
<1>1. IsFiniteSet(Invites(b)) /\ IsFiniteSet(Invites(b)')
  BY LedgerAssumption, FS_Subset DEF Invites
<1>2. /\ Cardinality(Invites(b)) \in Nat /\ Cardinality(Invites(b)') \in Nat
      /\ MaxInvites \in Nat
  BY <1>1, FS_CardinalityType, LedgerAssumption
<1>3. CASE Invites(b)' \subseteq Invites(b)
  <2>1. Cardinality(Invites(b)') <= Cardinality(Invites(b))
    BY <1>1, <1>3, FS_Subset
  <2> QED
    BY <1>2, <2>1 DEF InviteCap
<1>4. ASSUME NEW id \in Agr, Invites(b)' \subseteq Invites(b) \cup {id},
             Cardinality(Invites(b)) < MaxInvites
      PROVE  Cardinality(Invites(b)') <= MaxInvites
  <2>1. /\ IsFiniteSet(Invites(b) \cup {id})
        /\ Cardinality(Invites(b) \cup {id}) \in {Cardinality(Invites(b)), Cardinality(Invites(b)) + 1}
    BY <1>1, FS_AddElement
  <2>2. Cardinality(Invites(b)') <= Cardinality(Invites(b) \cup {id})
    BY <1>4, <2>1, FS_Subset
  <2> QED
    BY <1>2, <1>4, <2>1, <2>2
<1> QED
  BY <1>3, <1>4, InviteStep

\* A buyer never has more unaccepted agreements than the cap.
THEOREM InviteCapCorrect == Spec => []InviteCap
BY CapInit, CapStep, TypeCorrect, InTime, PTL DEF Spec

------------------------------------------------------------------------------
\* All the money of the ledger: what users hold, what is in escrow, what Sivan
\* earned, and the clearing account that stands against it.
Books == clearing + earnedFees + SumFunction(available) + SumFunction(principal)
           + SumFunction(pendingFee)

\* A posting to a wallet, a principal or a fee account raises the sum of their
\* kind by its amount.
LEMMA Posting ==
  ASSUME TypeOK
  PROVE  /\ /\ SumFunction(available) \in Int
            /\ SumFunction(principal) \in Int
            /\ SumFunction(pendingFee) \in Int
         /\ \A after : \A u \in User, n \in Int :
              after = [available EXCEPT ![u] = @ + n]
                => SumFunction(after) = SumFunction(available) + n
         /\ \A after : \A id \in Agr, n \in Int :
              /\ after = [principal EXCEPT ![id] = @ + n]
                   => SumFunction(after) = SumFunction(principal) + n
              /\ after = [pendingFee EXCEPT ![id] = @ + n]
                   => SumFunction(after) = SumFunction(pendingFee) + n
<1>1. available \in [User -> Int] /\ principal \in [Agr -> Int] /\ pendingFee \in [Agr -> Int]
  BY DEF TypeOK
<1>2. IsFiniteSet(User) /\ IsFiniteSet(Agr)
  BY LedgerAssumption
<1>3. /\ SumFunction(available) \in Int
      /\ SumFunction(principal) \in Int
      /\ SumFunction(pendingFee) \in Int
  BY <1>1, <1>2, SumType DEF SumFunction
<1>4. ASSUME NEW u \in User, NEW n \in Int, NEW after, after = [available EXCEPT ![u] = @ + n]
      PROVE  SumFunction(after) = SumFunction(available) + n
  <2>1. after = Posted(available, u, n)
    BY <1>4 DEF Posted
  <2> QED
    BY <1>1, <1>2, <2>1, SumPost
<1>5. ASSUME NEW id \in Agr, NEW n \in Int, NEW after, after = [principal EXCEPT ![id] = @ + n]
      PROVE  SumFunction(after) = SumFunction(principal) + n
  <2>1. after = Posted(principal, id, n)
    BY <1>5 DEF Posted
  <2> QED
    BY <1>1, <1>2, <2>1, SumPost
<1>6. ASSUME NEW id \in Agr, NEW n \in Int, NEW after, after = [pendingFee EXCEPT ![id] = @ + n]
      PROVE  SumFunction(after) = SumFunction(pendingFee) + n
  <2>1. after = Posted(pendingFee, id, n)
    BY <1>6 DEF Posted
  <2> QED
    BY <1>1, <1>2, <2>1, SumPost
<1> QED
  BY <1>3, <1>4, <1>5, <1>6

\* refund() moves kobo and makes none.
LEMMA RefundBalances ==
  ASSUME TypeOK, NEW id \in Agr, Refund(id)
  PROVE  Books' = Books /\ clearing' = clearing
<1>1. Principal[id] \in Int /\ FeeOf[id] \in Int /\ Buyer[id] \in User
  BY Terms
<1>2. clearing \in Int /\ earnedFees \in Int
  BY DEF TypeOK
<1>3. clearing' = clearing /\ earnedFees' = earnedFees
  BY DEF Refund
<1>4. CASE agreements[id].funded
  <2> DEFINE n == Principal[id] + FeeOf[id]
  <2>1. /\ principal' = [principal EXCEPT ![id] = @ + (-Principal[id])]
        /\ pendingFee' = [pendingFee EXCEPT ![id] = @ + (-FeeOf[id])]
        /\ available' = [available EXCEPT ![Buyer[id]] = @ + n]
    BY <1>1, <1>4 DEF Refund, TypeOK
  <2>2. /\ SumFunction(principal') = SumFunction(principal) - Principal[id]
        /\ SumFunction(pendingFee') = SumFunction(pendingFee) - FeeOf[id]
        /\ SumFunction(available') = SumFunction(available) + n
    <3>1. -Principal[id] \in Int /\ -FeeOf[id] \in Int /\ n \in Int
      BY <1>1
    <3> HIDE DEF n
    <3>2. SumFunction(principal') = SumFunction(principal) + (-Principal[id])
      BY <2>1, <3>1, Posting, Zenon
    <3>3. SumFunction(pendingFee') = SumFunction(pendingFee) + (-FeeOf[id])
      BY <2>1, <3>1, Posting, Zenon
    <3>4. SumFunction(available') = SumFunction(available) + n
      BY <1>1, <2>1, <3>1, Posting, Zenon
    <3> QED
      BY <1>1, <3>2, <3>3, <3>4, Posting
  <2> QED
    BY <1>1, <1>2, <1>3, <2>2, Posting DEF Books
<1>5. CASE ~agreements[id].funded
  BY <1>3, <1>5 DEF Refund, Books
<1> QED
  BY <1>3, <1>4, <1>5

\* settle() moves kobo and makes none.
LEMMA SettleBalances ==
  ASSUME TypeOK, NEW id \in Agr, NEW toBuyer \in 0..Principal[id], Settle(id, toBuyer)
  PROVE  Books' = Books /\ clearing' = clearing
<1> DEFINE rest == Principal[id] - toBuyer
           mid == [available EXCEPT ![Buyer[id]] = @ + toBuyer]
<1>1. /\ Principal[id] \in Nat /\ FeeOf[id] \in Nat /\ toBuyer \in Nat /\ rest \in Nat
      /\ -Principal[id] \in Int /\ -FeeOf[id] \in Int
      /\ Buyer[id] \in User /\ Seller[id] \in User /\ Buyer[id] # Seller[id]
  BY Terms
<1>2. clearing \in Int /\ earnedFees \in Int
  BY DEF TypeOK
<1>3. clearing' = clearing /\ earnedFees' = earnedFees + FeeOf[id]
  BY DEF Settle
<1>4. /\ principal' = [principal EXCEPT ![id] = @ + (-Principal[id])]
      /\ pendingFee' = [pendingFee EXCEPT ![id] = @ + (-FeeOf[id])]
      /\ available' = [mid EXCEPT ![Seller[id]] = @ + rest]
  BY <1>1 DEF Settle, TypeOK
<1>5. SumFunction(available') = SumFunction(available) + Principal[id]
  <2>1. mid \in [User -> Int]
    BY <1>1 DEF TypeOK
  <2>2. SumFunction(mid) = SumFunction(available) + toBuyer
    <3>1. toBuyer \in Int /\ mid = [available EXCEPT ![Buyer[id]] = @ + toBuyer]
      BY <1>1
    <3> HIDE DEF mid
    <3> QED
      BY <1>1, <3>1, Posting
  <2> HIDE DEF mid
  <2>3. IsFiniteSet(User) /\ rest \in Int
    BY <1>1, LedgerAssumption
  <2> HIDE DEF rest
  <2>4. available' = [mid EXCEPT ![Seller[id]] = @ + rest] /\ Seller[id] \in User
    BY <1>1, <1>4
  <2>5. SumFunction(available') = SumFunction(mid) + rest
    <3>1. available' = Posted(mid, Seller[id], rest)
      BY <2>4 DEF Posted
    <3>2. SumFunction(Posted(mid, Seller[id], rest)) = SumFunction(mid) + rest
      BY ONLY <2>1, <2>3, <2>4, SumPost
    <3> QED
      BY <3>1, <3>2
  <2> QED
    BY <1>1, <2>2, <2>5, Posting DEF rest
<1>6. /\ SumFunction(principal') = SumFunction(principal) + (-Principal[id])
      /\ SumFunction(pendingFee') = SumFunction(pendingFee) + (-FeeOf[id])
  BY <1>1, <1>4, Posting
<1> QED
  BY <1>1, <1>2, <1>3, <1>5, <1>6, Posting DEF Books

\* Funding moves kobo from the buyer's wallet to escrow.
LEMMA FundBalances ==
  ASSUME TypeOK, NEW id \in Agr, LateFund(id)
  PROVE  Books' = Books /\ clearing' = clearing
<1> DEFINE n == -(Principal[id] + FeeOf[id])
<1>1. Principal[id] \in Int /\ FeeOf[id] \in Int /\ Buyer[id] \in User /\ n \in Int
  BY Terms
<1>2. clearing \in Int /\ earnedFees \in Int
  BY DEF TypeOK
<1>3. clearing' = clearing /\ earnedFees' = earnedFees
  BY DEF LateFund
<1>4. /\ principal' = [principal EXCEPT ![id] = @ + Principal[id]]
      /\ pendingFee' = [pendingFee EXCEPT ![id] = @ + FeeOf[id]]
      /\ available' = [available EXCEPT ![Buyer[id]] = @ + n]
  BY <1>1 DEF LateFund, TypeOK
<1>5. /\ SumFunction(principal') = SumFunction(principal) + Principal[id]
      /\ SumFunction(pendingFee') = SumFunction(pendingFee) + FeeOf[id]
  BY <1>1, <1>4, Posting
<1>6. SumFunction(available') = SumFunction(available) + n
  <2> HIDE DEF n
  <2> QED
    BY <1>1, <1>4, Posting
<1> QED
  BY <1>1, <1>2, <1>3, <1>5, <1>6, Posting DEF Books

\* No call on an agreement changes the total, nor what came in.
LEMMA CallBalances ==
  ASSUME TypeOK, NEW id \in Agr, LateStep(id)
  PROVE  Books' = Books /\ clearing' = clearing
<1>1. UNCHANGED accounts => Books' = Books /\ clearing' = clearing
  BY DEF accounts, Books
<1>2. CASE LateFund(id)
  BY <1>2, FundBalances
<1>3. CASE Expire(id)
  BY <1>3, RefundBalances DEF Expire
<1>4. CASE \E actor \in Parties(id) : ConsentCancellation(id, actor)
  BY <1>1, <1>4, RefundBalances DEF ConsentCancellation
<1>5. CASE Release(id) \/ \E toBuyer \in 0..Principal[id] : Rule(id, toBuyer)
  <2>1. 0 \in 0..Principal[id]
    BY Terms
  <2> QED
    BY <1>5, <2>1, SettleBalances DEF Release, Rule
<1>6. CASE ClockPasses(id) \/ \E eligible \in BOOLEAN : Create(id, eligible)
  BY <1>1, <1>6 DEF ClockPasses, Create
<1>7. CASE LateAccept(id) \/ Start(id) \/ Deliver(id) \/ Dispute(id)
  BY <1>1, <1>7 DEF LateAccept, Start, Deliver, Dispute
<1> QED
  BY <1>2, <1>3, <1>4, <1>5, <1>6, <1>7 DEF LateStep

\* A deposit is credited against the clearing account, and its reference counted.
LEMMA DepositBalances ==
  ASSUME TypeOK, MoneyConserved, NEW r \in Ref, CreditVerifiedDeposit(r)
  PROVE  MoneyConserved'
<1>1. /\ DepositUser[r] \in User /\ DepositNet[r] \in Int
      /\ \A x \in Ref : DepositNet[x] \in Int
      /\ IsFiniteSet(Credited) /\ IsFiniteSet(Credited')
  <2>1. Credited \subseteq Ref /\ Credited' \subseteq Ref
    BY DEF Credited
  <2> QED
    BY <2>1, LedgerAssumption, FS_Subset
<1>2. clearing \in Int /\ earnedFees \in Int
  BY DEF TypeOK
<1>3. /\ clearing' = clearing - DepositNet[r]
      /\ earnedFees' = earnedFees /\ principal' = principal /\ pendingFee' = pendingFee
      /\ available' = [available EXCEPT ![DepositUser[r]] = @ + DepositNet[r]]
  BY DEF CreditVerifiedDeposit
<1>4. SumFunction(available') = SumFunction(available) + DepositNet[r]
  BY <1>1, <1>3, Posting
<1>5. Books' = Books
  BY <1>1, <1>2, <1>3, <1>4, Posting DEF Books
<1>6. r \in Credited' /\ Credited' \ {r} = Credited
  BY DEF CreditVerifiedDeposit, Once, Credited
<1>7. SumFunctionOnSet(DepositNet, Credited') = DepositNet[r] + SumFunctionOnSet(DepositNet, Credited)
  <2>1. \A x \in Credited' : DepositNet[x] \in Int
    BY <1>1 DEF Credited
  <2> QED
    BY <1>1, <1>6, <2>1, SumSplit
<1>8. SumFunctionOnSet(DepositNet, Credited) \in Int
  BY <1>1, SumType DEF Credited
<1>9. clearing = -SumFunctionOnSet(DepositNet, Credited)
  BY DEF MoneyConserved, Credited
<1>10. clearing' = -SumFunctionOnSet(DepositNet, Credited')
  BY <1>1, <1>3, <1>7, <1>8, <1>9
<1> QED
  BY <1>5, <1>10 DEF MoneyConserved, Books, Credited

LEMMA MoneyInit == Init => MoneyConserved
<1> SUFFICES ASSUME Init PROVE MoneyConserved
  OBVIOUS
<1>1. SumFunction(available) = 0 /\ SumFunction(principal) = 0 /\ SumFunction(pendingFee) = 0
  BY LedgerAssumption, SumZero DEF Init, SumFunction
<1>2. {r \in Ref : <<"paystack", r>> \in ops} = {}
  BY DEF Init
<1> QED
  BY <1>1, <1>2, SumEmpty DEF MoneyConserved, Init

\* Every call balances, and only a deposit brings money in.
LEMMA MoneyStep == TypeOK /\ MoneyConserved /\ [LateNext]_vars => MoneyConserved'
<1> SUFFICES ASSUME TypeOK, MoneyConserved, [LateNext]_vars PROVE MoneyConserved'
  OBVIOUS
<1>1. CASE UNCHANGED vars
  BY <1>1 DEF vars, accounts, MoneyConserved
<1>2. ASSUME NEW id \in Agr, LateStep(id) PROVE MoneyConserved'
  <2>1. Books' = Books /\ clearing' = clearing /\ Credited' = Credited
    BY <1>2, CallBalances, NoDeposit
  <2> QED
    BY <2>1 DEF MoneyConserved, Books, Credited
<1> QED
  BY <1>1, <1>2, DepositBalances DEF LateNext

\* No kobo is made or lost, whatever the calls: every kobo in a wallet, in
\* escrow or earned came in through a deposit credited once.
THEOREM MoneyCorrect == Spec => []MoneyConserved
BY MoneyInit, MoneyStep, TypeCorrect, InTime, PTL DEF Spec

------------------------------------------------------------------------------
\* What a transaction is made of.
Account == {UserAcct(u) : u \in User} \cup {PrincipalAcct(id) : id \in Agr}
             \cup {FeeAcct(id) : id \in Agr} \cup {ClearingAcct, EarnedAcct}
Statements == {"idle", "row", "op", "seller", "post", "count", "insert"}
TxState == [at : Statements, call : Calls \cup {Idle.call}, row : Row,
            plan : SUBSET (Account \X Int), todo : SUBSET (Account \X Int)]

\* The guard of a call when it is committed: the deadlines of fund and accept
\* were looked at before.
Granted(q, a) ==
  CASE q.op = "fund" -> a.status \in Fundable
    [] q.op = "accept" -> a.status \notin Terminal /\ ~a.accepted
    [] OTHER -> Allowed(q, a)

\* Which call is at which statement.
Course(p) ==
  LET t == tx[p] IN
  /\ t.at = "idle" <=> t.call.op = "none"
  /\ t.at = "row" => t.call.op \notin NoRowLock
  /\ t.at = "seller" => t.call.op = "accept"
  /\ t.at \in {"count", "insert"} => t.call.op = "create"
  /\ t.at = "post" => t.call.op # "create"
  /\ t.at = "post" /\ t.call.op = "paystack" => t.plan = DepositEntries(t.call.x)
  /\ t.at # "post" => t.plan = {}
  /\ t.todo \subseteq t.plan

\* The row under the lock of p still is as p read it, and what p writes and posts
\* is what that row calls for.
Reading(p) ==
  LET t == tx[p]
      a == agreements[t.call.x]
  IN HoldsRow(p, t.call.x) =>
       /\ a.status # "ABSENT"
       /\ t.at # "post" => t.row = a
       /\ t.at = "post" => /\ Granted(t.call, a)
                           /\ t.row = Written(t.call, a)
                           /\ t.plan = Entries(t.call, a)

\* An operation id that p inserted is in nobody's committed rows.
Fresh(p) == tx[p].at \in {"seller", "post", "count", "insert"} => Key(tx[p].call) \notin ops

\* An account that p posted to still bears the posting, and comes before those
\* it has yet to lock.
Covered(p) ==
  \A e \in tx[p].plan \ tx[p].todo :
    /\ e[1] = ClearingAcct \/ Balance(e[1]) + e[2] >= 0
    /\ \A f \in tx[p].todo : Place(e[1]) < Place(f[1])

\* The invites that p counted have not become more.
Room(p) ==
  tx[p].at = "insert" =>
    /\ Cardinality(Invites(tx[p].call.actor)) < MaxInvites
    /\ tx[p].row = [NoRow EXCEPT !.status = IF tx[p].call.eligible THEN "PENDING_PAYMENT"
                                            ELSE "DRAFT_PENDING_SELLER_KYC"]

Good(p) == Course(p) /\ Reading(p) /\ Fresh(p) /\ Covered(p) /\ Room(p)

\* No lock has two holders.
Exclusive(p, q) ==
  /\ \A id \in Agr : ~(HoldsRow(p, id) /\ HoldsRow(q, id))
  /\ \A key \in OpId : ~(HoldsOp(p, key) /\ HoldsOp(q, key))
  /\ \A acct \in Account : ~(HoldsAccount(p, acct) /\ HoldsAccount(q, acct))

\* No row without the operation that created it.
Created == \A id \in Agr : agreements[id].status # "ABSENT" => <<"create", id>> \in ops

TxInv == /\ TypeOK
         /\ due \subseteq Agr
         /\ tx \in [Proc -> TxState]
         /\ Created
         /\ \A p \in Proc : Good(p)
         /\ \A p, q \in Proc : p # q => Exclusive(p, q)

------------------------------------------------------------------------------
\* What the calls of clients and of the worker look like.
WellMade(q) ==
  /\ q = [op |-> q.op, x |-> q.x, actor |-> q.actor, toBuyer |-> q.toBuyer,
            eligible |-> q.eligible]
  /\ q.op \in AgrOp \cup {"cancel", "paystack"}
  /\ q.op # "paystack" => q.x \in Agr
  /\ q.op = "paystack" => q.x \in Ref
  /\ q.op = "create" => q.actor = Buyer[q.x] /\ q.eligible \in BOOLEAN
  /\ q.op = "cancel" => q.actor \in Parties(q.x)
  /\ q.op = "release" => q.toBuyer = 0
  /\ q.op = "ruling" => q.toBuyer \in 0..Principal[q.x]
  /\ Key(q) \in OpId

LEMMA CallShape ==
  ASSUME NEW q \in Calls
  PROVE  WellMade(q)
<1>1. CASE \E r \in Ref : q = Call("paystack", r, DepositUser[r], 0, TRUE)
  BY <1>1 DEF WellMade, Call, AgrOp, Key, OpId
<1>2. ASSUME NEW id \in Agr, q \in CallsOn(id)
      PROVE  \/ \E op \in AgrOp \ {"create", "ruling"} : q = Call(op, id, Buyer[id], 0, TRUE)
             \/ \E e \in BOOLEAN : q = Call("create", id, Buyer[id], 0, e)
             \/ \E u \in Parties(id) : q = Call("cancel", id, u, 0, TRUE)
             \/ \E n \in 0..Principal[id] : q = Call("ruling", id, Buyer[id], n, TRUE)
  BY <1>2 DEF CallsOn
<1>3. ASSUME NEW id \in Agr, \E op \in AgrOp \ {"create", "ruling"} : q = Call(op, id, Buyer[id], 0, TRUE)
      PROVE  WellMade(q)
  BY <1>3 DEF WellMade, Call, AgrOp, Key, OpId
<1>4. ASSUME NEW id \in Agr, \E e \in BOOLEAN : q = Call("create", id, Buyer[id], 0, e)
      PROVE  WellMade(q)
  BY <1>4 DEF WellMade, Call, AgrOp, Key, OpId
<1>5. ASSUME NEW id \in Agr, \E u \in Parties(id) : q = Call("cancel", id, u, 0, TRUE)
      PROVE  WellMade(q)
  BY <1>5, Terms DEF WellMade, Call, AgrOp, Key, OpId
<1>6. ASSUME NEW id \in Agr, \E n \in 0..Principal[id] : q = Call("ruling", id, Buyer[id], n, TRUE)
      PROVE  WellMade(q)
  BY <1>6 DEF WellMade, Call, AgrOp, Key, OpId
<1>7. (\E r \in Ref : q = Call("paystack", r, DepositUser[r], 0, TRUE))
        \/ (\E id \in Agr : q \in CallsOn(id))
  BY DEF Calls
<1> QED
  BY <1>1, <1>2, <1>3, <1>4, <1>5, <1>6, <1>7

\* Two calls with one operation id are the same operation on the same thing.
LEMMA KeyIs ==
  ASSUME NEW q \in Calls
  PROVE  /\ q.op # "cancel" => Key(q) = <<q.op, q.x>>
         /\ q.op = "cancel" => Key(q) = <<"cancel", q.x, q.actor>>
BY DEF Key

\* The accounts of the ledger are distinct, and each has its balance and its
\* place in the order of the ids.
LEMMA Accounts ==
  /\ \A u \in User : UserAcct(u) \in Account /\ UserAcct(u) \notin {ClearingAcct, EarnedAcct}
  /\ \A id \in Agr : /\ PrincipalAcct(id) \in Account /\ FeeAcct(id) \in Account
                     /\ PrincipalAcct(id) \notin {ClearingAcct, EarnedAcct}
                     /\ FeeAcct(id) \notin {ClearingAcct, EarnedAcct}
  /\ ClearingAcct \in Account /\ EarnedAcct \in Account /\ ClearingAcct # EarnedAcct
  /\ \A u, v \in User : UserAcct(u) = UserAcct(v) => u = v
  /\ \A i, j \in Agr : /\ PrincipalAcct(i) = PrincipalAcct(j) => i = j
                       /\ FeeAcct(i) = FeeAcct(j) => i = j
                       /\ PrincipalAcct(i) # FeeAcct(j)
  /\ \A u \in User, i \in Agr : UserAcct(u) # PrincipalAcct(i) /\ UserAcct(u) # FeeAcct(i)
BY DEF Account, UserAcct, PrincipalAcct, FeeAcct, ClearingAcct, EarnedAcct

LEMMA Balances ==
  /\ \A u \in User : Balance(UserAcct(u)) = available[u]
  /\ \A id \in Agr : Balance(PrincipalAcct(id)) = principal[id]
  /\ \A id \in Agr : Balance(FeeAcct(id)) = pendingFee[id]
  /\ Balance(ClearingAcct) = clearing
  /\ Balance(EarnedAcct) = earnedFees
BY DEF Balance, UserAcct, PrincipalAcct, FeeAcct, ClearingAcct, EarnedAcct

LEMMA Places ==
  /\ \A u \in User : Place(UserAcct(u)) = 5 + Rank[u]
  /\ \A id \in Agr : Place(PrincipalAcct(id)) = 2
  /\ \A id \in Agr : Place(FeeAcct(id)) = 1
  /\ Place(ClearingAcct) = 4
  /\ Place(EarnedAcct) = 3
  /\ \A acct \in Account : Place(acct) \in Nat
<1>1. /\ \A u \in User : Place(UserAcct(u)) = 5 + Rank[u]
      /\ \A id \in Agr : Place(PrincipalAcct(id)) = 2
      /\ \A id \in Agr : Place(FeeAcct(id)) = 1
      /\ Place(ClearingAcct) = 4
      /\ Place(EarnedAcct) = 3
  BY DEF Place, UserAcct, PrincipalAcct, FeeAcct, ClearingAcct, EarnedAcct
<1> QED
  BY <1>1, TxAssumption DEF Account

\* The postings of one call go to different accounts, at different places.
LEMMA Spread ==
  ASSUME NEW E, \/ \E id \in Agr : E \in {FundEntries(id), RefundEntries(id)}
                \/ \E id \in Agr : \E n \in 0..Principal[id] : E = SettleEntries(id, n)
                \/ \E r \in Ref : E = DepositEntries(r)
  PROVE  /\ E \subseteq Account \X Int
         /\ \A e, f \in E : Place(e[1]) = Place(f[1]) => e = f
<1> USE Accounts, Places
<1>1. ASSUME NEW id \in Agr, E \in {FundEntries(id), RefundEntries(id)}
      PROVE  /\ E \subseteq Account \X Int
             /\ \A e, f \in E : Place(e[1]) = Place(f[1]) => e = f
  BY <1>1, Terms, TxAssumption DEF FundEntries, RefundEntries
<1>2. ASSUME NEW id \in Agr, NEW n \in 0..Principal[id], E = SettleEntries(id, n)
      PROVE  /\ E \subseteq Account \X Int
             /\ \A e, f \in E : Place(e[1]) = Place(f[1]) => e = f
  <2>1. Rank[Buyer[id]] # Rank[Seller[id]]
    BY Terms, TxAssumption
  <2> QED
    BY <1>2, <2>1, Terms, TxAssumption DEF SettleEntries
<1>3. ASSUME NEW r \in Ref, E = DepositEntries(r)
      PROVE  /\ E \subseteq Account \X Int
             /\ \A e, f \in E : Place(e[1]) = Place(f[1]) => e = f
  BY <1>3, LedgerAssumption, TxAssumption DEF DepositEntries
<1> QED
  BY <1>1, <1>2, <1>3

\* What each call plans is of that kind.
LEMMA EntriesShape ==
  ASSUME NEW q \in Calls, q.op \notin NoRowLock, NEW a
  PROVE  /\ Entries(q, a) \subseteq Account \X Int
         /\ \A e, f \in Entries(q, a) : Place(e[1]) = Place(f[1]) => e = f
<1>1. q.op \in {"fund", "accept", "start", "deliver", "dispute", "expire", "release",
                "ruling", "cancel"} /\ q.x \in Agr
  BY CallShape DEF WellMade, NoRowLock, AgrOp
<1>2. CASE q.op = "fund"
  BY <1>1, <1>2, Spread DEF Entries
<1>3. CASE q.op \in {"release", "ruling"}
  <2>1. q.toBuyer \in 0..Principal[q.x]
    BY <1>1, <1>3, CallShape, Terms DEF WellMade
  <2> QED
    BY <1>1, <1>3, <2>1, Spread DEF Entries
<1>4. CASE q.op \notin {"fund", "release", "ruling"}
  <2>1. Entries(q, a) \subseteq RefundEntries(q.x)
    BY <1>1, <1>4 DEF Entries
  <2> QED
    BY <1>1, <2>1, Spread
<1> QED
  BY <1>2, <1>3, <1>4

\* What each call writes is a row.
LEMMA WrittenShape ==
  ASSUME NEW q \in Calls, q.op \notin NoRowLock, NEW a \in Row
  PROVE  Written(q, a) \in Row
<1>1. q.op \in {"fund", "accept", "start", "deliver", "dispute", "expire", "release",
                "ruling", "cancel"}
  BY CallShape DEF WellMade, NoRowLock, AgrOp
<1> QED
  BY <1>1 DEF Written, Row, Status, Terminal, Fundable

\* post() has a next account as long as anything is left to post.
LEMMA NextIs ==
  ASSUME NEW p \in Proc, tx[p].todo \subseteq Account \X Int, tx[p].todo # {}
  PROVE  /\ NextPosting(p) \in tx[p].todo
         /\ \A f \in tx[p].todo : Place(NextPosting(p)[1]) <= Place(f[1])
<1> DEFINE todo == tx[p].todo
           at == {Place(e[1]) : e \in todo}
<1>1. at \subseteq Nat /\ at # {}
  BY Places
<1>2. PICK n \in at : TRUE
  BY <1>1
<1> DEFINE low == {m \in at : m <= n}
           score == [m \in low |-> -m]
<1>3. IsFiniteSet(low) /\ low # {} /\ score \in [low -> Int]
  <2>1. low \subseteq 0..n /\ n \in low
    BY <1>1, <1>2
  <2>2. IsFiniteSet(0..n)
    <3>1. n \in Nat
      BY <1>1, <1>2
    <3> HIDE DEF at
    <3> QED
      BY <3>1, FS_Interval
  <2> QED
    BY <1>1, <2>1, <2>2, FS_Subset
<1> HIDE DEF score
<1>4. PICK m \in low : \A k \in low : score[k] <= score[m]
  BY <1>3, HighestScore
<1>5. \A k \in at : m <= k
  <2>1. \A k \in low : k \in Nat /\ score[k] = -k
    BY <1>1 DEF score
  <2>2. \A k \in low : m <= k
    BY <1>4, <2>1
  <2> QED
    BY <1>1, <1>2, <1>4, <2>2
<1>6. PICK e \in todo : m = Place(e[1])
  BY <1>4
<1>7. \A f \in todo : Place(e[1]) <= Place(f[1])
  BY <1>5, <1>6
<1> QED
  BY <1>6, <1>7 DEF NextPosting

------------------------------------------------------------------------------
\* A connection that is not idle runs a call.
LEMMA Busy ==
  ASSUME TxInv, NEW p \in Proc
  PROVE  /\ tx[p] \in TxState
         /\ tx[p].at # "idle" => tx[p].call \in Calls /\ WellMade(tx[p].call)
         /\ Good(p)
<1>1. tx[p] \in TxState /\ Good(p)
  BY DEF TxInv
<1>2. tx[p].at # "idle" => tx[p].call # Idle.call
  BY <1>1 DEF Good, Course, Idle, Call
<1>3. tx[p].call \in Calls \cup {Idle.call}
  BY <1>1 DEF TxState
<1> QED
  BY <1>1, <1>2, <1>3, CallShape

\* What a transaction relies on and holds is its own, as long as the tables stay.
LEMMA GoodStays ==
  ASSUME NEW q \in Proc, Good(q), tx'[q] = tx[q], UNCHANGED vars
  PROVE  Good(q)'
<1>1. \A u : Invites(u)' = Invites(u)
  BY DEF Invites, vars
<1>2. Course(q)'
  BY DEF Good, Course
<1>3. Reading(q)'
  BY DEF Good, Reading, HoldsRow, Granted, Allowed, Written, Cancels, Entries, vars
<1>4. Fresh(q)'
  BY DEF Good, Fresh, Key, vars
<1>5. Covered(q)'
  BY DEF Good, Covered, Balance, vars, accounts
<1>6. Room(q)'
  BY <1>1 DEF Good, Room
<1> QED
  BY <1>2, <1>3, <1>4, <1>5, <1>6 DEF Good

LEMMA HoldsStay ==
  ASSUME NEW q \in Proc, tx'[q] = tx[q], NEW r
  PROVE  /\ HoldsRow(q, r)' <=> HoldsRow(q, r)
         /\ HoldsOp(q, r)' <=> HoldsOp(q, r)
         /\ HoldsAccount(q, r)' <=> HoldsAccount(q, r)
BY DEF HoldsRow, HoldsOp, HoldsAccount, Key

LEMMA ExclusiveStays ==
  ASSUME NEW q \in Proc, NEW r \in Proc, Exclusive(q, r), tx'[q] = tx[q], tx'[r] = tx[r]
  PROVE  Exclusive(q, r)'
BY HoldsStay DEF Exclusive

\* An idle connection holds no lock and owes nothing.
LEMMA AtRest ==
  ASSUME NEW p \in Proc, tx'[p] = Idle
  PROVE  /\ Good(p)'
         /\ \A q \in Proc : Exclusive(p, q)' /\ Exclusive(q, p)'
<1>1. tx'[p].at = "idle" /\ tx'[p].plan = {} /\ tx'[p].todo = {}
  BY DEF Idle
<1>2. ASSUME NEW r
      PROVE  ~HoldsRow(p, r)' /\ ~HoldsOp(p, r)' /\ ~HoldsAccount(p, r)'
  BY <1>1 DEF HoldsRow, HoldsOp, HoldsAccount
<1>3. Good(p)'
  BY <1>1 DEF Good, Course, Reading, Fresh, Covered, Room, HoldsRow, Idle, Call
<1> QED
  BY <1>2, <1>3 DEF Exclusive

\* A statement that writes no table changes nothing for the other connections,
\* and keeps the locks apart if it takes none that another holds.
LEMMA LocalStep ==
  ASSUME TxInv, NEW p \in Proc, NEW t \in TxState, tx' = [tx EXCEPT ![p] = t],
         UNCHANGED vars, due' \subseteq Agr, Good(p)',
         \A q \in Proc \ {p} :
           /\ \A id \in Agr : HoldsRow(p, id)' => HoldsRow(p, id) \/ ~HoldsRow(q, id)
           /\ \A key \in OpId : HoldsOp(p, key)' => HoldsOp(p, key) \/ ~HoldsOp(q, key)
           /\ \A acct \in Account :
                HoldsAccount(p, acct)' => HoldsAccount(p, acct) \/ ~HoldsAccount(q, acct)
  PROVE  TxInv'
<1>1. tx' \in [Proc -> TxState] /\ \A q \in Proc \ {p} : tx'[q] = tx[q]
  BY DEF TxInv
<1>2. TypeOK' /\ Created'
  BY DEF TxInv, TypeOK, Created, vars, accounts
<1>3. \A q \in Proc \ {p} : Good(q)'
  BY <1>1, GoodStays DEF TxInv
<1>4. ASSUME NEW q \in Proc \ {p}
      PROVE  Exclusive(p, q)' /\ Exclusive(q, p)'
  <2>1. Exclusive(p, q) /\ Exclusive(q, p)
    BY DEF TxInv
  <2> QED
    BY <1>1, <2>1, HoldsStay DEF Exclusive
<1>5. \A q, r \in Proc \ {p} : q # r => Exclusive(q, r)'
  BY <1>1, ExclusiveStays DEF TxInv
<1> QED
  BY <1>1, <1>2, <1>3, <1>4, <1>5 DEF TxInv

LEMMA IdleType == Idle \in TxState
BY DEF Idle, TxState, Statements, Row, NoRow, Status

\* A transaction that ends without writing gives back its locks.
LEMMA RollbackKeeps ==
  ASSUME TxInv, NEW p \in Proc, tx' = [tx EXCEPT ![p] = Idle], UNCHANGED vars, due' \subseteq Agr
  PROVE  TxInv'
<1>1. tx' \in [Proc -> TxState] /\ tx'[p] = Idle /\ \A q \in Proc \ {p} : tx'[q] = tx[q]
  BY IdleType DEF TxInv
<1>2. TypeOK' /\ Created'
  BY DEF TxInv, TypeOK, Created, vars, accounts
<1>3. \A q \in Proc \ {p} : Good(q)'
  BY <1>1, GoodStays DEF TxInv
<1>4. \A q, r \in Proc \ {p} : q # r => Exclusive(q, r)'
  BY <1>1, ExclusiveStays DEF TxInv
<1> QED
  BY <1>1, <1>2, <1>3, <1>4, AtRest DEF TxInv

\* A connection begins a call.
LEMMA BeginKeeps ==
  ASSUME TxInv, NEW p \in Proc, NEW q \in Calls, Begin(p, q)
  PROVE  TxInv'
<1> DEFINE t == [Idle EXCEPT !.call = q, !.at = IF q.op \in NoRowLock THEN "op" ELSE "row"]
<1>1. tx' = [tx EXCEPT ![p] = t] /\ UNCHANGED vars /\ due' \subseteq Agr
  BY DEF Begin, Set, TxInv
<1>2. t \in TxState
  BY DEF Idle, TxState, Statements, Row, NoRow, Status
<1>3. /\ tx'[p].at = IF q.op \in NoRowLock THEN "op" ELSE "row"
      /\ tx'[p].call = q /\ tx'[p].plan = {} /\ tx'[p].todo = {}
  BY <1>1 DEF TxInv, Idle
<1> HIDE DEF t
<1>4. q.op # "none"
  BY CallShape DEF WellMade, AgrOp
<1>5. ASSUME NEW r
      PROVE  ~HoldsRow(p, r)' /\ ~HoldsOp(p, r)' /\ ~HoldsAccount(p, r)'
  BY <1>3 DEF HoldsRow, HoldsOp, HoldsAccount
<1>6. Good(p)'
  BY <1>3, <1>4, <1>5 DEF Good, Course, Reading, Fresh, Covered, Room, NoRowLock
<1> QED
  BY <1>1, <1>2, <1>5, <1>6, LocalStep

\* What it takes to run a statement, told lock by lock.
LEMMA Free ==
  ASSUME NEW p \in Proc, NEW at, Runs(p, at), NEW q \in Proc \ {p}
  PROVE  /\ tx[p].at = at
         /\ at = "row" => ~HoldsRow(q, tx[p].call.x)
         /\ at = "op" => ~HoldsOp(q, Key(tx[p].call))
         /\ at = "post" /\ tx[p].todo # {} => ~HoldsAccount(q, NextPosting(p)[1])
         /\ at = "count" => ~HoldsAccount(q, UserAcct(tx[p].call.actor))
BY DEF Runs, Waits

\* load() reads the row under its lock.
LEMMA LockRowKeeps ==
  ASSUME TxInv, NEW p \in Proc, LockRow(p)
  PROVE  TxInv'
<1> DEFINE id == tx[p].call.x
           t == [tx[p] EXCEPT !.at = "op", !.row = agreements[id]]
<1>1. tx[p].at = "row" /\ tx[p] \in TxState /\ Good(p) /\ id \in Agr
  BY Busy DEF LockRow, Runs, Good, Course, WellMade, NoRowLock
<1>2. CASE agreements[id].status = "ABSENT"
  BY <1>2, RollbackKeeps DEF LockRow, Refuse, Rollback, Set, TxInv
<1>3. CASE agreements[id].status # "ABSENT"
  <2>1. tx' = [tx EXCEPT ![p] = t] /\ UNCHANGED vars /\ due' \subseteq Agr
    BY <1>3 DEF LockRow, Set, TxInv
  <2>2. t \in TxState
    BY <1>1 DEF TxState, TxInv, TypeOK, Statements
  <2>3. /\ tx'[p].at = "op" /\ tx'[p].call = tx[p].call /\ tx'[p].row = agreements[id]
        /\ tx'[p].plan = {} /\ tx'[p].todo = {}
    BY <1>1, <2>1 DEF TxInv, TxState, Good, Course
  <2> HIDE DEF t
  <2>4. Good(p)'
    BY <1>1, <1>3, <2>1, <2>3 DEF Good, Course, Reading, Fresh, Covered, Room, NoRowLock, vars
  <2>5. ASSUME NEW r
        PROVE  /\ HoldsRow(p, r)' => r = id
               /\ ~HoldsOp(p, r)' /\ ~HoldsAccount(p, r)'
    BY <2>3 DEF HoldsRow, HoldsOp, HoldsAccount
  <2>6. \A q \in Proc \ {p} : ~HoldsRow(q, id)
    BY Free DEF LockRow
  <2> QED
    BY <2>1, <2>2, <2>4, <2>5, <2>6, LocalStep
<1> QED
  BY <1>2, <1>3

\* run() of an operation on the row that was read: what the guard granted is
\* what the transaction goes on with.
LEMMA DecideKeeps ==
  ASSUME TxInv, NEW p \in Proc, Decide(p), tx[p].at \in {"op", "seller"},
         tx[p].call.op \notin {"create", "paystack"},
         Key(tx[p].call) \notin ops, \A q \in Proc \ {p} : ~HoldsOp(q, Key(tx[p].call))
  PROVE  TxInv'
<1> DEFINE q == tx[p].call
           a == tx[p].row
           t == [tx[p] EXCEPT !.at = "post", !.row = Written(q, a),
                              !.plan = Entries(q, a), !.todo = Entries(q, a)]
<1>1. tx[p] \in TxState /\ Good(p) /\ q \in Calls /\ WellMade(q) /\ q.op \notin NoRowLock
  BY Busy DEF Good, Course, NoRowLock
<1>2. a = agreements[q.x] /\ a.status # "ABSENT" /\ HoldsRow(p, q.x) /\ a \in Row
  BY <1>1 DEF Good, Reading, HoldsRow, TxState
<1>3. CASE ~Allowed(q, a)
  BY <1>3, RollbackKeeps DEF Decide, Refuse, Rollback, Set, TxInv
<1>4. CASE Allowed(q, a)
  <2>1. tx' = [tx EXCEPT ![p] = t] /\ UNCHANGED vars /\ due' \subseteq Agr
    BY <1>4 DEF Decide, Set, TxInv
  <2>2. t \in TxState
    BY <1>1, <1>2, EntriesShape, WrittenShape DEF TxState, Statements
  <2>3. /\ tx'[p].at = "post" /\ tx'[p].call = tx[p].call /\ tx'[p].row = Written(q, a)
        /\ tx'[p].plan = Entries(q, a) /\ tx'[p].todo = Entries(q, a)
    BY <1>1, <2>1 DEF TxInv, TxState
  <2> HIDE DEF t
  <2>4. Granted(q, a)
    BY <1>4 DEF Granted, Allowed
  <2>5. Reading(p)'
    <3>1. /\ agreements' = agreements /\ consents' = consents /\ lapsed' = lapsed
          /\ agreements[q.x].status # "ABSENT" /\ a = agreements[q.x]
      BY <1>2, <2>1 DEF vars
    <3>2. /\ tx'[p].call = q /\ tx'[p].at = "post"
          /\ Granted(q, agreements'[q.x])
          /\ tx'[p].row = Written(q, agreements'[q.x])
          /\ tx'[p].plan = Entries(q, agreements'[q.x])
      BY <2>3, <2>4, <3>1
    <3> HIDE DEF q, a
    <3> QED
      BY <3>1, <3>2 DEF Reading, Granted, Allowed, Written, Cancels, Entries
  <2>6. Course(p)' /\ Fresh(p)' /\ Covered(p)' /\ Room(p)'
    BY <1>1, <2>1, <2>3 DEF Good, Course, Fresh, Covered, Room, NoRowLock, Key, vars
  <2>7. ASSUME NEW r
        PROVE  /\ HoldsRow(p, r)' => HoldsRow(p, r)
               /\ HoldsOp(p, r)' => r = Key(q)
               /\ ~HoldsAccount(p, r)'
    BY <1>1, <2>3 DEF HoldsRow, HoldsOp, HoldsAccount, Key
  <2> QED
    BY <2>1, <2>2, <2>5, <2>6, <2>7, LocalStep DEF Good
<1> QED
  BY <1>3, <1>4

\* operation() claims the id of the call, unless it is there.
LEMMA InsertOpKeeps ==
  ASSUME TxInv, NEW p \in Proc, InsertOp(p)
  PROVE  TxInv'
<1> DEFINE q == tx[p].call
<1>1. /\ tx[p].at = "op" /\ tx[p] \in TxState /\ Good(p) /\ q \in Calls /\ WellMade(q)
      /\ \A r \in Proc \ {p} : ~HoldsOp(r, Key(q))
      /\ tx[p].plan = {} /\ tx[p].todo = {}
  BY Busy, Free DEF InsertOp, Runs, Good, Course
<1>2. CASE Key(q) \in ops
  BY <1>2, RollbackKeeps DEF InsertOp, Refuse, Rollback, Set, TxInv
<1>3. CASE Key(q) \notin ops /\ q.op = "create"
  <2> DEFINE t == [tx[p] EXCEPT !.at = "count"]
  <2>1. tx' = [tx EXCEPT ![p] = t] /\ UNCHANGED vars /\ due' \subseteq Agr
    BY <1>3 DEF InsertOp, Set, TxInv
  <2>2. t \in TxState
    BY <1>1 DEF TxState, Statements
  <2>3. /\ tx'[p].at = "count" /\ tx'[p].call = q /\ tx'[p].plan = {} /\ tx'[p].todo = {}
    BY <1>1, <2>1 DEF TxInv, TxState
  <2> HIDE DEF t
  <2>4. Good(p)'
    BY <1>3, <2>1, <2>3
       DEF Good, Course, Reading, HoldsRow, Fresh, Covered, Room, NoRowLock, Key, vars
  <2>5. ASSUME NEW r
        PROVE  ~HoldsRow(p, r)' /\ (HoldsOp(p, r)' => r = Key(q)) /\ ~HoldsAccount(p, r)'
    BY <2>3 DEF HoldsRow, HoldsOp, HoldsAccount, Key
  <2> QED
    BY <1>1, <2>1, <2>2, <2>4, <2>5, LocalStep
<1>4. CASE Key(q) \notin ops /\ q.op = "paystack"
  <2> DEFINE t == [tx[p] EXCEPT !.at = "post", !.plan = DepositEntries(q.x),
                                !.todo = DepositEntries(q.x)]
  <2>1. tx' = [tx EXCEPT ![p] = t] /\ UNCHANGED vars /\ due' \subseteq Agr
    BY <1>4 DEF InsertOp, Set, TxInv
  <2>2. t \in TxState
    <3>1. DepositEntries(q.x) \subseteq Account \X Int
      BY <1>1, <1>4, Spread DEF WellMade
    <3> QED
      BY <1>1, <3>1 DEF TxState, Statements
  <2>3. /\ tx'[p].at = "post" /\ tx'[p].call = q
        /\ tx'[p].plan = DepositEntries(q.x) /\ tx'[p].todo = DepositEntries(q.x)
    BY <1>1, <2>1 DEF TxInv, TxState
  <2> HIDE DEF t
  <2>4. Good(p)'
    BY <1>4, <2>1, <2>3
       DEF Good, Course, Reading, HoldsRow, Fresh, Covered, Room, NoRowLock, Key, vars
  <2>5. ASSUME NEW r
        PROVE  ~HoldsRow(p, r)' /\ (HoldsOp(p, r)' => r = Key(q)) /\ ~HoldsAccount(p, r)'
    BY <1>4, <2>3 DEF HoldsRow, HoldsOp, HoldsAccount, Key, NoRowLock
  <2> QED
    BY <1>1, <2>1, <2>2, <2>4, <2>5, LocalStep
<1>5. CASE Key(q) \notin ops /\ q.op = "accept" /\ Allowed(q, tx[p].row)
  <2> DEFINE t == [tx[p] EXCEPT !.at = "seller"]
  <2>1. tx' = [tx EXCEPT ![p] = t] /\ UNCHANGED vars /\ due' \subseteq Agr
    BY <1>5 DEF InsertOp, Set, TxInv
  <2>2. t \in TxState
    BY <1>1 DEF TxState, Statements
  <2>3. /\ tx'[p].at = "seller" /\ tx'[p].call = q /\ tx'[p].row = tx[p].row
        /\ tx'[p].plan = {} /\ tx'[p].todo = {}
    BY <1>1, <2>1 DEF TxInv, TxState
  <2> HIDE DEF t
  <2>4. Good(p)'
    BY <1>1, <1>5, <2>1, <2>3
       DEF Good, Course, Reading, HoldsRow, Fresh, Covered, Room, NoRowLock, Key, vars
  <2>5. ASSUME NEW r
        PROVE  /\ HoldsRow(p, r)' => HoldsRow(p, r)
               /\ HoldsOp(p, r)' => r = Key(q)
               /\ ~HoldsAccount(p, r)'
    BY <1>1, <2>3 DEF HoldsRow, HoldsOp, HoldsAccount, Key
  <2> QED
    BY <1>1, <2>1, <2>2, <2>4, <2>5, LocalStep
<1>6. CASE /\ Key(q) \notin ops /\ q.op \notin {"create", "paystack"}
           /\ ~(q.op = "accept" /\ Allowed(q, tx[p].row))
  <2>1. Decide(p)
    BY <1>6 DEF InsertOp
  <2> QED
    BY <1>1, <1>6, <2>1, DecideKeeps
<1> QED
  BY <1>2, <1>3, <1>4, <1>5, <1>6

\* accept looks at the row it read once more when the seller turns out eligible.
LEMMA SellerKeeps ==
  ASSUME TxInv, NEW p \in Proc, SellerEligible(p)
  PROVE  TxInv'
<1> DEFINE q == tx[p].call
<1>1. /\ tx[p].at = "seller" /\ Good(p) /\ Decide(p) /\ q.op = "accept" /\ Key(q) \in OpId
  BY Busy DEF SellerEligible, Runs, Good, Course, WellMade
<1>2. Key(q) \notin ops
  BY <1>1 DEF Good, Fresh
<1>3. \A r \in Proc \ {p} : ~HoldsOp(r, Key(q))
  <2>1. HoldsOp(p, Key(q))
    BY <1>1 DEF HoldsOp
  <2> QED
    BY <1>1, <2>1 DEF TxInv, Exclusive
<1> QED
  BY <1>1, <1>2, <1>3, DecideKeeps

\* No two postings of one call share a place.
LEMMA PlanShape ==
  ASSUME TxInv, NEW p \in Proc, tx[p].at = "post"
  PROVE  /\ tx[p].plan \subseteq Account \X Int
         /\ \A e, f \in tx[p].plan : Place(e[1]) = Place(f[1]) => e = f
<1> DEFINE q == tx[p].call
<1>1. Good(p) /\ q \in Calls /\ WellMade(q)
  BY Busy
<1>2. CASE q.op = "paystack"
  <2>1. tx[p].plan = DepositEntries(q.x) /\ q.x \in Ref
    BY <1>1, <1>2 DEF Good, Course, WellMade
  <2> QED
    BY <2>1, Spread
<1>3. CASE q.op # "paystack"
  <2>1. q.op \notin NoRowLock
    BY <1>1, <1>3 DEF Good, Course, NoRowLock
  <2>2. tx[p].plan = Entries(q, agreements[q.x])
    BY <1>1, <2>1 DEF Good, Reading, HoldsRow
  <2> QED
    BY <1>1, <2>1, <2>2, EntriesShape
<1> QED
  BY <1>2, <1>3

\* post() locks the next account, and what it posts there stays covered.
LEMMA PostKeeps ==
  ASSUME TxInv, NEW p \in Proc, Post(p)
  PROVE  TxInv'
<1> DEFINE q == tx[p].call
           e == NextPosting(p)
           t == [tx[p] EXCEPT !.todo = @ \ {e}]
<1>1. /\ tx[p].at = "post" /\ tx[p].todo # {} /\ tx[p] \in TxState /\ Good(p)
      /\ \A r \in Proc \ {p} : ~HoldsAccount(r, e[1])
  BY Busy, Free DEF Post, Runs
<1>2. tx[p].todo \subseteq tx[p].plan /\ tx[p].todo \subseteq Account \X Int
  BY <1>1 DEF TxState, Good, Course
<1>3. e \in tx[p].todo /\ \A f \in tx[p].todo : Place(e[1]) <= Place(f[1])
  BY <1>1, <1>2, NextIs
<1> HIDE DEF e
<1>4. CASE e[1] # ClearingAcct /\ Balance(e[1]) + e[2] < 0
  BY <1>4, RollbackKeeps DEF Post, Rollback, Set, TxInv, e
<1>5. CASE ~(e[1] # ClearingAcct /\ Balance(e[1]) + e[2] < 0)
  <2>1. tx' = [tx EXCEPT ![p] = t] /\ UNCHANGED vars /\ due' \subseteq Agr
    BY <1>5 DEF Post, Set, TxInv, e
  <2>2. t \in TxState
    BY <1>1 DEF TxState
  <2>3. /\ tx'[p].at = "post" /\ tx'[p].call = tx[p].call /\ tx'[p].row = tx[p].row
        /\ tx'[p].plan = tx[p].plan /\ tx'[p].todo = tx[p].todo \ {e}
    BY <1>1, <2>1 DEF TxInv, TxState
  <2> HIDE DEF t
  <2>4. Reading(p)'
    BY <1>1, <2>1, <2>3
       DEF Good, Reading, HoldsRow, Granted, Allowed, Written, Cancels, Entries, vars
  <2>5. Course(p)' /\ Fresh(p)' /\ Room(p)'
    BY <1>1, <2>1, <2>3 DEF Good, Course, Fresh, Room, Key, vars
  <2>6. e[1] = ClearingAcct \/ Balance(e[1]) + e[2] >= 0
    <3>1. e \in Account \X Int
      BY <1>2, <1>3
    <3>2. Balance(e[1]) \in Int
      BY <3>1, Balances DEF TxInv, TypeOK, Account
    <3> QED
      BY <1>5, <3>1, <3>2
  <2>7. \A f \in tx[p].todo \ {e} : Place(e[1]) < Place(f[1])
    <3>1. \A f \in tx[p].todo \ {e} : Place(e[1]) # Place(f[1])
      BY <1>1, <1>2, <1>3, PlanShape
    <3>2. \A f \in tx[p].todo : Place(f[1]) \in Nat
      BY <1>2, Places
    <3> QED
      BY <1>3, <3>1, <3>2
  <2>8. Covered(p)'
    <3>1. \A f \in tx[p].plan \ tx'[p].todo : f \in tx[p].plan \ tx[p].todo \/ f = e
      BY <2>3
    <3>2. \A acct : Balance(acct)' = Balance(acct)
      BY <2>1 DEF Balance, vars, accounts
    <3> QED
      BY <1>1, <2>3, <2>6, <2>7, <3>1, <3>2 DEF Good, Covered
  <2>9. ASSUME NEW r
        PROVE  /\ HoldsRow(p, r)' => HoldsRow(p, r)
               /\ HoldsOp(p, r)' => HoldsOp(p, r)
               /\ HoldsAccount(p, r)' => HoldsAccount(p, r) \/ r = e[1]
    BY <1>1, <2>3 DEF HoldsRow, HoldsOp, HoldsAccount, Key
  <2> QED
    BY <1>1, <2>1, <2>2, <2>4, <2>5, <2>8, <2>9, LocalStep DEF Good
<1> QED
  BY <1>4, <1>5

\* create() counts the invites under the lock of the buyer's account.
LEMMA CountKeeps ==
  ASSUME TxInv, NEW p \in Proc, CountInvites(p)
  PROVE  TxInv'
<1> DEFINE q == tx[p].call
           row == [NoRow EXCEPT !.status = IF q.eligible THEN "PENDING_PAYMENT"
                                           ELSE "DRAFT_PENDING_SELLER_KYC"]
           t == [tx[p] EXCEPT !.at = "insert", !.row = row]
<1>1. /\ tx[p].at = "count" /\ tx[p] \in TxState /\ Good(p) /\ q.op = "create"
      /\ \A r \in Proc \ {p} : ~HoldsAccount(r, UserAcct(q.actor))
      /\ tx[p].plan = {} /\ tx[p].todo = {}
  BY Busy, Free DEF CountInvites, Runs, Good, Course
<1>2. CASE Cardinality(Invites(q.actor)) >= MaxInvites
  BY <1>2, RollbackKeeps DEF CountInvites, Refuse, Rollback, Set, TxInv
<1>3. CASE ~(Cardinality(Invites(q.actor)) >= MaxInvites)
  <2>1. tx' = [tx EXCEPT ![p] = t] /\ UNCHANGED vars /\ due' \subseteq Agr
    BY <1>3 DEF CountInvites, Set, TxInv
  <2>2. t \in TxState
    <3>1. row \in Row
      BY NoRowType, RowWith, StatusNames
    <3> HIDE DEF row
    <3> QED
      BY <1>1, <3>1 DEF TxState, Statements
  <2>3. /\ tx'[p].at = "insert" /\ tx'[p].call = q /\ tx'[p].row = row
        /\ tx'[p].plan = {} /\ tx'[p].todo = {}
    BY <1>1, <2>1 DEF TxInv, TxState
  <2> HIDE DEF t
  <2>4. Cardinality(Invites(q.actor)) < MaxInvites
    <3>1. IsFiniteSet(Invites(q.actor))
      BY LedgerAssumption, FS_Subset DEF Invites
    <3>2. Cardinality(Invites(q.actor)) \in Nat /\ MaxInvites \in Nat
      BY <3>1, FS_CardinalityType, LedgerAssumption
    <3> QED
      BY <1>3, <3>2
  <2>5. \A u : Invites(u)' = Invites(u)
    BY <2>1 DEF Invites, vars
  <2>6. Room(p)'
    BY <2>3, <2>4, <2>5 DEF Room
  <2>7. Course(p)' /\ Fresh(p)' /\ Covered(p)' /\ Reading(p)'
    BY <1>1, <2>1, <2>3
       DEF Good, Course, Fresh, Covered, Reading, HoldsRow, NoRowLock, Key, vars
  <2>8. ASSUME NEW r
        PROVE  /\ ~HoldsRow(p, r)'
               /\ HoldsOp(p, r)' => HoldsOp(p, r)
               /\ HoldsAccount(p, r)' => r = UserAcct(q.actor)
    BY <1>1, <2>3 DEF HoldsRow, HoldsOp, HoldsAccount, Key
  <2> QED
    BY <1>1, <2>1, <2>2, <2>6, <2>7, <2>8, LocalStep DEF Good
<1> QED
  BY <1>2, <1>3

\* The sweep's reading touches no transaction.
LEMMA SweepKeeps ==
  ASSUME TxInv, UNCHANGED <<vars, tx>>, due' \subseteq Agr
  PROVE  TxInv'
<1>1. TypeOK' /\ Created' /\ tx' \in [Proc -> TxState]
  BY DEF TxInv, TypeOK, Created, vars, accounts
<1>2. \A q \in Proc : Good(q)'
  BY GoodStays DEF TxInv
<1>3. \A q, r \in Proc : q # r => Exclusive(q, r)'
  BY ExclusiveStays DEF TxInv
<1> QED
  BY <1>1, <1>2, <1>3 DEF TxInv

\* The clock takes nothing back that was granted.
LEMMA TickKeeps ==
  ASSUME TxInv, NEW id \in Agr, Tick(id)
  PROVE  TxInv'
<1>1. /\ lapsed' = [lapsed EXCEPT ![id] = TRUE]
      /\ UNCHANGED <<agreements, consents, accounts, ops, tx, due>>
  BY DEF Tick, ClockPasses
<1>2. TypeOK' /\ Created' /\ tx' \in [Proc -> TxState] /\ due' \subseteq Agr
  BY <1>1 DEF TxInv, TypeOK, Created, accounts
<1>3. ASSUME NEW q \in Proc
      PROVE  Good(q)'
  <2>1. Good(q) /\ \A i \in Agr : lapsed[i] => lapsed'[i]
    BY <1>1 DEF TxInv, TypeOK
  <2>2. \A u : Invites(u)' = Invites(u)
    BY <1>1 DEF Invites
  <2>3. Course(q)' /\ Fresh(q)'
    BY <1>1, <2>1 DEF Good, Course, Fresh, Key
  <2>4. Covered(q)'
    BY <1>1, <2>1 DEF Good, Covered, Balance, accounts
  <2>5. Room(q)'
    BY <1>1, <2>1, <2>2 DEF Good, Room
  <2>6. Reading(q)'
    <3>1. SUFFICES ASSUME HoldsRow(q, tx[q].call.x) PROVE Reading(q)'
      BY <1>1 DEF Reading, HoldsRow
    <3>2. /\ tx[q].call.x \in Agr
          /\ tx[q].call.op \in {"fund", "accept", "start", "deliver", "dispute", "expire",
                                "release", "ruling", "cancel"}
      BY <3>1, Busy DEF HoldsRow, WellMade, NoRowLock, AgrOp
    <3>3. /\ Written(tx[q].call, agreements[tx[q].call.x])'
               = Written(tx[q].call, agreements[tx[q].call.x])
          /\ Entries(tx[q].call, agreements[tx[q].call.x])'
               = Entries(tx[q].call, agreements[tx[q].call.x])
      BY <1>1 DEF Written, Entries, Cancels
    <3>4. Granted(tx[q].call, agreements[tx[q].call.x])
            => Granted(tx[q].call, agreements[tx[q].call.x])'
      BY <1>1, <2>1, <3>2 DEF Granted, Allowed
    <3> QED
      BY <1>1, <2>1, <3>1, <3>3, <3>4 DEF Good, Reading, HoldsRow
  <2> QED
    BY <2>3, <2>4, <2>5, <2>6 DEF Good
<1>4. \A q, r \in Proc : q # r => Exclusive(q, r)'
  BY <1>1, ExclusiveStays DEF TxInv
<1> QED
  BY <1>2, <1>3, <1>4 DEF TxInv

\* What a transaction posted to an account it held, and left it covered.
LEMMA Deltas ==
  ASSUME TxInv, NEW p \in Proc, tx[p].todo = {}, NEW acct \in Account
  PROVE  /\ Delta(p, acct) \in Int
         /\ ~HoldsAccount(p, acct) => Delta(p, acct) = 0
         /\ acct # ClearingAcct => Balance(acct) + Delta(p, acct) >= 0
<1> DEFINE mine == {e \in tx[p].plan : e[1] = acct}
           e == CHOOSE f \in mine : TRUE
<1>1. tx[p] \in TxState /\ Good(p) /\ Balance(acct) \in Int
      /\ (acct # ClearingAcct => Balance(acct) \in Nat)
  BY Busy, Balances DEF TxInv, TypeOK, Account
<1>2. CASE mine = {}
  BY <1>1, <1>2 DEF Delta
<1>3. CASE mine # {}
  <2>1. e \in mine /\ Delta(p, acct) = e[2]
    BY <1>3 DEF Delta
  <2> HIDE DEF e
  <2>2. e \in tx[p].plan \ tx[p].todo /\ e[1] = acct /\ e[2] \in Int
    BY <1>1, <2>1 DEF TxState
  <2> QED
    BY <1>1, <2>1, <2>2 DEF Good, Covered, HoldsAccount
<1> QED
  BY <1>2, <1>3

\* No call turns an agreement into an invite that was none.
LEMMA WrittenInvite ==
  ASSUME NEW q \in Calls, q.op \notin NoRowLock, NEW a \in Row, a.status # "ABSENT",
         Granted(q, a)
  PROVE  /\ Written(q, a).status # "ABSENT"
         /\ ~Written(q, a).accepted /\ Written(q, a).status \notin Terminal
              => ~a.accepted /\ a.status \notin Terminal
<1>1. q.op \in {"fund", "accept", "start", "deliver", "dispute", "expire", "release",
                "ruling", "cancel"}
  BY CallShape DEF WellMade, NoRowLock, AgrOp
<1> QED
  BY <1>1 DEF Written, Granted, Allowed, Row, Terminal, Fundable

\* What stands when a transaction commits.
LEMMA Ready ==
  ASSUME TxInv, NEW p \in Proc, Commit(p)
  PROVE  /\ tx[p].call \in Calls /\ WellMade(tx[p].call) /\ tx[p] \in TxState /\ Good(p)
         /\ tx[p].todo = {}
         /\ HoldsOp(p, Key(tx[p].call)) /\ Key(tx[p].call) \notin ops
         /\ tx[p].call.op = "create" =>
              /\ tx[p].at = "insert"
              /\ agreements[tx[p].call.x].status = "ABSENT"
              /\ HoldsAccount(p, UserAcct(tx[p].call.actor))
         /\ tx[p].call.op \notin {"create", "paystack"} =>
              /\ tx[p].at = "post" /\ HoldsRow(p, tx[p].call.x)
              /\ agreements[tx[p].call.x] \in Row
              /\ agreements[tx[p].call.x].status # "ABSENT"
              /\ Granted(tx[p].call, agreements[tx[p].call.x])
              /\ tx[p].row = Written(tx[p].call, agreements[tx[p].call.x])
              /\ tx[p].plan = Entries(tx[p].call, agreements[tx[p].call.x])
         /\ tx[p].call.op = "paystack" => tx[p].plan = DepositEntries(tx[p].call.x)
<1> DEFINE q == tx[p].call
<1>1. tx[p].at \in {"insert", "post"} /\ (tx[p].at = "post" => tx[p].todo = {})
  BY DEF Commit
<1>2. q \in Calls /\ WellMade(q) /\ tx[p] \in TxState /\ Good(p)
  BY <1>1, Busy
<1>3. tx[p].todo = {}
  BY <1>1, <1>2 DEF Good, Course
<1>4. HoldsOp(p, Key(q)) /\ Key(q) \notin ops
  BY <1>1, <1>2 DEF Good, Fresh, HoldsOp
<1>5. CASE q.op = "create"
  <2>1. tx[p].at = "insert"
    BY <1>1, <1>2, <1>5 DEF Good, Course
  <2>2. q.x \in Agr /\ Key(q) = <<"create", q.x>>
    BY <1>2, <1>5 DEF WellMade, Key
  <2>3. agreements[q.x].status = "ABSENT"
    BY <1>4, <2>2 DEF TxInv, Created
  <2> QED
    BY <1>2, <1>3, <1>4, <1>5, <2>1, <2>3 DEF HoldsAccount
<1>6. CASE q.op \notin {"create", "paystack"}
  <2>1. tx[p].at = "post"
    BY <1>1, <1>2, <1>6 DEF Good, Course
  <2>2. HoldsRow(p, q.x)
    BY <1>2, <1>6, <2>1 DEF HoldsRow, NoRowLock, Good, Course
  <2>3. agreements[q.x] \in Row
    BY <1>2, <1>6 DEF WellMade, TxInv, TypeOK
  <2> QED
    BY <1>2, <1>3, <1>4, <1>6, <2>1, <2>2, <2>3 DEF Good, Reading
<1>7. CASE q.op = "paystack"
  BY <1>1, <1>2, <1>3, <1>4, <1>7 DEF Good, Course
<1> QED
  BY <1>5, <1>6, <1>7

\* COMMIT moves the balances by what was posted.
LEMMA Moved ==
  ASSUME TxInv, NEW p \in Proc, Commit(p), NEW acct \in Account
  PROVE  Balance(acct)' = Balance(acct) + Delta(p, acct)
<1>1. /\ \A u \in User : available'[u] = available[u] + Delta(p, UserAcct(u))
      /\ \A id \in Agr : principal'[id] = principal[id] + Delta(p, PrincipalAcct(id))
      /\ \A id \in Agr : pendingFee'[id] = pendingFee[id] + Delta(p, FeeAcct(id))
      /\ clearing' = clearing + Delta(p, ClearingAcct)
      /\ earnedFees' = earnedFees + Delta(p, EarnedAcct)
  BY DEF Commit
<1>2. CASE \E u \in User : acct = UserAcct(u)
  BY <1>1, <1>2 DEF Balance, UserAcct
<1>3. CASE \E id \in Agr : acct = PrincipalAcct(id)
  BY <1>1, <1>3 DEF Balance, PrincipalAcct
<1>4. CASE \E id \in Agr : acct = FeeAcct(id)
  BY <1>1, <1>4 DEF Balance, FeeAcct
<1>5. CASE acct = ClearingAcct
  BY <1>1, <1>5 DEF Balance, ClearingAcct
<1>6. CASE acct = EarnedAcct
  BY <1>1, <1>6 DEF Balance, EarnedAcct
<1> QED
  BY <1>2, <1>3, <1>4, <1>5, <1>6 DEF Account

\* COMMIT leaves the tables well typed.
LEMMA CommitType ==
  ASSUME TxInv, NEW p \in Proc, Commit(p)
  PROVE  TypeOK' /\ Created'
<1> DEFINE q == tx[p].call
<1>1. /\ WellMade(q) /\ tx[p] \in TxState /\ tx[p].todo = {} /\ TypeOK /\ Created
      /\ q.op # "paystack" => q.x \in Agr
  BY Ready DEF TxInv, WellMade
<1>2. /\ \A u \in User : Delta(p, UserAcct(u)) \in Int /\ available[u] + Delta(p, UserAcct(u)) >= 0
      /\ \A id \in Agr : /\ Delta(p, PrincipalAcct(id)) \in Int
                         /\ principal[id] + Delta(p, PrincipalAcct(id)) >= 0
                         /\ Delta(p, FeeAcct(id)) \in Int
                         /\ pendingFee[id] + Delta(p, FeeAcct(id)) >= 0
      /\ Delta(p, ClearingAcct) \in Int
      /\ Delta(p, EarnedAcct) \in Int /\ earnedFees + Delta(p, EarnedAcct) >= 0
  BY <1>1, Deltas, Accounts, Balances
<1>3. /\ available' \in [User -> Nat] /\ principal' \in [Agr -> Nat] /\ pendingFee' \in [Agr -> Nat]
      /\ clearing' \in Int /\ earnedFees' \in Nat
  BY <1>1, <1>2 DEF Commit, TypeOK
<1>4. agreements' \in [Agr -> Row]
  BY <1>1 DEF Commit, TypeOK, TxState
<1>5. consents' \in [Agr -> SUBSET User]
  <2>1. CASE q.op = "start"
    BY <1>1, <2>1 DEF Commit, TypeOK
  <2>2. CASE q.op = "cancel"
    <3>1. q.x \in Agr /\ q.actor \in User
      BY <1>1, <2>2, Terms DEF WellMade
    <3> QED
      BY <1>1, <2>2, <3>1 DEF Commit, TypeOK
  <2>3. CASE q.op \notin {"start", "cancel"}
    BY <1>1, <2>3 DEF Commit, TypeOK
  <2> QED
    BY <2>1, <2>2, <2>3
<1>6. ops' \subseteq OpId /\ lapsed' \in [Agr -> BOOLEAN] /\ ops \subseteq ops' /\ Key(q) \in ops'
  BY <1>1 DEF Commit, TypeOK, WellMade
<1>7. Created'
  <2> SUFFICES ASSUME NEW id \in Agr, agreements'[id].status # "ABSENT"
               PROVE  <<"create", id>> \in ops'
    BY DEF Created
  <2>1. CASE agreements'[id] = agreements[id]
    BY <1>1, <1>6, <2>1 DEF Created
  <2>2. CASE agreements'[id] # agreements[id]
    <3>1. q.op # "paystack" /\ id = q.x
      BY <1>1, <2>2 DEF Commit, TypeOK
    <3>2. CASE q.op = "create"
      BY <1>6, <3>1, <3>2 DEF Key
    <3>3. CASE q.op # "create"
      <4>1. agreements[id].status # "ABSENT"
        BY <3>1, <3>3, Ready
      <4> QED
        BY <1>1, <1>6, <4>1 DEF Created
    <3> QED
      BY <3>2, <3>3
  <2> QED
    BY <2>1, <2>2
<1> QED
  BY <1>3, <1>4, <1>5, <1>6, <1>7 DEF TypeOK

\* COMMIT gives nobody an invite but the buyer of the agreement created.
LEMMA CommitInvites ==
  ASSUME TxInv, NEW p \in Proc, Commit(p), NEW u \in User,
         tx[p].call.op = "create" => tx[p].call.actor # u
  PROVE  Invites(u)' \subseteq Invites(u)
<1> DEFINE q == tx[p].call
<1>1. /\ WellMade(q) /\ q \in Calls /\ TypeOK
      /\ q.op # "paystack" => q.x \in Agr
  BY Ready DEF TxInv, WellMade
<1> SUFFICES ASSUME NEW id \in Agr, Buyer[id] = u, ~agreements'[id].accepted,
                    agreements'[id].status \notin Terminal \cup {"ABSENT"}
             PROVE  ~agreements[id].accepted /\ agreements[id].status \notin Terminal \cup {"ABSENT"}
  BY DEF Invites
<1>2. CASE q.op = "paystack" \/ id # q.x
  <2>1. agreements'[id] = agreements[id]
    BY <1>1, <1>2 DEF Commit, TypeOK
  <2> QED
    BY <2>1
<1>3. CASE q.op # "paystack" /\ id = q.x
  <2>1. q.op # "create"
    BY <1>1, <1>3 DEF WellMade
  <2>2. agreements'[id] = Written(q, agreements[id])
    BY <1>1, <1>3, <2>1, Ready DEF Commit, TypeOK
  <2>3. q.op \notin NoRowLock
    BY <1>1, <1>3, <2>1 DEF NoRowLock, WellMade, AgrOp
  <2>4. agreements[id] \in Row /\ agreements[id].status # "ABSENT" /\ Granted(q, agreements[id])
    BY <1>3, <2>1, Ready
  <2> QED
    BY <1>1, <2>2, <2>3, <2>4, WrittenInvite
<1> QED
  BY <1>2, <1>3

\* COMMIT takes nothing from under the transactions that go on: what they read
\* and hold is apart from what it writes.
LEMMA CommitOthers ==
  ASSUME TxInv, NEW p \in Proc, Commit(p), NEW r \in Proc \ {p}
  PROVE  Good(r)'
<1> DEFINE q == tx[p].call
           c == tx[r].call
<1>1. /\ WellMade(q) /\ q \in Calls /\ TypeOK /\ tx[p].todo = {}
      /\ Good(r) /\ tx[r] \in TxState /\ Exclusive(p, r)
      /\ tx[r].at # "idle" => c \in Calls /\ WellMade(c)
  BY Ready, Busy DEF TxInv
<1>2. tx'[r] = tx[r] /\ lapsed' = lapsed /\ ops' = ops \cup {Key(q)}
  BY DEF Commit, Set, TxInv
<1>3. Course(r)'
  BY <1>1, <1>2 DEF Good, Course
<1>4. Fresh(r)'
  <2> SUFFICES ASSUME tx[r].at \in {"seller", "post", "count", "insert"}
               PROVE  Key(c) # Key(q)
    BY <1>1, <1>2 DEF Good, Fresh, Key
  <2>1. HoldsOp(r, Key(c)) /\ Key(c) \in OpId
    BY <1>1 DEF HoldsOp, WellMade
  <2> QED
    BY <1>1, <2>1, Ready DEF Exclusive
<1>5. Covered(r)'
  <2>1. ASSUME NEW e \in tx[r].plan \ tx[r].todo
        PROVE  Balance(e[1])' = Balance(e[1])
    <3>1. e[1] \in Account
      BY <1>1 DEF TxState
    <3>2. HoldsAccount(r, e[1])
      BY DEF HoldsAccount
    <3>3. ~HoldsAccount(p, e[1])
      BY <1>1, <3>1, <3>2 DEF Exclusive
    <3>4. Delta(p, e[1]) = 0
      BY <1>1, <3>1, <3>3, Deltas
    <3>5. Balance(e[1]) \in Int
      BY <1>1, <3>1, Balances DEF TypeOK, Account
    <3> QED
      BY <3>1, <3>4, <3>5, Moved
  <2> QED
    BY <1>1, <1>2, <2>1 DEF Good, Covered
<1>6. Room(r)'
  <2>0. SUFFICES ASSUME tx[r].at = "insert" PROVE Room(r)'
    BY <1>2 DEF Room
  <2>1. PICK u \in User : /\ u = c.actor
                          /\ HoldsAccount(r, UserAcct(u)) /\ UserAcct(u) \in Account
    <3>1. c.op = "create"
      BY <1>1, <2>0 DEF Good, Course
    <3>2. c.actor \in User
      BY <1>1, <2>0, <3>1, Terms DEF WellMade
    <3> QED
      BY <2>0, <3>2, Accounts DEF HoldsAccount
  <2>2. q.op = "create" => q.actor # u
    BY <1>1, <2>1, Ready DEF Exclusive
  <2>3. Invites(u)' \subseteq Invites(u)
    BY <2>1, <2>2, CommitInvites
  <2>4. IsFiniteSet(Invites(u))
    BY LedgerAssumption, FS_Subset DEF Invites
  <2>5. /\ Cardinality(Invites(u)') <= Cardinality(Invites(u)) /\ Cardinality(Invites(u)) \in Nat
        /\ Cardinality(Invites(u)') \in Nat /\ MaxInvites \in Nat
    BY <2>3, <2>4, FS_Subset, FS_CardinalityType, LedgerAssumption
  <2>6. Cardinality(Invites(u)) < MaxInvites
    BY <1>1, <2>0, <2>1 DEF Good, Room
  <2>7. Cardinality(Invites(u)') < MaxInvites
    BY <2>5, <2>6
  <2>8. \A v : v = u => Invites(v)' = Invites(u)'
    OBVIOUS
  <2> QED
    BY <1>1, <1>2, <2>0, <2>1, <2>7, <2>8 DEF Good, Room
<1>7. Reading(r)'
  <2> DEFINE id == c.x
  <2>1. SUFFICES ASSUME HoldsRow(r, id) PROVE Reading(r)'
    BY <1>2 DEF Reading, HoldsRow
  <2>2. /\ id \in Agr /\ agreements[id].status # "ABSENT"
        /\ c.op \in {"fund", "accept", "start", "deliver", "dispute", "expire",
                     "release", "ruling", "cancel"}
    BY <1>1, <2>1 DEF HoldsRow, Good, Reading, WellMade, NoRowLock, AgrOp
  <2>3. q.op # "paystack" => q.x \in Agr /\ q.x # id
    BY <1>1, <2>1, <2>2, Ready DEF WellMade, Exclusive
  <2>4. agreements'[id] = agreements[id] /\ consents'[id] = consents[id]
    BY <1>1, <2>2, <2>3 DEF Commit, TypeOK
  <2>5. /\ Written(c, agreements[id])' = Written(c, agreements[id])
        /\ Entries(c, agreements[id])' = Entries(c, agreements[id])
    BY <1>2, <2>4 DEF Written, Entries, Cancels
  <2>6. Granted(c, agreements[id]) => Granted(c, agreements[id])'
    BY <1>2, <2>2, <2>4 DEF Granted, Allowed
  <2> QED
    BY <1>1, <1>2, <2>1, <2>4, <2>5, <2>6 DEF Good, Reading, HoldsRow
<1> QED
  BY <1>3, <1>4, <1>5, <1>6, <1>7 DEF Good

LEMMA CommitKeeps ==
  ASSUME TxInv, NEW p \in Proc, Commit(p)
  PROVE  TxInv'
<1>1. tx' = [tx EXCEPT ![p] = Idle] /\ due' \subseteq Agr
  BY DEF Commit, Set, TxInv
<1>2. tx' \in [Proc -> TxState] /\ tx'[p] = Idle /\ \A q \in Proc \ {p} : tx'[q] = tx[q]
  BY <1>1, IdleType DEF TxInv
<1>3. \A q, r \in Proc \ {p} : q # r => Exclusive(q, r)'
  BY <1>2, ExclusiveStays DEF TxInv
<1> QED
  BY <1>1, <1>2, <1>3, CommitType, CommitOthers, AtRest DEF TxInv

\* Whatever statement runs next, the locks stay apart and what was decided under
\* them stays true.
LEMMA TxStep == TxInv /\ [TxNext]_txVars => TxInv'
<1> SUFFICES ASSUME TxInv, [TxNext]_txVars PROVE TxInv'
  OBVIOUS
<1>1. CASE UNCHANGED txVars
  BY <1>1, SweepKeeps DEF txVars, TxInv
<1>2. ASSUME NEW id \in Agr, Tick(id) PROVE TxInv'
  BY <1>2, TickKeeps
<1>3. CASE SweepReads
  BY <1>3, SweepKeeps DEF SweepReads
<1>4. ASSUME NEW p \in Proc, Fails(p) PROVE TxInv'
  BY <1>4, RollbackKeeps DEF Fails, Rollback, Set, TxInv
<1>5. ASSUME NEW p \in Proc, Statement(p) PROVE TxInv'
  BY <1>5, LockRowKeeps, InsertOpKeeps, SellerKeeps, PostKeeps, CountKeeps, CommitKeeps
     DEF Statement
<1>6. ASSUME NEW p \in Proc, NEW q \in Calls, Begin(p, q) PROVE TxInv'
  BY <1>6, BeginKeeps
<1> QED
  BY <1>1, <1>2, <1>3, <1>4, <1>5, <1>6 DEF TxNext

\* The service may begin with any tables, when no transaction runs.
LEMMA ResumedHolds == Resumed => TxInv
<1> SUFFICES ASSUME Resumed PROVE TxInv
  OBVIOUS
<1>1. TypeOK /\ Created /\ due \subseteq Agr
  BY DEF Resumed, Created
<1>2. tx = [p \in Proc |-> Idle] /\ tx \in [Proc -> TxState]
  BY IdleType DEF Resumed
<1>3. ASSUME NEW p \in Proc
      PROVE  tx[p].at = "idle" /\ tx[p].plan = {} /\ tx[p].todo = {} /\ tx[p].call.op = "none"
  BY <1>2 DEF Idle, Call
<1>4. ASSUME NEW p \in Proc
      PROVE  Good(p) /\ \A r : ~HoldsRow(p, r) /\ ~HoldsOp(p, r) /\ ~HoldsAccount(p, r)
  BY <1>3 DEF Good, Course, Reading, Fresh, Covered, Room, HoldsRow, HoldsOp, HoldsAccount
<1> QED
  BY <1>1, <1>2, <1>4 DEF TxInv, Exclusive

LEMMA InitResumed == TxInit => Resumed
BY TypeInit, CapInit DEF TxInit, Init, NoRow, Resumed

LEMMA TxStart == TxInit => TxInv
BY InitResumed, ResumedHolds

LEMMA TxInductive == TxSpec => []TxInv
BY TxStart, TxStep, PTL DEF TxSpec

\* The tables and the transactions have their types, in particular no balance
\* that COMMIT makes visible is negative.
THEOREM TxTypeCorrect == TxSpec => []TxTypeOK
<1>1. TxInv => TxTypeOK
  BY DEF TxInv, TxState, Statements, TxTypeOK, Good, Course
<1> QED
  BY <1>1, TxInductive, PTL

------------------------------------------------------------------------------
\* How far a waiting transaction has come: past the row, past the operation id,
\* and then by the account it waits for.
Level(p) == IF tx[p].at = "op" THEN 1
            ELSE IF tx[p].at = "count" THEN 2
            ELSE IF tx[p].at = "post" /\ tx[p].todo # {} THEN 3 + Place(NextPosting(p)[1])
            ELSE 0

LEMMA LevelType ==
  ASSUME TxInv, NEW p \in Proc
  PROVE  /\ Level(p) \in Nat
         /\ tx[p].at = "post" /\ tx[p].todo # {} =>
              /\ Level(p) >= 3 /\ NextPosting(p) \in tx[p].todo
              /\ Place(NextPosting(p)[1]) \in Nat
<1>1. tx[p].todo \subseteq Account \X Int
  BY Busy DEF TxState
<1> QED
  BY <1>1, NextIs, Places DEF Level

\* A transaction that is waited for and waits has come further than the one that
\* waits for it.
LEMMA WaitsForFurther ==
  ASSUME TxInv, NEW p \in Proc, NEW q \in Proc, NEW r \in Proc, Waits(p, q), Waits(q, r)
  PROVE  Level(p) < Level(q)
<1>1. \/ tx[q].at \in {"row", "op", "count"}
      \/ tx[q].at = "post" /\ tx[q].todo # {}
  BY DEF Waits
<1>2. Good(q) /\ tx[q] \in TxState
  BY Busy
<1>3. ASSUME NEW acct, HoldsAccount(q, acct)
      PROVE  /\ tx[q].at = "post"
             /\ Place(acct) < Place(NextPosting(q)[1])
  <2>1. PICK e \in tx[q].plan \ tx[q].todo : e[1] = acct
    BY <1>1, <1>3 DEF HoldsAccount
  <2>2. tx[q].at = "post" /\ tx[q].todo # {}
    BY <1>1, <1>2, <2>1 DEF Good, Course
  <2> QED
    BY <1>2, <2>1, <2>2, LevelType DEF Good, Covered
<1>4. CASE tx[p].at = "row" /\ HoldsRow(q, tx[p].call.x)
  BY <1>1, <1>4, LevelType DEF Level, HoldsRow
<1>5. CASE tx[p].at = "op" /\ HoldsOp(q, Key(tx[p].call))
  BY <1>1, <1>5, LevelType DEF Level, HoldsOp
<1>6. CASE tx[p].at = "post" /\ tx[p].todo # {} /\ HoldsAccount(q, NextPosting(p)[1])
  <2>1. tx[q].at = "post" /\ Place(NextPosting(p)[1]) < Place(NextPosting(q)[1])
    BY <1>3, <1>6
  <2> QED
    BY <1>1, <1>6, <2>1, LevelType DEF Level
<1>7. CASE tx[p].at = "count" /\ HoldsAccount(q, UserAcct(tx[p].call.actor))
  BY <1>1, <1>3, <1>7, LevelType DEF Level
<1> QED
  BY <1>4, <1>5, <1>6, <1>7 DEF Waits

\* Of any transactions, the one that has come furthest waits for none, or for
\* one that waits for none.
LEMMA FurthestRuns == TxInv => NoWaitCycle
<1>1. ASSUME TxInv, NEW S \in (SUBSET Proc) \ {{}}
      PROVE  \E p \in S : \A q \in S : ~Waits(p, q)
  <2> DEFINE score == [p \in S |-> Level(p)]
  <2>1. IsFiniteSet(S) /\ S # {}
    BY TxAssumption, FS_Subset
  <2>2. \A p \in S : Level(p) \in Nat
    BY <1>1, LevelType
  <2>3. score \in [S -> Int] /\ \A p \in S : score[p] = Level(p)
    BY <2>2
  <2> HIDE DEF score
  <2>4. PICK m \in S : \A n \in S : score[n] <= score[m]
    BY <2>1, <2>3, HighestScore
  <2>5. CASE \A q \in S : ~Waits(m, q)
    BY <2>5
  <2>6. ASSUME NEW q \in S, Waits(m, q)
        PROVE  \A r \in S : ~Waits(q, r)
    <3>1. ASSUME NEW r \in S, Waits(q, r) PROVE FALSE
      <4>1. Level(m) < Level(q)
        BY <1>1, <2>6, <3>1, WaitsForFurther
      <4> QED
        BY <2>2, <2>3, <2>4, <4>1
    <3> QED
      BY <3>1
  <2> QED
    BY <2>5, <2>6
<1> QED
  BY <1>1 DEF NoWaitCycle

\* No deadlock, for any number of connections.
THEOREM NoDeadlock == TxSpec => []NoWaitCycle
BY FurthestRuns, TxInductive, PTL

------------------------------------------------------------------------------
\* A transaction that has found a deadline open, and has not ended.
Opens(t, id) == /\ t.at = "post" /\ t.call.x = id
                /\ t.call.op = "accept" \/ (t.call.op = "fund" /\ ~t.row.accepted)

\* The deadline of id as the serial ledger sees it.
Shut(id) == lapsed[id] /\ ~OpenForTx(id)

LEMMA OpenIs == \A id : OpenForTx(id) <=> \E p \in Proc : Opens(tx[p], id)
BY DEF OpenForTx, Opens

\* What opens a deadline holds the row.
LEMMA OpensHolds ==
  ASSUME NEW p \in Proc, NEW id, Opens(tx[p], id)
  PROVE  HoldsRow(p, id)
BY DEF Opens, HoldsRow, NoRowLock

\* A step that writes no table and leaves the deadlines as they are is no step
\* of the serial ledger.
LEMMA SerialStutter ==
  ASSUME UNCHANGED <<agreements, consents, accounts, ops>>,
         \A id \in Agr : Shut(id)' <=> Shut(id)
  PROVE  UNCHANGED Serial!vars
<1>1. [id \in Agr |-> lapsed[id] /\ ~OpenForTx(id)]' = [id \in Agr |-> lapsed[id] /\ ~OpenForTx(id)]
  BY DEF Shut
<1> QED
  BY <1>1 DEF Serial!vars, Serial!accounts, accounts

\* A deadline that only now reads as passed has passed for the serial ledger now.
LEMMA SerialClock ==
  ASSUME UNCHANGED <<agreements, consents, accounts, ops>>,
         NEW id \in Agr, agreements[id].status # "ABSENT", ~Shut(id), Shut(id)',
         \A other \in Agr \ {id} : Shut(other)' <=> Shut(other)
  PROVE  Serial!Next
<1> DEFINE ML == [i \in Agr |-> lapsed[i] /\ ~OpenForTx(i)]
<1>1. ML' = [ML EXCEPT ![id] = TRUE] /\ ~ML[id]
  BY DEF Shut
<1>2. Serial!ClockPasses(id)
  BY <1>1 DEF Serial!ClockPasses, Serial!accounts, accounts
<1> QED
  BY <1>2 DEF Serial!Next, Serial!AgreementStep

\* A statement of p is no step of the serial ledger, unless p opens or leaves a
\* deadline that has passed.
LEMMA LocalStutter ==
  ASSUME TxInv, NEW p \in Proc, NEW t, tx' = [tx EXCEPT ![p] = t], UNCHANGED vars,
         \A id \in Agr : lapsed[id] => (Opens(t, id) <=> Opens(tx[p], id))
  PROVE  UNCHANGED Serial!vars
<1>1. tx'[p] = t /\ \A q \in Proc \ {p} : tx'[q] = tx[q]
  BY DEF TxInv
<1>2. ASSUME NEW id \in Agr
      PROVE  Shut(id)' <=> Shut(id)
  <2>1. OpenForTx(id)' <=> \E q \in Proc : Opens(tx'[q], id)
    BY DEF OpenForTx, Opens
  <2>2. lapsed'[id] = lapsed[id]
    BY DEF vars
  <2> QED
    BY <1>1, <2>1, <2>2, OpenIs DEF Shut
<1> QED
  BY <1>2, SerialStutter DEF vars

\* When p ends, the deadline it had open reads as the clock has it.
LEMMA Ends ==
  ASSUME TxInv, NEW p \in Proc, tx' = [tx EXCEPT ![p] = Idle], lapsed' = lapsed,
         NEW id \in Agr
  PROVE  /\ Opens(tx[p], id) => ~Shut(id) /\ (Shut(id)' <=> lapsed[id])
         /\ ~Opens(tx[p], id) => (Shut(id)' <=> Shut(id))
<1>1. tx'[p] = Idle /\ \A q \in Proc \ {p} : tx'[q] = tx[q]
  BY DEF TxInv
<1>2. OpenForTx(id)' <=> \E q \in Proc : Opens(tx'[q], id)
  BY DEF OpenForTx, Opens
<1>3. ~Opens(Idle, id)
  BY DEF Opens, Idle
<1>4. ASSUME NEW q \in Proc \ {p}, Opens(tx[p], id), Opens(tx[q], id)
      PROVE  FALSE
  BY <1>4, OpensHolds DEF TxInv, Exclusive
<1> QED
  BY <1>1, <1>2, <1>3, <1>4, OpenIs DEF Shut

\* A transaction that rolls back was never there, but time has passed.
LEMMA RollbackSerial ==
  ASSUME TxInv, NEW p \in Proc, tx' = [tx EXCEPT ![p] = Idle], UNCHANGED vars
  PROVE  [Serial!Next]_(Serial!vars)
<1>1. lapsed' = lapsed /\ UNCHANGED <<agreements, consents, accounts, ops>>
  BY DEF vars
<1>2. CASE \E id \in Agr : Opens(tx[p], id) /\ lapsed[id]
  <2>1. PICK id \in Agr : Opens(tx[p], id) /\ lapsed[id]
    BY <1>2
  <2>2. agreements[id].status # "ABSENT"
    BY <2>1, OpensHolds, Busy DEF Good, Reading, Opens
  <2>3. \A other \in Agr \ {id} : ~Opens(tx[p], other)
    BY <2>1 DEF Opens
  <2> QED
    BY <1>1, <2>1, <2>2, <2>3, Ends, SerialClock
<1>3. CASE ~ \E id \in Agr : Opens(tx[p], id) /\ lapsed[id]
  <2>1. \A id \in Agr : Shut(id)' <=> Shut(id)
    BY <1>1, <1>3, Ends DEF Shut
  <2> QED
    BY <1>1, <2>1, SerialStutter
<1> QED
  BY <1>2, <1>3

\* The clock that passes a deadline nobody has open passes it for the serial
\* ledger too.
LEMMA TickSerial ==
  ASSUME TxInv, NEW id \in Agr, Tick(id)
  PROVE  [Serial!Next]_(Serial!vars)
<1>1. /\ agreements[id].status # "ABSENT" /\ ~lapsed[id]
      /\ lapsed' = [lapsed EXCEPT ![id] = TRUE]
      /\ UNCHANGED <<agreements, consents, accounts, ops, tx>>
  BY DEF Tick, ClockPasses
<1>2. \A i : OpenForTx(i)' <=> OpenForTx(i)
  BY <1>1 DEF OpenForTx
<1>3. \A other \in Agr \ {id} : Shut(other)' <=> Shut(other)
  BY <1>1, <1>2 DEF Shut, TxInv, TypeOK
<1>4. ~Shut(id) /\ (Shut(id)' <=> ~OpenForTx(id))
  BY <1>1, <1>2 DEF Shut, TxInv, TypeOK
<1>5. CASE OpenForTx(id)
  BY <1>1, <1>3, <1>4, <1>5, SerialStutter
<1>6. CASE ~OpenForTx(id)
  BY <1>1, <1>3, <1>4, <1>6, SerialClock
<1> QED
  BY <1>5, <1>6

\* Deciding on a row opens no deadline that has passed.
LEMMA DecideSerial ==
  ASSUME TxInv, NEW p \in Proc, Decide(p), tx[p].at \in {"op", "seller"},
         tx[p].call.op \notin {"create", "paystack"}
  PROVE  [Serial!Next]_(Serial!vars)
<1> DEFINE q == tx[p].call
           a == tx[p].row
           t == [tx[p] EXCEPT !.at = "post", !.row = Written(q, a),
                              !.plan = Entries(q, a), !.todo = Entries(q, a)]
<1>1. CASE ~Allowed(q, a)
  BY <1>1, RollbackSerial DEF Decide, Refuse, Rollback, Set
<1>2. CASE Allowed(q, a)
  <2>1. tx' = [tx EXCEPT ![p] = t] /\ UNCHANGED vars
    BY <1>2 DEF Decide, Set
  <2>2. t.at = "post" /\ t.call = q /\ t.row = Written(q, a)
    BY Busy DEF TxState
  <2>3. q.op = "fund" => Written(q, a).accepted = a.accepted
    BY Busy DEF Written, TxState, Row
  <2> HIDE DEF t
  <2>4. ASSUME NEW id \in Agr, lapsed[id]
        PROVE  ~Opens(t, id) /\ ~Opens(tx[p], id)
    BY <1>2, <2>2, <2>3, <2>4 DEF Opens, Allowed
  <2> QED
    BY <2>1, <2>4, LocalStutter
<1> QED
  BY <1>1, <1>2

\* No statement but COMMIT is a call of the serial ledger.
LEMMA StatementSerial ==
  ASSUME TxInv, NEW p \in Proc,
         LockRow(p) \/ InsertOp(p) \/ SellerEligible(p) \/ Post(p) \/ CountInvites(p)
  PROVE  [Serial!Next]_(Serial!vars)
<1> DEFINE q == tx[p].call
<1>1. ASSUME NEW t, tx' = [tx EXCEPT ![p] = t], UNCHANGED vars,
             tx[p].at # "post", t.at # "post"
      PROVE  [Serial!Next]_(Serial!vars)
  BY <1>1, LocalStutter DEF Opens
<1>2. tx[p] \in TxState
  BY Busy
<1>3. CASE LockRow(p)
  <2>1. CASE agreements[q.x].status = "ABSENT"
    BY <1>3, <2>1, RollbackSerial DEF LockRow, Refuse, Rollback, Set
  <2>2. CASE agreements[q.x].status # "ABSENT"
    BY <1>1, <1>2, <1>3, <2>2 DEF LockRow, Runs, Set, TxState
  <2> QED
    BY <2>1, <2>2
<1>4. CASE InsertOp(p)
  <2>1. tx[p].at = "op"
    BY <1>4 DEF InsertOp, Runs
  <2>2. CASE Key(q) \in ops
    BY <1>4, <2>2, RollbackSerial DEF InsertOp, Refuse, Rollback, Set
  <2>3. CASE Key(q) \notin ops /\ q.op = "create"
    BY <1>1, <1>2, <1>4, <2>1, <2>3 DEF InsertOp, Set, TxState
  <2>4. CASE Key(q) \notin ops /\ q.op = "paystack"
    <3> DEFINE t == [tx[p] EXCEPT !.at = "post", !.plan = DepositEntries(q.x),
                                  !.todo = DepositEntries(q.x)]
    <3>1. tx' = [tx EXCEPT ![p] = t] /\ UNCHANGED vars
      BY <1>4, <2>4 DEF InsertOp, Set
    <3>2. t.call = q
      BY <1>2 DEF TxState
    <3>3. \A id \in Agr : ~Opens(t, id) /\ ~Opens(tx[p], id)
      BY <2>1, <2>4, <3>2 DEF Opens
    <3> HIDE DEF t
    <3> QED
      BY <3>1, <3>3, LocalStutter
  <2>5. CASE Key(q) \notin ops /\ q.op = "accept" /\ Allowed(q, tx[p].row)
    BY <1>1, <1>2, <1>4, <2>1, <2>5 DEF InsertOp, Set, TxState
  <2>6. CASE /\ Key(q) \notin ops /\ q.op \notin {"create", "paystack"}
             /\ ~(q.op = "accept" /\ Allowed(q, tx[p].row))
    <3>1. Decide(p)
      BY <1>4, <2>6 DEF InsertOp
    <3> QED
      BY <2>1, <2>6, <3>1, DecideSerial
  <2> QED
    BY <2>2, <2>3, <2>4, <2>5, <2>6
<1>5. CASE SellerEligible(p)
  <2>1. tx[p].at = "seller" /\ Decide(p)
    BY <1>5 DEF SellerEligible, Runs
  <2>2. q.op = "accept"
    BY <2>1, Busy DEF Good, Course
  <2> QED
    BY <2>1, <2>2, DecideSerial
<1>6. CASE Post(p)
  <2> DEFINE e == NextPosting(p)
             t == [tx[p] EXCEPT !.todo = @ \ {e}]
  <2>1. CASE e[1] # ClearingAcct /\ Balance(e[1]) + e[2] < 0
    BY <1>6, <2>1, RollbackSerial DEF Post, Rollback, Set
  <2>2. CASE ~(e[1] # ClearingAcct /\ Balance(e[1]) + e[2] < 0)
    <3>1. tx' = [tx EXCEPT ![p] = t] /\ UNCHANGED vars
      BY <1>6, <2>2 DEF Post, Set
    <3>2. t.at = tx[p].at /\ t.call = tx[p].call /\ t.row = tx[p].row
      BY <1>2 DEF TxState
    <3> HIDE DEF t
    <3>3. \A id \in Agr : Opens(t, id) <=> Opens(tx[p], id)
      BY <3>2 DEF Opens
    <3> QED
      BY <3>1, <3>3, LocalStutter
  <2> QED
    BY <2>1, <2>2
<1>7. CASE CountInvites(p)
  <2>1. CASE Cardinality(Invites(q.actor)) >= MaxInvites
    BY <1>7, <2>1, RollbackSerial DEF CountInvites, Refuse, Rollback, Set
  <2>2. CASE ~(Cardinality(Invites(q.actor)) >= MaxInvites)
    <3> DEFINE t == [tx[p] EXCEPT !.at = "insert",
                                  !.row = [NoRow EXCEPT !.status = IF q.eligible THEN "PENDING_PAYMENT"
                                                                   ELSE "DRAFT_PENDING_SELLER_KYC"]]
    <3>1. tx' = [tx EXCEPT ![p] = t] /\ UNCHANGED vars /\ tx[p].at = "count"
      BY <1>7, <2>2 DEF CountInvites, Runs, Set
    <3>2. t.at = "insert"
      BY <1>2 DEF TxState
    <3> HIDE DEF t
    <3> QED
      BY <1>1, <3>1, <3>2
  <2> QED
    BY <2>1, <2>2
<1> QED
  BY <1>3, <1>4, <1>5, <1>6, <1>7

------------------------------------------------------------------------------
\* The amount posted to an account is that of its one entry, or nothing.
LEMMA DeltaAt ==
  ASSUME NEW p \in Proc, NEW all, tx[p].plan \subseteq all,
         \A e \in all : e[2] # 0 => e \in tx[p].plan,
         \A e, f \in all : Place(e[1]) = Place(f[1]) => e = f,
         NEW acct, NEW d, <<acct, d>> \in all
  PROVE  Delta(p, acct) = d
<1> DEFINE mine == {e \in tx[p].plan : e[1] = acct}
<1>1. \A e \in mine : e = <<acct, d>>
  OBVIOUS
<1>2. CASE mine = {}
  BY <1>2 DEF Delta
<1>3. CASE mine # {}
  <2>1. (CHOOSE e \in mine : TRUE) \in mine
    BY <1>3
  <2> QED
    BY <1>1, <1>3, <2>1 DEF Delta
<1> QED
  BY <1>2, <1>3

LEMMA DeltaOff ==
  ASSUME NEW p \in Proc, NEW all, tx[p].plan \subseteq all, NEW some, \A e \in all : e[1] \in some
  PROVE  \A acct : acct \notin some => Delta(p, acct) = 0
<1>1. ASSUME NEW acct, acct \notin some PROVE {e \in tx[p].plan : e[1] = acct} = {}
  BY <1>1
<1> QED
  BY <1>1 DEF Delta

\* What COMMIT adds to the accounts, by the kind of call.
LEMMA FundDeltas ==
  ASSUME NEW p \in Proc, NEW id \in Agr,
         tx[p].plan = {e \in FundEntries(id) : e[2] # 0}
  PROVE  /\ \A u \in User : Delta(p, UserAcct(u)) = IF u = Buyer[id] THEN -(Principal[id] + FeeOf[id]) ELSE 0
         /\ \A i \in Agr : Delta(p, PrincipalAcct(i)) = IF i = id THEN Principal[id] ELSE 0
         /\ \A i \in Agr : Delta(p, FeeAcct(i)) = IF i = id THEN FeeOf[id] ELSE 0
         /\ Delta(p, ClearingAcct) = 0 /\ Delta(p, EarnedAcct) = 0
<1> DEFINE all == FundEntries(id)
<1>1. /\ tx[p].plan \subseteq all /\ (\A e \in all : e[2] # 0 => e \in tx[p].plan)
      /\ \A e, f \in all : Place(e[1]) = Place(f[1]) => e = f
  BY Spread
<1>2. /\ <<UserAcct(Buyer[id]), -(Principal[id] + FeeOf[id])>> \in all
      /\ <<PrincipalAcct(id), Principal[id]>> \in all
      /\ <<FeeAcct(id), FeeOf[id]>> \in all
      /\ \A e \in all : e[1] \in {UserAcct(Buyer[id]), PrincipalAcct(id), FeeAcct(id)}
  BY DEF FundEntries
<1> HIDE DEF all
<1>3. /\ Delta(p, UserAcct(Buyer[id])) = -(Principal[id] + FeeOf[id])
      /\ Delta(p, PrincipalAcct(id)) = Principal[id]
      /\ Delta(p, FeeAcct(id)) = FeeOf[id]
  BY <1>1, <1>2, DeltaAt
<1>4. \A acct : acct \notin {UserAcct(Buyer[id]), PrincipalAcct(id), FeeAcct(id)} => Delta(p, acct) = 0
  BY <1>1, <1>2, DeltaOff, Zenon
<1> QED
  BY <1>3, <1>4, Accounts, Terms, LedgerAssumption

LEMMA RefundDeltas ==
  ASSUME NEW p \in Proc, NEW id \in Agr,
         tx[p].plan = {e \in RefundEntries(id) : e[2] # 0}
  PROVE  /\ \A u \in User : Delta(p, UserAcct(u)) = IF u = Buyer[id] THEN Principal[id] + FeeOf[id] ELSE 0
         /\ \A i \in Agr : Delta(p, PrincipalAcct(i)) = IF i = id THEN -Principal[id] ELSE 0
         /\ \A i \in Agr : Delta(p, FeeAcct(i)) = IF i = id THEN -FeeOf[id] ELSE 0
         /\ Delta(p, ClearingAcct) = 0 /\ Delta(p, EarnedAcct) = 0
<1> DEFINE all == RefundEntries(id)
<1>1. /\ tx[p].plan \subseteq all /\ (\A e \in all : e[2] # 0 => e \in tx[p].plan)
      /\ \A e, f \in all : Place(e[1]) = Place(f[1]) => e = f
  BY Spread
<1>2. /\ <<UserAcct(Buyer[id]), Principal[id] + FeeOf[id]>> \in all
      /\ <<PrincipalAcct(id), -Principal[id]>> \in all
      /\ <<FeeAcct(id), -FeeOf[id]>> \in all
      /\ \A e \in all : e[1] \in {UserAcct(Buyer[id]), PrincipalAcct(id), FeeAcct(id)}
  BY DEF RefundEntries
<1> HIDE DEF all
<1>3. /\ Delta(p, UserAcct(Buyer[id])) = Principal[id] + FeeOf[id]
      /\ Delta(p, PrincipalAcct(id)) = -Principal[id]
      /\ Delta(p, FeeAcct(id)) = -FeeOf[id]
  BY <1>1, <1>2, DeltaAt
<1>4. \A acct : acct \notin {UserAcct(Buyer[id]), PrincipalAcct(id), FeeAcct(id)} => Delta(p, acct) = 0
  BY <1>1, <1>2, DeltaOff, Zenon
<1> QED
  BY <1>3, <1>4, Accounts, Terms, LedgerAssumption

LEMMA SettleDeltas ==
  ASSUME NEW p \in Proc, NEW id \in Agr, NEW n \in 0..Principal[id],
         tx[p].plan = {e \in SettleEntries(id, n) : e[2] # 0}
  PROVE  /\ \A u \in User : Delta(p, UserAcct(u)) = IF u = Buyer[id] THEN n
                                          ELSE IF u = Seller[id] THEN Principal[id] - n ELSE 0
         /\ \A i \in Agr : Delta(p, PrincipalAcct(i)) = IF i = id THEN -Principal[id] ELSE 0
         /\ \A i \in Agr : Delta(p, FeeAcct(i)) = IF i = id THEN -FeeOf[id] ELSE 0
         /\ Delta(p, ClearingAcct) = 0 /\ Delta(p, EarnedAcct) = FeeOf[id]
<1> DEFINE all == SettleEntries(id, n)
<1>1. /\ tx[p].plan \subseteq all /\ (\A e \in all : e[2] # 0 => e \in tx[p].plan)
      /\ \A e, f \in all : Place(e[1]) = Place(f[1]) => e = f
  BY Spread
<1>2. /\ <<PrincipalAcct(id), -Principal[id]>> \in all
      /\ <<FeeAcct(id), -FeeOf[id]>> \in all
      /\ <<UserAcct(Buyer[id]), n>> \in all
      /\ <<UserAcct(Seller[id]), Principal[id] - n>> \in all
      /\ <<EarnedAcct, FeeOf[id]>> \in all
      /\ \A e \in all : e[1] \in {PrincipalAcct(id), FeeAcct(id), UserAcct(Buyer[id]), UserAcct(Seller[id]), EarnedAcct}
  BY DEF SettleEntries
<1> HIDE DEF all
<1>3. /\ Delta(p, PrincipalAcct(id)) = -Principal[id]
      /\ Delta(p, FeeAcct(id)) = -FeeOf[id]
      /\ Delta(p, UserAcct(Buyer[id])) = n
      /\ Delta(p, UserAcct(Seller[id])) = Principal[id] - n
      /\ Delta(p, EarnedAcct) = FeeOf[id]
  BY <1>1, <1>2, DeltaAt
<1>4. \A acct : acct \notin {PrincipalAcct(id), FeeAcct(id), UserAcct(Buyer[id]), UserAcct(Seller[id]), EarnedAcct} => Delta(p, acct) = 0
  BY <1>1, <1>2, DeltaOff, Zenon
<1> QED
  BY <1>3, <1>4, Accounts, Terms, LedgerAssumption

LEMMA DepositDeltas ==
  ASSUME NEW p \in Proc, NEW r \in Ref,
         tx[p].plan = DepositEntries(r)
  PROVE  /\ \A u \in User : Delta(p, UserAcct(u)) = IF u = DepositUser[r] THEN DepositNet[r] ELSE 0
         /\ \A i \in Agr : Delta(p, PrincipalAcct(i)) = 0
         /\ \A i \in Agr : Delta(p, FeeAcct(i)) = 0
         /\ Delta(p, ClearingAcct) = -DepositNet[r] /\ Delta(p, EarnedAcct) = 0
<1> DEFINE all == DepositEntries(r)
<1>1. /\ tx[p].plan \subseteq all /\ (\A e \in all : e[2] # 0 => e \in tx[p].plan)
      /\ \A e, f \in all : Place(e[1]) = Place(f[1]) => e = f
  BY Spread
<1>2. /\ <<ClearingAcct, -DepositNet[r]>> \in all
      /\ <<UserAcct(DepositUser[r]), DepositNet[r]>> \in all
      /\ \A e \in all : e[1] \in {ClearingAcct, UserAcct(DepositUser[r])}
  BY DEF DepositEntries
<1> HIDE DEF all
<1>3. /\ Delta(p, ClearingAcct) = -DepositNet[r]
      /\ Delta(p, UserAcct(DepositUser[r])) = DepositNet[r]
  BY <1>1, <1>2, DeltaAt
<1>4. \A acct : acct \notin {ClearingAcct, UserAcct(DepositUser[r])} => Delta(p, acct) = 0
  BY <1>1, <1>2, DeltaOff, Zenon
<1> QED
  BY <1>3, <1>4, Accounts, Terms, LedgerAssumption

\* A call without postings leaves the accounts alone.
LEMMA NoDeltas ==
  ASSUME TxInv, NEW p \in Proc, Commit(p), tx[p].plan = {}
  PROVE  UNCHANGED accounts
<1>1. \A acct : Delta(p, acct) = 0
  BY DEF Delta
<1> QED
  BY <1>1 DEF Commit, TxInv, TypeOK, accounts

LEMMA SerialFee == Serial!FeeOf = FeeOf
BY DEF Serial!FeeOf, Serial!Fee, FeeOf, Fee

LEMMA SerialInvites == \A u : Serial!Invites(u) = Invites(u)
BY DEF Serial!Invites, Serial!Terminal, Invites, Terminal

\* The serial ledger counts with the same cardinality.
LEMMA SerialCardinality == ASSUME NEW S PROVE Serial!Cardinality(S) = Cardinality(S)
  BY DEF Serial!Cardinality, Cardinality

\* COMMIT changes no deadline but the one its call found open, which may have
\* passed since (ClockMayPass).
LEMMA CommitDeadline ==
  ASSUME TxInv, NEW p \in Proc, Commit(p), NEW id \in Agr, tx[p].call.x = id
  PROVE  /\ \A i \in Agr : Shut(i) \in BOOLEAN /\ Shut(i)' \in BOOLEAN
         /\ \A i \in Agr \ {id} : Shut(i)' = Shut(i)
         /\ tx[p].call.op \notin {"fund", "accept"} => Shut(id)' = Shut(id)
         /\ Shut(id)' = Shut(id) \/ Shut(id)' = TRUE
         /\ tx[p].call.op = "accept" => ~Shut(id)
         /\ tx[p].call.op = "fund" => agreements[id].accepted \/ ~Shut(id)
<1> DEFINE q == tx[p].call
<1>1. tx' = [tx EXCEPT ![p] = Idle] /\ lapsed' = lapsed
  BY DEF Commit, Set
<1>2. \A i \in Agr \ {id} : Shut(i)' <=> Shut(i)
  BY <1>1, Ends DEF Opens
<1>3. \A i \in Agr : Shut(i) \in BOOLEAN /\ Shut(i)' \in BOOLEAN
  BY <1>1 DEF Shut, TxInv, TypeOK
<1>4. CASE Opens(tx[p], id)
  <2>1. ~Shut(id) /\ q.op \in {"fund", "accept"}
    BY <1>1, <1>4, Ends DEF Opens
  <2> QED
    BY <1>2, <1>3, <2>1
<1>5. CASE ~Opens(tx[p], id)
  <2>1. Shut(id)' <=> Shut(id)
    BY <1>1, <1>5, Ends
  <2>2. q.op # "accept"
    BY <1>5, Ready DEF Opens
  <2>3. q.op = "fund" => agreements[id].accepted
    <3>1. q.op = "fund" => /\ tx[p].at = "post" /\ tx[p].row = Written(q, agreements[id])
                           /\ agreements[id] \in Row
      BY Ready
    <3>2. q.op = "fund" => tx[p].row.accepted = agreements[id].accepted
      BY <3>1 DEF Written, Row
    <3> QED
      BY <1>5, <3>1, <3>2 DEF Opens
  <2> QED
    BY <1>2, <1>3, <2>1, <2>2, <2>3
<1> QED
  BY <1>4, <1>5

\* Every COMMIT is a call of the serial ledger.
LEMMA CommitSerial ==
  ASSUME TxInv, NEW p \in Proc, Commit(p), NEW q, q = tx[p].call, NEW id, id = q.x
  PROVE  Serial!Next
<1> DEFINE a == agreements[id]
           ML == [i \in Agr |-> lapsed[i] /\ ~OpenForTx(i)]
<1>1. /\ WellMade(q) /\ TypeOK /\ tx[p].todo = {} /\ Good(p)
      /\ ops' = ops \cup {Key(q)} /\ Key(q) \notin ops
  BY Ready DEF Commit, TxInv
<1>2. /\ \A u \in User : available'[u] = available[u] + Delta(p, UserAcct(u))
      /\ \A i \in Agr : /\ principal'[i] = principal[i] + Delta(p, PrincipalAcct(i))
                        /\ pendingFee'[i] = pendingFee[i] + Delta(p, FeeAcct(i))
      /\ clearing' = clearing + Delta(p, ClearingAcct)
      /\ earnedFees' = earnedFees + Delta(p, EarnedAcct)
      /\ DOMAIN available' = User /\ DOMAIN principal' = Agr /\ DOMAIN pendingFee' = Agr
      /\ available' = [u \in User |-> available'[u]]
      /\ principal' = [i \in Agr |-> principal'[i]]
      /\ pendingFee' = [i \in Agr |-> pendingFee'[i]]
  BY DEF Commit
<1>3. /\ \A u \in User : available[u] + Delta(p, UserAcct(u)) >= 0
      /\ \A i \in Agr : /\ principal[i] + Delta(p, PrincipalAcct(i)) >= 0
                        /\ pendingFee[i] + Delta(p, FeeAcct(i)) >= 0
  BY <1>1, Deltas, Accounts, Balances
<1>4. CASE q.op = "paystack"
  <2>1. id \in Ref /\ Key(q) = <<"paystack", id>> /\ tx[p].plan = DepositEntries(id)
    BY <1>1, <1>4, Ready DEF WellMade, Key
  <2>2. /\ clearing' = clearing - DepositNet[id] /\ earnedFees' = earnedFees
        /\ available' = [available EXCEPT ![DepositUser[id]] = @ + DepositNet[id]]
        /\ principal' = principal /\ pendingFee' = pendingFee
    BY <1>1, <1>2, <2>1, DepositDeltas, LedgerAssumption DEF TypeOK
  <2>3. agreements' = agreements /\ consents' = consents
    BY <1>4 DEF Commit
  <2>4. ML' = ML
    <3>1. tx' = [tx EXCEPT ![p] = Idle] /\ lapsed' = lapsed
      BY DEF Commit, Set
    <3>2. \A i \in Agr : Shut(i)' <=> Shut(i)
      BY <1>4, <3>1, Ends DEF Opens
    <3> QED
      BY <3>2 DEF Shut
  <2>5. Serial!CreditVerifiedDeposit(id)
    BY <1>1, <2>1, <2>2, <2>3, <2>4 DEF Serial!CreditVerifiedDeposit, Serial!Once
  <2> QED
    BY <2>1, <2>5 DEF Serial!Next
<1>5. CASE q.op # "paystack"
  <2>1. id \in Agr /\ agreements' = [agreements EXCEPT ![id] = tx[p].row]
    BY <1>1, <1>5 DEF WellMade, Commit
  <2>2. /\ q.op \notin {"fund", "accept"} => ML' = ML
        /\ ML' = ML \/ ML' = [ML EXCEPT ![id] = TRUE]
        /\ q.op = "accept" => ~ML[id]
        /\ q.op = "fund" => agreements[id].accepted \/ ~ML[id]
    <3>1. ML = [i \in Agr |-> Shut(i)] /\ ML' = [i \in Agr |-> Shut(i)']
      BY DEF Shut
    <3>2. id \in Agr /\ tx[p].call.x = id
      BY <2>1
    <3> HIDE DEF ML, a
    <3>3. /\ \A i \in Agr \ {id} : Shut(i)' = Shut(i)
          /\ q.op \notin {"fund", "accept"} => Shut(id)' = Shut(id)
          /\ Shut(id)' = Shut(id) \/ Shut(id)' = TRUE
          /\ q.op = "accept" => ~Shut(id)
          /\ q.op = "fund" => agreements[id].accepted \/ ~Shut(id)
      BY <3>2, CommitDeadline
    <3>4. q.op \notin {"fund", "accept"} => ML' = ML
      BY <3>1, <3>3
    <3>5. ML' = ML \/ ML' = [ML EXCEPT ![id] = TRUE]
      BY <3>1, <3>3
    <3>6. ML[id] = Shut(id)
      BY <3>1, <3>2
    <3> QED
      BY <3>3, <3>4, <3>5, <3>6
  <2>3. CASE q.op = "create"
    <3>1. /\ Key(q) = <<"create", id>> /\ a.status = "ABSENT" /\ tx[p].plan = {}
          /\ tx[p].at = "insert" /\ q.actor = Buyer[id] /\ q.eligible \in BOOLEAN
      BY <1>1, <2>3, Ready DEF WellMade, Key, Good, Course
    <3>2. UNCHANGED accounts /\ consents' = consents
      BY <2>3, <3>1, NoDeltas DEF Commit
    <3>3. /\ Cardinality(Serial!Invites(Buyer[id])) < MaxInvites
          /\ tx[p].row = [NoRow EXCEPT !.status = IF q.eligible THEN "PENDING_PAYMENT"
                                                  ELSE "DRAFT_PENDING_SELLER_KYC"]
      BY <1>1, <3>1, SerialInvites DEF Good, Room
    <3>4. Serial!Create(id, q.eligible)
      BY <1>1, <2>1, <2>2, <2>3, <3>1, <3>2, <3>3, SerialCardinality
         DEF Serial!Create, Serial!Once, Serial!SetRow, Serial!NoRow, NoRow, Serial!accounts, accounts
    <3> QED
      BY <2>1, <3>1, <3>4 DEF Serial!Next, Serial!AgreementStep
  <2>4. CASE q.op # "create"
    <3>1. /\ a \in Row /\ a.status # "ABSENT" /\ Granted(q, a)
          /\ tx[p].row = Written(q, a) /\ tx[p].plan = Entries(q, a)
          /\ q.op \in {"fund", "accept", "start", "deliver", "dispute", "expire", "release",
                       "ruling", "cancel"}
      BY <1>1, <1>5, <2>4, Ready DEF WellMade, AgrOp
    <3>2. q.op # "cancel" => Key(q) = <<q.op, id>>
      BY DEF Key
    <3>3. UNCHANGED lapsed
      BY DEF Commit
    <3> HIDE DEF ML, a
    <3>4. CASE q.op = "fund"
      <4>1. tx[p].plan = {e \in FundEntries(id) : e[2] # 0}
        BY <3>1, <3>4 DEF Entries
      <4>2. /\ available' = [available EXCEPT ![Buyer[id]] = @ - (Principal[id] + FeeOf[id])]
            /\ principal' = [principal EXCEPT ![id] = @ + Principal[id]]
            /\ pendingFee' = [pendingFee EXCEPT ![id] = @ + FeeOf[id]]
            /\ clearing' = clearing /\ earnedFees' = earnedFees
            /\ available[Buyer[id]] >= Principal[id] + FeeOf[id]
        BY <1>1, <1>2, <1>3, <2>1, <4>1, FundDeltas, Terms DEF TypeOK
      <4>3. /\ a.status \in Fundable /\ consents' = consents
            /\ tx[p].row = [a EXCEPT !.funded = TRUE,
                                     !.status = IF a.accepted THEN "FUNDED"
                                                ELSE "FUNDED_PENDING_ACCEPTANCE"]
        BY <3>1, <3>4 DEF Granted, Written, Commit
      <4>4. Serial!Fund(id)
        BY <1>1, <2>1, <2>2, <3>2, <3>4, <4>2, <4>3, SerialFee
           DEF a, ML, Serial!Fund, Serial!Once, Serial!SetRow, Serial!Fundable, Fundable,
               Serial!ClockMayPass
      <4> QED
        BY <2>1, <4>4 DEF Serial!Next, Serial!AgreementStep
    <3>5. CASE q.op \in {"accept", "start", "deliver", "dispute"}
      <4>1. tx[p].plan = {}
        BY <3>1, <3>5 DEF Entries, Cancels
      <4>2. UNCHANGED accounts
        BY <4>1, NoDeltas
      <4>3. CASE q.op = "accept"
        <5>1. /\ a.status \notin Terminal /\ ~a.accepted /\ consents' = consents
              /\ tx[p].row = [a EXCEPT !.accepted = TRUE,
                                       !.status = IF a.funded THEN "FUNDED" ELSE "PENDING_PAYMENT"]
          BY <3>1, <4>3 DEF Granted, Written, Commit
        <5>2. Serial!Accept(id)
          BY <1>1, <2>1, <2>2, <3>1, <3>2, <4>2, <4>3, <5>1
             DEF a, ML, Serial!Accept, Serial!Once, Serial!SetRow, Serial!Terminal, Terminal,
                 Serial!ClockMayPass, Serial!accounts, accounts
        <5> QED
          BY <2>1, <5>2 DEF Serial!Next, Serial!AgreementStep
      <4>4. CASE q.op = "start"
        <5>1. /\ a.status = "FUNDED" /\ consents' = [consents EXCEPT ![id] = {}]
              /\ tx[p].row = [a EXCEPT !.status = "IN_DELIVERY", !.started = TRUE]
          BY <3>1, <4>4 DEF Granted, Allowed, Written, Commit
        <5>2. Serial!Start(id)
          BY <1>1, <2>1, <2>2, <3>2, <4>2, <4>4, <5>1
             DEF a, ML, Serial!Start, Serial!Once, Serial!SetRow, Serial!accounts, accounts
        <5> QED
          BY <2>1, <5>2 DEF Serial!Next, Serial!AgreementStep
      <4>5. CASE q.op = "deliver"
        <5>1. /\ a.status = "IN_DELIVERY" /\ consents' = consents
              /\ tx[p].row = [a EXCEPT !.status = "DELIVERED", !.delivered = TRUE]
          BY <3>1, <4>5 DEF Granted, Allowed, Written, Commit
        <5>2. Serial!Deliver(id)
          BY <1>1, <2>1, <2>2, <3>2, <4>2, <4>5, <5>1
             DEF a, ML, Serial!Deliver, Serial!Once, Serial!SetRow, Serial!accounts, accounts
        <5> QED
          BY <2>1, <5>2 DEF Serial!Next, Serial!AgreementStep
      <4>6. CASE q.op = "dispute"
        <5>1. /\ a.status = "DELIVERED" /\ consents' = consents
              /\ tx[p].row = [a EXCEPT !.status = "DISPUTED"]
          BY <3>1, <4>6 DEF Granted, Allowed, Written, Commit
        <5>2. Serial!Dispute(id)
          BY <1>1, <2>1, <2>2, <3>2, <4>2, <4>6, <5>1
             DEF a, ML, Serial!Dispute, Serial!Once, Serial!SetRow, Serial!accounts, accounts
        <5> QED
          BY <2>1, <5>2 DEF Serial!Next, Serial!AgreementStep
      <4> QED
        BY <3>5, <4>3, <4>4, <4>5, <4>6
    <3>6. CASE q.op \in {"expire", "cancel"}
      <4>1. ASSUME Cancels(q)
            PROVE  Serial!Refund(id)
        <5>1. tx[p].row = [a EXCEPT !.status = "CANCELLED"]
          BY <3>1, <3>6, <4>1 DEF Written
        <5>2. CASE a.funded
          <6>1. tx[p].plan = {e \in RefundEntries(id) : e[2] # 0}
            BY <3>1, <3>6, <4>1, <5>2 DEF Entries
          <6>2. /\ available' = [available EXCEPT ![Buyer[id]] = @ + Principal[id] + FeeOf[id]]
                /\ principal' = [principal EXCEPT ![id] = @ - Principal[id]]
                /\ pendingFee' = [pendingFee EXCEPT ![id] = @ - FeeOf[id]]
                /\ clearing' = clearing /\ earnedFees' = earnedFees
                /\ principal[id] >= Principal[id] /\ pendingFee[id] >= FeeOf[id]
            BY <1>1, <1>2, <1>3, <2>1, <6>1, RefundDeltas, Terms DEF TypeOK
          <6> QED
            BY <2>1, <5>1, <5>2, <6>2, SerialFee DEF a, Serial!Refund, Serial!SetRow
        <5>3. CASE ~a.funded
          <6>1. tx[p].plan = {}
            BY <3>1, <3>6, <5>3 DEF Entries
          <6>2. UNCHANGED accounts
            BY <6>1, NoDeltas
          <6> QED
            BY <2>1, <5>1, <5>3, <6>2 DEF a, Serial!Refund, Serial!SetRow, accounts
        <5> QED
          BY <5>2, <5>3
      <4>2. CASE q.op = "expire"
        <5>1. /\ a.status \notin Terminal /\ ~a.accepted /\ lapsed[id] /\ consents' = consents
          BY <3>1, <4>2 DEF Granted, Allowed, Commit
        <5>2. Serial!Refund(id)
          BY <4>1, <4>2 DEF Cancels
        <5>3. ML[id]
          <6>1. ~OpenForTx(id)
            <7>1. ASSUME NEW r \in Proc, Opens(tx[r], id) PROVE FALSE
              <8>1. HoldsRow(r, id) /\ HoldsRow(p, id)
                BY <2>4, <3>6, <7>1, OpensHolds, Ready
              <8>2. r = p
                BY <2>1, <8>1 DEF TxInv, Exclusive
              <8> QED
                BY <4>2, <7>1, <8>2 DEF Opens
            <7> QED
              BY <7>1, OpenIs
          <6> QED
            BY <2>1, <5>1, <6>1 DEF ML
        <5>4. Serial!Expire(id)
          BY <1>1, <2>2, <3>1, <3>2, <4>2, <5>1, <5>2, <5>3
             DEF a, ML, Serial!Expire, Serial!Once, Serial!Terminal, Terminal
        <5> QED
          BY <2>1, <5>4 DEF Serial!Next, Serial!AgreementStep
      <4>3. CASE q.op = "cancel"
        <5>1. /\ a.status \notin Terminal /\ ~a.started
              /\ consents' = [consents EXCEPT ![id] = @ \cup {q.actor}]
              /\ q.actor \in Serial!Parties(id) /\ Key(q) = <<"cancel", id, q.actor>>
          BY <1>1, <3>1, <4>3 DEF Granted, Allowed, Commit, WellMade, Key, Serial!Parties, Parties
        <5>2. CASE Cardinality(consents[id] \cup {q.actor}) = 2
          <6>1. Serial!Refund(id)
            BY <4>1, <4>3, <5>2 DEF Cancels
          <6>2. Serial!ConsentCancellation(id, q.actor)
            BY <1>1, <2>1, <2>2, <3>1, <4>3, <5>1, <5>2, <6>1, SerialCardinality
               DEF a, ML, Serial!ConsentCancellation, Serial!Once, Serial!Terminal, Terminal, TypeOK
          <6> QED
            BY <2>1, <5>1, <6>2 DEF Serial!Next, Serial!AgreementStep
        <5>3. CASE Cardinality(consents[id] \cup {q.actor}) # 2
          <6>1. tx[p].row = a /\ tx[p].plan = {}
            BY <3>1, <4>3, <5>3 DEF Written, Entries, Cancels
          <6>2. UNCHANGED <<agreements, accounts>>
            BY <1>1, <2>1, <6>1, NoDeltas DEF a, TypeOK
          <6>3. Serial!ConsentCancellation(id, q.actor)
            BY <1>1, <2>1, <2>2, <3>1, <4>3, <5>1, <5>3, <6>2, SerialCardinality
               DEF a, ML, Serial!ConsentCancellation, Serial!Once, Serial!Terminal, Terminal,
                   TypeOK, Serial!accounts, accounts
          <6> QED
            BY <2>1, <5>1, <6>3 DEF Serial!Next, Serial!AgreementStep
        <5> QED
          BY <5>2, <5>3
      <4> QED
        BY <3>6, <4>2, <4>3
    <3>7. CASE q.op \in {"release", "ruling"}
      <4>1. q.toBuyer \in 0..Principal[id] /\ tx[p].plan = {e \in SettleEntries(id, q.toBuyer) : e[2] # 0}
        BY <1>1, <2>1, <3>1, <3>7, Terms DEF Entries, WellMade
      <4>2. /\ available' = [available EXCEPT ![Buyer[id]] = @ + q.toBuyer,
                                              ![Seller[id]] = @ + (Principal[id] - q.toBuyer)]
            /\ principal' = [principal EXCEPT ![id] = @ - Principal[id]]
            /\ pendingFee' = [pendingFee EXCEPT ![id] = @ - FeeOf[id]]
            /\ clearing' = clearing /\ earnedFees' = earnedFees + FeeOf[id]
            /\ principal[id] >= Principal[id] /\ pendingFee[id] >= FeeOf[id]
            /\ q.toBuyer <= Principal[id]
        BY <1>1, <1>2, <1>3, <2>1, <4>1, SettleDeltas, Terms DEF TypeOK
      <4>3. /\ tx[p].row = [a EXCEPT !.status = "COMPLETED"] /\ consents' = consents
        BY <3>1, <3>7 DEF Written, Commit
      <4>4. Serial!Settle(id, q.toBuyer)
        BY <2>1, <4>2, <4>3, SerialFee DEF a, Serial!Settle, Serial!SetRow
      <4>5. CASE q.op = "release"
        <5>1. a.status = "DELIVERED" /\ q.toBuyer = 0
          BY <1>1, <3>1, <4>5 DEF Granted, Allowed, WellMade
        <5>2. Serial!Release(id)
          BY <1>1, <2>2, <3>2, <4>3, <4>4, <4>5, <5>1 DEF a, ML, Serial!Release, Serial!Once
        <5> QED
          BY <2>1, <5>2 DEF Serial!Next, Serial!AgreementStep
      <4>6. CASE q.op = "ruling"
        <5>1. a.status = "DISPUTED" /\ a.delivered
          BY <3>1, <4>6 DEF Granted, Allowed
        <5>2. Serial!Rule(id, q.toBuyer)
          BY <1>1, <2>2, <3>2, <4>3, <4>4, <4>6, <5>1 DEF a, ML, Serial!Rule, Serial!Once
        <5> QED
          BY <2>1, <4>1, <5>2 DEF Serial!Next, Serial!AgreementStep
      <4> QED
        BY <3>7, <4>5, <4>6
    <3> QED
      BY <3>1, <3>4, <3>5, <3>6, <3>7
  <2> QED
    BY <2>3, <2>4
<1> QED
  BY <1>4, <1>5

\* Every step of the transactions is a call of the serial ledger or none.
LEMMA SerialStep == TxInv /\ [TxNext]_txVars => [Serial!Next]_(Serial!vars)
<1> SUFFICES ASSUME TxInv, [TxNext]_txVars PROVE [Serial!Next]_(Serial!vars)
  OBVIOUS
<1>1. CASE UNCHANGED txVars \/ SweepReads
  <2>1. UNCHANGED <<vars, tx>>
    BY <1>1 DEF txVars, SweepReads
  <2>2. \A id \in Agr : Shut(id)' <=> Shut(id)
    BY <2>1 DEF Shut, OpenForTx, vars
  <2> QED
    BY <2>1, <2>2, SerialStutter DEF vars
<1>2. ASSUME NEW id \in Agr, Tick(id) PROVE [Serial!Next]_(Serial!vars)
  BY <1>2, TickSerial
<1>3. ASSUME NEW p \in Proc, Fails(p) PROVE [Serial!Next]_(Serial!vars)
  BY <1>3, RollbackSerial DEF Fails, Rollback, Set
<1>4. ASSUME NEW p \in Proc, Statement(p) PROVE [Serial!Next]_(Serial!vars)
  BY <1>4, StatementSerial, CommitSerial DEF Statement
<1>5. ASSUME NEW p \in Proc, NEW q \in Calls, Begin(p, q) PROVE [Serial!Next]_(Serial!vars)
  <2> DEFINE t == [Idle EXCEPT !.call = q, !.at = IF q.op \in NoRowLock THEN "op" ELSE "row"]
  <2>1. tx' = [tx EXCEPT ![p] = t] /\ UNCHANGED vars /\ tx[p].at = "idle"
    BY <1>5 DEF Begin, Set
  <2>2. t.at # "post"
    BY DEF Idle
  <2> HIDE DEF t
  <2> QED
    BY <2>1, <2>2, LocalStutter DEF Opens
<1> QED
  BY <1>1, <1>2, <1>3, <1>4, <1>5 DEF TxNext

\* Calls that run statement by statement, on any number of connections, between
\* any agreements and users, with rollbacks anywhere, are serializable: what
\* NgnLedger takes as one step may be taken as one step.
THEOREM SerializableCorrect == TxSpec => Serializable
<1>1. TxInit => Serial!Init
  <2> SUFFICES ASSUME TxInit PROVE Serial!Init
    OBVIOUS
  <2>1. [id \in Agr |-> lapsed[id] /\ ~OpenForTx(id)] = [id \in Agr |-> FALSE]
    BY DEF TxInit, Init
  <2> QED
    BY <2>1 DEF TxInit, Init, NoRow, Serial!Init, Serial!NoRow
<1> QED
  BY <1>1, SerialStep, TxInductive, PTL DEF TxSpec, Serializable, Serial!Spec

------------------------------------------------------------------------------
\* A call of the serial ledger during which no clock moves is a call that may
\* be late: the deadline it met is the one the transaction had found.
LEMMA SerialIsLate ==
  ASSUME Serial!Next, UNCHANGED lapsed
  PROVE  [LateNext]_vars
<1> DEFINE ML == [i \in Agr |-> lapsed[i] /\ ~OpenForTx(i)]
<1> USE SerialFee DEF Serial!Once, Once, Serial!SetRow, SetRow, Serial!accounts, accounts,
        Serial!Terminal, Terminal
<1>1. ASSUME NEW r \in Ref, Serial!CreditVerifiedDeposit(r) PROVE CreditVerifiedDeposit(r)
  BY <1>1 DEF Serial!CreditVerifiedDeposit, CreditVerifiedDeposit
<1>2. ASSUME NEW id \in Agr, Serial!AgreementStep(id) PROVE LateStep(id) \/ UNCHANGED vars
  <2>1. CASE Serial!ClockPasses(id)
    BY <2>1 DEF Serial!ClockPasses, vars
  <2>2. ASSUME NEW eligible \in BOOLEAN, Serial!Create(id, eligible) PROVE Create(id, eligible)
    BY <2>2, SerialInvites, SerialCardinality DEF Serial!Create, Create, Serial!NoRow, NoRow
  <2>3. Serial!Fund(id) => LateFund(id)
    BY DEF Serial!Fund, LateFund, Serial!Fundable, Fundable, ClockMayPass
  <2>4. Serial!Accept(id) => LateAccept(id)
    BY DEF Serial!Accept, LateAccept, ClockMayPass
  <2>5. Serial!Start(id) => Start(id)
    BY DEF Serial!Start, Start
  <2>6. Serial!Deliver(id) => Deliver(id)
    BY DEF Serial!Deliver, Deliver
  <2>7. Serial!Dispute(id) => Dispute(id)
    BY DEF Serial!Dispute, Dispute
  <2>8. Serial!Refund(id) => Refund(id)
    BY DEF Serial!Refund, Refund
  <2>9. \A toBuyer : Serial!Settle(id, toBuyer) => Settle(id, toBuyer)
    BY DEF Serial!Settle, Settle
  <2>10. Serial!Expire(id) => Expire(id)
    BY <2>8 DEF Serial!Expire, Expire
  <2>11. ASSUME NEW actor \in Serial!Parties(id), Serial!ConsentCancellation(id, actor)
         PROVE  ConsentCancellation(id, actor) /\ actor \in Parties(id)
    BY <2>8, <2>11, SerialCardinality
       DEF Serial!ConsentCancellation, ConsentCancellation, Serial!Parties, Parties
  <2>12. Serial!Release(id) => Release(id)
    BY <2>9 DEF Serial!Release, Release
  <2>13. ASSUME NEW toBuyer \in 0..Principal[id], Serial!Rule(id, toBuyer) PROVE Rule(id, toBuyer)
    BY <2>9, <2>13 DEF Serial!Rule, Rule
  <2> QED
    BY <1>2, <2>1, <2>2, <2>3, <2>4, <2>5, <2>6, <2>7, <2>10, <2>11, <2>12, <2>13
    DEF Serial!AgreementStep, LateStep
<1> QED
  BY <1>1, <1>2 DEF Serial!Next, LateNext

\* A step of the transactions does to the tables what a call does, late or in
\* time, or nothing.
LEMMA TxIsLate == TxInv /\ [TxNext]_txVars => [LateNext]_vars
<1> SUFFICES ASSUME TxInv, [TxNext]_txVars PROVE [LateNext]_vars
  OBVIOUS
<1>1. CASE \E id \in Agr : Tick(id)
  BY <1>1 DEF Tick, LateNext, LateStep
<1>2. CASE lapsed' = lapsed
  <2>1. UNCHANGED Serial!vars => UNCHANGED vars
    BY <1>2 DEF Serial!vars, Serial!accounts, vars, accounts
  <2> QED
    BY <1>2, <2>1, SerialStep, SerialIsLate
<1>3. ASSUME NEW p \in Proc, Statement(p) PROVE lapsed' = lapsed
  BY <1>3 DEF Statement, LockRow, InsertOp, SellerEligible, Post, CountInvites, Commit, Decide,
              Refuse, Rollback, vars
<1> QED
  BY <1>1, <1>2, <1>3 DEF TxNext, txVars, SweepReads, Fails, Rollback, Begin, vars

\* The invariant of the ledger is one of its transactions.
LEMMA TxLedger == TxSpec => []IInv
<1>1. TxInit => IInv
  BY IInvInit DEF TxInit
<1> QED
  BY <1>1, IInvStep, TxIsLate, TxInductive, PTL DEF TxSpec

\* Between any two statements of any calls, and after a rollback anywhere, the
\* escrow accounts of each agreement hold what its status says.
THEOREM TxEscrowCorrect == TxSpec => []EscrowMatchesStatus
<1>1. IInv => EscrowMatchesStatus
  BY DEF IInv
<1> QED
  BY <1>1, TxLedger, PTL

\* Transactions that interleave do not let a status go ahead of its history.
THEOREM TxHistoryCorrect == TxSpec => []StatusMatchesHistory
<1>1. IInv => StatusMatchesHistory
  BY DEF IInv
<1> QED
  BY <1>1, TxLedger, PTL

\* Transactions that interleave make and lose no kobo.
THEOREM TxMoneyCorrect == TxSpec => []MoneyConserved
<1>1. TxInit => MoneyConserved
  BY MoneyInit DEF TxInit
<1>2. TxInv => TypeOK
  BY DEF TxInv
<1> QED
  BY <1>1, <1>2, MoneyStep, TxIsLate, TxInductive, PTL DEF TxSpec

\* Two consents given at the same time are both counted, and a deadline that
\* passes during an acceptance does not cancel what was accepted.
THEOREM TxCancellationCorrect == TxSpec => []CancelledByBothOrByTime
<1>1. TxInit => Consented
  BY ConsentedInit DEF TxInit
<1> QED
  BY <1>1, ConsentedStep, ConsentedCancels, TxLedger, TxIsLate, TxInductive, PTL DEF TxSpec

\* The money of an agreement leaves in one COMMIT, whole, and to whom it is due.
THEOREM TxPayoutCorrect == TxSpec => PayoutExact
BY PayoutStep, TxLedger, TxIsLate, TxInductive, PTL DEF TxSpec, PayoutExact

\* Creations that count at the same time do not exceed the cap together.
THEOREM TxInviteCapCorrect == TxSpec => []InviteCap
<1>1. TxInit => InviteCap
  BY CapInit DEF TxInit
<1>2. TxInv => TypeOK
  BY DEF TxInv
<1> QED
  BY <1>1, <1>2, CapStep, TxIsLate, TxInductive, PTL DEF TxSpec

\* The money of an agreement does, statement by statement, what NgnEscrow allows.
THEOREM TxImplementsEscrow == TxSpec => EscrowPromise
<1>1. TxInit => Escrow!Init
  BY EscrowInit DEF TxInit
<1> QED
  BY <1>1, EscrowStep, TxLedger, TxIsLate, TxInductive, PTL
     DEF TxSpec, EscrowPromise, Escrow!Spec

------------------------------------------------------------------------------
\* The same of a service that starts again on the tables of another.
LEMMA ResumedInductive == ResumedSpec => []TxInv
BY ResumedHolds, TxStep, PTL DEF ResumedSpec

\* Whatever the tables it finds, every COMMIT of a service that started again is
\* a call made on the tables of that moment.
THEOREM ResumedCommits == ResumedSpec => CommitsAreCalls
BY SerialStep, ResumedInductive, PTL DEF ResumedSpec, CommitsAreCalls

\* Nor do its transactions wait on each other for good.
THEOREM ResumedNoDeadlock == ResumedSpec => []NoWaitCycle
BY FurthestRuns, ResumedInductive, PTL

\* Nor do they exceed the cap, if it was kept before.
THEOREM ResumedInviteCap == ResumedSpec => []InviteCap
<1>1. TxInv => TypeOK
  BY DEF TxInv
<1>2. Resumed => InviteCap
  BY DEF Resumed
<1> QED
  BY <1>1, <1>2, CapStep, TxIsLate, ResumedInductive, PTL DEF ResumedSpec
=============================================================================
