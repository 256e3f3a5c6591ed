------------------------- MODULE NgnTransfersProofs -------------------------
(****************************************************************************)
(* Proofs about NgnTransfers, for any orders, amounts and handlers, and any *)
(* number of webhooks and faults.                                           *)
(****************************************************************************)
EXTENDS NgnTransfers, SumLemmas

\* Every order has a deposit address of its own.
OwnAddresses == \A o, p \in Order : Address[o] = Address[p] => o = p

------------------------------------------------------------------------------
\* A set of orders has a newest and an oldest.
LEMMA Extremes ==
  ASSUME NEW S \in SUBSET Order, S # {}
  PROVE  /\ Max(S) \in S /\ \A o \in S : o <= Max(S)
         /\ Min(S) \in S /\ \A o \in S : Min(S) <= o
<1>1. IsFiniteSet(S) /\ S \subseteq Nat
  BY TransfersAssumption, FS_Subset
<1>2. \E m \in S : \A o \in S : m >= o
  <2> DEFINE f == [o \in S |-> o]
  <2>1. f \in [S -> Int]
    BY <1>1
  <2>2. \E m \in S : \A o \in S : f[o] <= f[m]
    BY <1>1, <2>1, HighestScore
  <2> QED
    BY <1>1, <2>2
<1>3. \E m \in S : \A o \in S : m <= o
  <2> DEFINE f == [o \in S |-> -o]
  <2>1. f \in [S -> Int]
    BY <1>1
  <2>2. \E m \in S : \A o \in S : f[o] <= f[m]
    BY <1>1, <2>1, HighestScore
  <2> QED
    BY <1>1, <2>2
<1>4. Max(S) \in S /\ \A o \in S : Max(S) >= o
  BY <1>2 DEF Max
<1>5. Min(S) \in S /\ \A o \in S : Min(S) <= o
  BY <1>3 DEF Min
<1> QED
  BY <1>1, <1>4, <1>5

------------------------------------------------------------------------------
\* What is kept of an order that is there: rows never vanish, so no reading of
\* one is lost with it, and Breet deals only for orders that are there.
Lasting ==
  /\ \A d \in Order : /\ deals[d].trade # "none" => Exists(d)
                      /\ deals[d].payout # "none" => deals[d].trade = "completed"
  /\ \A o \in due : Exists(o)
  /\ \A h \in Handler : write[h] # NoWrite => write[h].row.status # "none"
  /\ \A w \in recon.todo : w.row.status # "none"
  /\ \A s \in recon.seen : /\ deals[s.deal].payout # "none"
                           /\ s.status \in {"completed", "failed"} => deals[s.deal].payout = s.status

\* The statuses, listed.
LEMMA StatusNames ==
  Status = {"awaiting_crypto_deposit", "blockchain_confirmed", "settlement_processing", "bank_processing",
            "completed", "none", "requires_review", "failed", "expired", "cancelled"}
<1>1. DOMAIN Ranked = 1..5
  BY DEF Ranked
<1>2. {Ranked[i] : i \in 1..5} = {Ranked[1], Ranked[2], Ranked[3], Ranked[4], Ranked[5]}
  OBVIOUS
<1> QED
  BY <1>1, <1>2 DEF Status, Ranked, Unranked

\* The best match at an address is an order of that address.
LEMMA BestIsOne ==
  ASSUME NEW S \in SUBSET Order, S # {}, NEW e
  PROVE  Best(S, e) \in S
<1> DEFINE open == {o \in S : rows[o].status \notin {"completed", "failed", "expired", "cancelled"}}
           pool == IF Cardinality(S) = 1 \/ open = {} THEN S ELSE open
           score(o) == (IF Amount[o] = Amount[e.deal] THEN 8 ELSE 0)
                       + (IF o <= deals[e.deal].since[e.kind] THEN 2 ELSE 0)
           better(o, p) == \/ score(p) < score(o)
                           \/ score(p) = score(o) /\ p <= o
<1>1. pool \subseteq S /\ pool # {} /\ pool \in SUBSET Order /\ IsFiniteSet(pool)
  BY TransfersAssumption, FS_Subset
<1>2. Best(S, e) = CHOOSE o \in pool : \A p \in pool : better(o, p)
  BY DEF Best
<1>3. \A o \in pool : score(o) \in Int
  OBVIOUS
<1> HIDE DEF pool, score
<1>4. PICK top \in pool : \A p \in pool : score(p) <= score(top)
  <2> DEFINE f == [o \in pool |-> score(o)]
  <2>1. f \in [pool -> Int]
    BY <1>3
  <2>2. \E m \in pool : \A p \in pool : f[p] <= f[m]
    BY <1>1, <2>1, HighestScore
  <2> QED
    BY <2>2
<1> DEFINE tied == {o \in pool : score(o) = score(top)}
<1>5. Max(tied) \in tied /\ \A p \in tied : p <= Max(tied)
  BY <1>1, <1>4, Extremes
<1>6. \A p \in pool : better(Max(tied), p)
  BY <1>3, <1>4, <1>5
<1>7. \E o \in pool : \A p \in pool : better(o, p)
  BY <1>5, <1>6
<1> QED
  BY <1>1, <1>2, <1>7

\* An event is matched to an order, and so is a settlement.
LEMMA FindsOrders ==
  ASSUME Lasting, NEW e \in Events, Happened(e), NEW fetched \in BOOLEAN
  PROVE  Find(e, fetched) \subseteq Order
<1>1. e.deal \in Order /\ e.kind \in {"trade", "payout"} /\ Exists(e.deal)
  BY DEF Events, Happened, Lasting
<1>2. Knows(e.deal) # {} => Min(Knows(e.deal)) \in Order
  BY Extremes DEF Knows
<1>3. Best(At(Address[e.deal]), e) \in Order
  <2>1. At(Address[e.deal]) \in SUBSET Order /\ At(Address[e.deal]) # {}
    BY <1>1 DEF At
  <2> QED
    BY <2>1, BestIsOne
<1>4. ByAmount(e) \subseteq Order
  BY DEF ByAmount
<1> QED
  BY <1>2, <1>3, <1>4 DEF Find

LEMMA MatchesOrders ==
  ASSUME TypeOK, Lasting, NEW s \in recon.seen, NEW fetched
  PROVE  Match(s, fetched) \subseteq Order
<1>1. s.deal \in Order /\ Exists(s.deal)
  BY DEF TypeOK, Lasting
<1> DEFINE here == At(Address[s.deal])
           open == {o \in here : Unsettled(o)}
           same == {o \in open : Amount[o] = Amount[s.deal]}
<1>2. here \in SUBSET Order /\ here # {} /\ open \in SUBSET Order /\ same \in SUBSET Order
  BY <1>1 DEF At
<1>3. /\ Knows(s.deal) # {} => Min(Knows(s.deal)) \in Order
      /\ open # {} => Min(open) \in Order
      /\ Max(here) \in Order
  BY <1>2, Extremes DEF Knows
<1>4. Match(s, fetched) = IF Knows(s.deal) # {} THEN {Min(Knows(s.deal))}
                          ELSE IF s.deal \notin fetched THEN {}
                          ELSE IF Cardinality(open) > 1 /\ Cardinality(same) = 1 THEN same
                          ELSE IF open # {} THEN {Min(open)}
                          ELSE {Max(here)}
  BY DEF Match
<1> HIDE DEF here, open, same
<1> QED
  BY <1>2, <1>3, <1>4

\* What an event makes of a row is a row, and one that is there.
LEMMA SettledRow ==
  ASSUME NEW e \in Events, NEW row \in Row, NEW new \in Settled(row, e)
  PROVE  new \in Row /\ new.status # "none"
<1>1. e.deal \in Order /\ e.status \in {"pending", "completed", "flagged", "failed"}
  BY DEF Events
<1>2. /\ FromEvent(e) \in {"failed", "completed", "bank_processing", "settlement_processing", "blockchain_confirmed"}
      /\ new \in {Moved(row, "requires_review"), Learned(row, FromEvent(e), e.deal)}
  BY DEF FromEvent, Settled
<1>3. {"failed", "completed", "bank_processing", "settlement_processing", "blockchain_confirmed",
       "requires_review"} \subseteq Status
  BY StatusNames
<1> QED
  BY <1>1, <1>2, <1>3 DEF Row, Moved, Learned

------------------------------------------------------------------------------
\* Every action keeps the types and what lasts.
Kept == TypeOK /\ Lasting

\* A handler that plans to write a row plans to write a row of an order.
LEMMA PlansKept ==
  ASSUME Kept, NEW h \in Handler, NEW o \in Order, NEW row \in Row, row.status # "none",
         Plans(h, o, row), due' \subseteq due, delivered' \in 0..MaxDeliveries, faults' \in 0..MaxFaults,
         UNCHANGED <<rows, deals, recon>>
  PROVE  Kept'
<1>1. write' \in [Handler -> [id : Order \cup {NoTrade}, row : Row]]
  BY DEF Kept, TypeOK, Plans
<1>2. TypeOK'
  BY <1>1 DEF Kept, TypeOK
<1>3. Lasting'
  BY DEF Kept, TypeOK, Lasting, Exists, Plans
<1> QED
  BY <1>2, <1>3 DEF Kept

\* A row with another status is a row.
LEMMA MovedRow ==
  ASSUME NEW row \in Row, NEW status \in Status
  PROVE  Moved(row, status) \in Row /\ Moved(row, status).status = status
BY DEF Row, Moved

LEMMA FaultKept == ASSUME Kept, Fault PROVE faults' \in 0..MaxFaults
BY TransfersAssumption DEF Kept, TypeOK, Fault

\* A write of an order's row leaves it there.
LEMMA RowKept ==
  ASSUME Kept, NEW o, NEW row \in Row, row.status # "none", rows' = [rows EXCEPT ![o] = row]
  PROVE  rows' \in [Order -> Row] /\ \A p \in Order : Exists(p) => Exists(p)'
BY DEF Kept, TypeOK, Exists

\* Acceptance, sweep, cancellation and retry.
LEMMA RequestKept ==
  ASSUME Kept, NEW o \in Order,
         \/ Accept(o) \/ SweepSkipped(o)
         \/ \E h \in Handler : Cancel(h, o) \/ Retry(h, o) \/ \E submitted \in BOOLEAN : Sweep(h, o, submitted)
  PROVE  Kept'
<1>1. CASE Accept(o)
  <2> DEFINE row == Moved(Absent, "awaiting_crypto_deposit")
  <2>1. row \in Row /\ row.status # "none"
    BY StatusNames DEF Moved, Absent, Row
  <2>2. rows' \in [Order -> Row] /\ \A p \in Order : Exists(p) => Exists(p)'
    BY <1>1, <2>1, RowKept DEF Accept
  <2>3. Exists(o)'
    BY <1>1, <2>1 DEF Accept, Exists, Kept, TypeOK
  <2> QED
    BY <1>1, <2>2, <2>3 DEF Accept, Kept, TypeOK, Lasting
<1>2. CASE SweepSkipped(o)
  BY <1>2 DEF SweepSkipped, Kept, TypeOK, Lasting, Exists
<1>3. ASSUME NEW h \in Handler, Cancel(h, o) PROVE Kept'
  <2>1. Moved(rows[o], "cancelled") \in Row /\ Moved(rows[o], "cancelled").status # "none"
    BY MovedRow, StatusNames DEF Kept, TypeOK
  <2> QED
    BY <1>3, <2>1, PlansKept DEF Cancel, Kept, TypeOK
<1>4. ASSUME NEW h \in Handler, Retry(h, o) PROVE Kept'
  <2>1. Moved(rows[o], "settlement_processing") \in Row /\ Moved(rows[o], "settlement_processing").status # "none"
    BY MovedRow, StatusNames DEF Kept, TypeOK
  <2>2. faults' \in 0..MaxFaults
    BY <1>4, FaultKept DEF Retry
  <2> QED
    BY <1>4, <2>1, <2>2, PlansKept DEF Retry, Kept, TypeOK
<1>5. ASSUME NEW h \in Handler, NEW submitted \in BOOLEAN, Sweep(h, o, submitted) PROVE Kept'
  <2> DEFINE status == IF submitted THEN "settlement_processing" ELSE rows[o].status
  <2>1. status \in Status /\ status # "none"
    BY <1>5, StatusNames DEF Sweep, Kept, TypeOK, Row, Lasting, Exists
  <2>2. Moved(rows[o], status) \in Row /\ Moved(rows[o], status).status # "none"
    BY <2>1, MovedRow DEF Kept, TypeOK
  <2> QED
    BY <1>5, <2>2, PlansKept DEF Sweep, Kept, TypeOK
<1> QED
  BY <1>1, <1>2, <1>3, <1>4, <1>5

\* Webhooks, and the writes of handlers.
LEMMA HandlerKept ==
  ASSUME Kept, NEW h \in Handler,
         HandlerWrites(h) \/ \E e \in Events, fetched \in BOOLEAN : Webhook(h, e, fetched)
  PROVE  Kept'
<1>1. CASE HandlerWrites(h)
  <2>1. write[h].row \in Row /\ write[h].row.status # "none"
    BY <1>1 DEF HandlerWrites, Kept, TypeOK, Lasting
  <2>2. rows' \in [Order -> Row] /\ \A p \in Order : Exists(p) => Exists(p)'
    BY <1>1, <2>1, RowKept DEF HandlerWrites
  <2>3. write' \in [Handler -> [id : Order \cup {NoTrade}, row : Row]]
    BY <1>1, StatusNames DEF HandlerWrites, Kept, TypeOK, NoWrite, Absent, Row
  <2>4. TypeOK'
    BY <1>1, <2>2, <2>3 DEF HandlerWrites, Kept, TypeOK
  <2>5. Lasting'
    BY <1>1, <2>2 DEF HandlerWrites, Kept, TypeOK, Lasting
  <2> QED
    BY <2>4, <2>5 DEF Kept
<1>2. ASSUME NEW e \in Events, NEW fetched \in BOOLEAN, Webhook(h, e, fetched) PROVE Kept'
  <2> DEFINE found == {o \in Find(e, fetched) : Settled(rows[o], e) # {}}
  <2>1. delivered' \in 0..MaxDeliveries
    BY <1>2, TransfersAssumption DEF Webhook, Kept, TypeOK
  <2>2. Find(e, fetched) \subseteq Order
    BY <1>2, FindsOrders DEF Webhook, Kept
  <2>3. CASE UNCHANGED write
    BY <1>2, <2>1, <2>3 DEF Webhook, Kept, TypeOK, Lasting, Exists
  <2>4. ASSUME NEW o \in found, NEW row \in Settled(rows[o], e), Plans(h, o, row) PROVE Kept'
    <3>1. o \in Order /\ rows[o] \in Row
      BY <2>2 DEF Kept, TypeOK
    <3>2. row \in Row /\ row.status # "none"
      BY <3>1, SettledRow
    <3> QED
      BY <1>2, <2>1, <2>4, <3>1, <3>2, PlansKept DEF Webhook, Kept, TypeOK
  <2> QED
    BY <1>2, <2>3, <2>4 DEF Webhook
<1> QED
  BY <1>1, <1>2

\* What there is of an order at Breet.
Deal == [trade : {"none", "pending", "completed", "flagged", "failed"},
         payout : {"none", "pending", "completed", "failed"},
         since : [trade : Order \cup {NoTrade}, payout : Order \cup {NoTrade}]]

\* Breet.
LEMMA ProviderKept ==
  ASSUME Kept, NEW d \in Order,
         \/ TradeOpens(d) \/ PayoutOpens(d)
         \/ \E status \in {"completed", "flagged", "failed"} : TradeEnds(d, status)
         \/ \E status \in {"completed", "failed"} : PayoutEnds(d, status)
  PROVE  Kept'
<1> USE DEF Kept, TypeOK, Becomes
<1> USE DEF Deal
<1> DEFINE Dealt(deal) == /\ deal \in Deal
                          /\ Exists(d)
                          /\ deal.payout # "none" => deal.trade = "completed"
                          /\ deals[d].payout \in {"completed", "failed"} => deal.payout = deals[d].payout
                          /\ deals[d].payout # "none" => deal.payout # "none"
<1>1. ASSUME NEW deal, Becomes(d, deal), Dealt(deal) PROVE Kept'
  <2>1. TypeOK'
    BY <1>1
  <2>2. deals'[d] = deal /\ \A o \in Order : o # d => deals'[o] = deals[o]
    BY <1>1
  <2>3. Lasting'
    BY <1>1, <2>2 DEF Lasting, Exists
  <2> QED
    BY <2>1, <2>3
<1>2. /\ Exists(d) => Newest(Address[d]) \in Order
      /\ deals[d] \in Deal /\ (deals[d].payout # "none" => deals[d].trade = "completed" /\ Exists(d))
  <2>1. Exists(d) => At(Address[d]) \in SUBSET Order /\ At(Address[d]) # {}
    BY DEF At
  <2> QED
    BY <2>1, Extremes DEF Newest, Lasting
<1>3. CASE TradeOpens(d) \/ PayoutOpens(d)
  <2>1. Exists(d)
    BY <1>3 DEF TradeOpens, PayoutOpens, Lasting
  <2>2. ASSUME TradeOpens(d) PROVE Dealt([deals[d] EXCEPT !.trade = "pending", !.since.trade = Newest(Address[d])])
    BY <1>2, <2>1, <2>2 DEF TradeOpens
  <2>3. ASSUME PayoutOpens(d) PROVE Dealt([deals[d] EXCEPT !.payout = "pending", !.since.payout = Newest(Address[d])])
    BY <1>2, <2>1, <2>3 DEF PayoutOpens
  <2> QED
    BY <1>1, <1>3, <2>2, <2>3 DEF TradeOpens, PayoutOpens
<1>4. ASSUME NEW status \in {"completed", "flagged", "failed"}, TradeEnds(d, status) PROVE Kept'
  BY <1>4 DEF TradeEnds, Lasting, Exists
<1>5. ASSUME NEW status \in {"completed", "failed"}, PayoutEnds(d, status) PROVE Kept'
  BY <1>5 DEF PayoutEnds, Lasting, Exists
<1> QED
  BY <1>3, <1>4, <1>5

\* The reconciler, and a crash.
LEMMA ReconcilerKept == ASSUME Kept, Reconciler PROVE Kept'
<1> USE DEF Kept, TypeOK
<1>1. ASSUME NEW old \in SUBSET Order, ReconStarts(old) PROVE Kept'
  <2>1. \A o \in old : Moved(rows[o], "expired") \in Row /\ Moved(rows[o], "expired").status # "none"
    BY MovedRow, StatusNames
  <2>2. /\ recon'.todo \subseteq [id : Order, row : Row]
        /\ \A w \in recon'.todo : w.row.status # "none"
    BY <1>1, <2>1 DEF ReconStarts
  <2> QED
    BY <1>1, <2>2 DEF ReconStarts, Lasting, Exists
<1>2. CASE ReconLists
  BY <1>2 DEF ReconLists, Lasting, Exists
<1>3. CASE ReconFails
  BY <1>3 DEF ReconFails, IdlePass, Lasting, Exists
<1>4. ASSUME NEW fetched \in SUBSET Order, ReconPlans(fetched) PROVE Kept'
  <2> DEFINE plans(s) == {[id |-> o, row |-> Learned(rows[o], FromSettlement(s), s.deal)] :
                            o \in {m \in Match(s, fetched) : Advances(rows[m], FromSettlement(s))}}
             todo == UNION {plans(s) : s \in recon.seen}
  <2>1. recon' = IF todo = {} THEN IdlePass ELSE [at |-> "settle", seen |-> {}, todo |-> todo]
    BY <1>4 DEF ReconPlans
  <2>2. ASSUME NEW s \in recon.seen, NEW w \in plans(s)
        PROVE  w \in [id : Order, row : Row] /\ w.row.status # "none"
    <3>1. s.deal \in Order /\ Match(s, fetched) \subseteq Order
      BY MatchesOrders
    <3>2. FromSettlement(s) \in {"completed", "failed", "bank_processing"}
      BY DEF FromSettlement
    <3>3. \A o \in Order : /\ Learned(rows[o], FromSettlement(s), s.deal) \in Row
                           /\ Learned(rows[o], FromSettlement(s), s.deal).status # "none"
      BY <3>1, <3>2, StatusNames DEF Learned, Row
    <3> QED
      BY <3>1, <3>3
  <2>3. \A w \in todo : w \in [id : Order, row : Row] /\ w.row.status # "none"
    BY <2>2
  <2> HIDE DEF todo
  <2> QED
    BY <1>4, <2>1, <2>3 DEF ReconPlans, IdlePass, Lasting, Exists
<1>5. CASE ReconWrites
  <2>1. PICK w \in recon.todo : /\ rows' = [rows EXCEPT ![w.id] = w.row]
                                /\ recon' = IF recon.at = "settle" /\ recon.todo = {w} THEN IdlePass
                                            ELSE [recon EXCEPT !.todo = @ \ {w}]
    BY <1>5 DEF ReconWrites
  <2>2. w.row \in Row /\ w.row.status # "none"
    BY DEF Lasting
  <2>3. rows' \in [Order -> Row] /\ \A p \in Order : Exists(p) => Exists(p)'
    BY <2>1, <2>2, RowKept
  <2> QED
    BY <1>5, <2>1, <2>3 DEF ReconWrites, IdlePass, Lasting
<1> QED
  BY <1>1, <1>2, <1>3, <1>4, <1>5 DEF Reconciler

LEMMA CrashKept == ASSUME Kept, Crash PROVE Kept'
<1>1. NoWrite \in [id : Order \cup {NoTrade}, row : Row]
  BY StatusNames DEF NoWrite, Absent, Row
<1> QED
  BY <1>1, FaultKept DEF Crash, Kept, TypeOK, Lasting, IdlePass, Exists

LEMMA StartKept == Init => Kept
<1>1. NoWrite \in [id : Order \cup {NoTrade}, row : Row] /\ Absent \in Row
  BY StatusNames DEF NoWrite, Absent, Row
<1> QED
  BY <1>1, TransfersAssumption DEF Init, Kept, TypeOK, Lasting, IdlePass, NoDeal

LEMMA StepKept == Kept /\ [Next]_vars => Kept'
<1> SUFFICES ASSUME Kept, [Next]_vars PROVE Kept'
  OBVIOUS
<1>1. CASE UNCHANGED vars
  BY <1>1 DEF vars, Kept, TypeOK, Lasting, Exists
<1>2. CASE Provider
  BY <1>2, ProviderKept DEF Provider
<1>3. CASE Service
  BY <1>3, RequestKept, HandlerKept, CrashKept DEF Service
<1>4. CASE Reconciler
  BY <1>4, ReconcilerKept
<1> QED
  BY <1>1, <1>2, <1>3, <1>4 DEF Next

LEMMA AlwaysKept == Spec => []Kept
BY StartKept, StepKept, PTL DEF Spec

\* Rows, deals, readings in flight and the reconciler's pass keep their types, in
\* particular every event and settlement is matched to an order that exists,
\* addresses shared or not.
THEOREM TypeCorrect == Spec => []TypeOK
<1>1. Kept => TypeOK
  BY DEF Kept
<1> QED
  BY <1>1, AlwaysKept, PTL

------------------------------------------------------------------------------
\* A reading of a row that may be written back: whatever it says of the end of
\* the order's payout is true of the order's own deal, and stays true.
Sound(o, row) ==
  /\ row.trade \in {NoTrade, o}
  /\ row.status \in {"completed", "failed"} => row.trade = o
  /\ row.status = "completed" => deals[o].payout = "completed"
  /\ row.status = "failed" => "failed" \in {deals[o].trade, deals[o].payout}

\* Rows, and every reading of one that is still to be written, are sound.
Truthful ==
  /\ \A o \in Order : Sound(o, rows[o])
  /\ \A h \in Handler : write[h] # NoWrite => write[h].id \in Order /\ Sound(write[h].id, write[h].row)
  /\ \A w \in recon.todo : Sound(w.id, w.row)

\* Where every order has an address of its own, the order at the address of a
\* deal is the order of that deal, and only it knows the deal's trade.
LEMMA OwnDeal ==
  ASSUME OwnAddresses, Kept, Truthful, NEW d \in Order, Exists(d)
  PROVE  At(Address[d]) = {d} /\ Knows(d) \subseteq {d} /\ (Knows(d) = {} => Unsettled(d))
<1>1. At(Address[d]) = {d}
  BY DEF OwnAddresses, At
<1>2. Knows(d) \subseteq {d}
  BY TransfersAssumption DEF Knows, Truthful, Sound, NoTrade
<1>3. Knows(d) = {} => Unsettled(d)
  BY DEF Knows, Truthful, Sound, Unsettled
<1> QED
  BY <1>1, <1>2, <1>3

\* An event is matched to the order of its deal or to none ...
LEMMA FindsOwn ==
  ASSUME OwnAddresses, Kept, Truthful, NEW e \in Events, Happened(e), NEW fetched \in BOOLEAN
  PROVE  Find(e, fetched) \subseteq {e.deal}
<1> DEFINE d == e.deal
<1>1. d \in Order /\ Exists(d)
  BY DEF Events, Happened, Kept, Lasting
<1>2. At(Address[d]) = {d} /\ Knows(d) \subseteq {d} /\ (Knows(d) = {} => Unsettled(d))
  BY <1>1, OwnDeal
<1>3. CASE Knows(d) # {}
  <2>1. Min(Knows(d)) = d
    BY <1>1, <1>2, <1>3, Extremes
  <2> QED
    BY <1>3, <2>1 DEF Find
<1>4. CASE Knows(d) = {} /\ (e.kind = "trade" \/ fetched)
  <2>1. Best(At(Address[d]), e) = d
    BY <1>1, <1>2, BestIsOne
  <2> QED
    BY <1>4, <2>1 DEF Find
<1>5. CASE Knows(d) = {} /\ ~(e.kind = "trade" \/ fetched)
  <2> DEFINE same == {o \in Order : Unsettled(o) /\ Amount[o] = Amount[d]}
  <2>1. d \in same
    BY <1>1, <1>2, <1>5
  <2>2. Cardinality(same) = 1 => same = {d}
    <3>1. IsFiniteSet(same)
      BY TransfersAssumption, FS_Subset
    <3> HIDE DEF same
    <3>2. Cardinality(same) = 1 => \E o : same = {o}
      BY <3>1, FS_Singleton
    <3> QED
      BY <2>1, <3>2
  <2> QED
    BY <1>5, <2>2 DEF Find, ByAmount
<1> QED
  BY <1>3, <1>4, <1>5

\* ... and so is a settlement.
LEMMA MatchesOwn ==
  ASSUME OwnAddresses, Kept, Truthful, NEW s \in recon.seen, NEW fetched
  PROVE  Match(s, fetched) \subseteq {s.deal}
<1> DEFINE d == s.deal
           here == At(Address[d])
           open == {o \in here : Unsettled(o)}
           same == {o \in open : Amount[o] = Amount[d]}
<1>1. d \in Order /\ Exists(d)
  BY DEF Kept, TypeOK, Lasting
<1>2. here = {d} /\ Knows(d) \subseteq {d}
  BY <1>1, OwnDeal
<1>3. same \subseteq {d} /\ open \subseteq {d}
  BY <1>2
<1>4. /\ Knows(d) # {} => Min(Knows(d)) = d
      /\ open # {} => Min(open) = d
      /\ Max(here) = d
  <2>1. \A S \in SUBSET {d} : S # {} => Min(S) = d /\ Max(S) = d
    BY <1>1, Extremes
  <2> QED
    BY <1>2, <1>3, <2>1
<1>5. Match(s, fetched) = IF Knows(d) # {} THEN {Min(Knows(d))}
                          ELSE IF d \notin fetched THEN {}
                          ELSE IF Cardinality(open) > 1 /\ Cardinality(same) = 1 THEN same
                          ELSE IF open # {} THEN {Min(open)}
                          ELSE {Max(here)}
  BY DEF Match
<1> HIDE DEF here, open, same
<1> QED
  BY <1>3, <1>4, <1>5

\* What an event of its own deal makes of a sound row is sound.
LEMMA SettledSound ==
  ASSUME Kept, NEW e \in Events, Happened(e), Sound(e.deal, rows[e.deal]), NEW new \in Settled(rows[e.deal], e)
  PROVE  Sound(e.deal, new)
<1> DEFINE d == e.deal
<1>1. /\ d \in Order /\ rows[d] \in Row /\ deals[d] \in Deal
      /\ e.kind \in {"trade", "payout"} /\ e.status \in {"pending", "completed", "flagged", "failed"}
  BY DEF Events, Kept, TypeOK, Deal
<1>2. CASE new = Moved(rows[d], "requires_review")
  BY <1>1, <1>2 DEF Sound, Moved, Row
<1>3. CASE new = Learned(rows[d], FromEvent(e), d)
  <2>1. new.trade = d /\ new.status = FromEvent(e)
    BY <1>3 DEF Learned
  <2>2. CASE e.status = "failed"
    <3>1. deals[d][e.kind] = "failed" /\ FromEvent(e) = "failed"
      BY <2>2 DEF Happened, FromEvent
    <3> QED
      BY <1>1, <2>1, <3>1 DEF Sound
  <2>3. CASE e.status = "completed" /\ e.kind = "payout"
    <3>1. deals[d].payout = "completed" /\ FromEvent(e) = "completed"
      BY <2>3 DEF Happened, FromEvent
    <3> QED
      BY <2>1, <3>1 DEF Sound
  <2>4. CASE e.status # "failed" /\ ~(e.status = "completed" /\ e.kind = "payout")
    <3>1. FromEvent(e) \notin {"completed", "failed"}
      BY <2>4 DEF FromEvent
    <3> QED
      BY <2>1, <3>1 DEF Sound
  <2> QED
    BY <2>2, <2>3, <2>4
<1> QED
  BY <1>2, <1>3 DEF Settled

\* An order's row with a status that ends nothing is as sound as it was.
LEMMA MovedSound ==
  ASSUME NEW o \in Order, rows[o] \in Row, Sound(o, rows[o]), NEW status, status \notin {"completed", "failed"}
  PROVE  Sound(o, Moved(rows[o], status))
<1>1. Moved(rows[o], status).status = status /\ Moved(rows[o], status).trade = rows[o].trade
  BY DEF Moved, Row
<1> QED
  BY <1>1 DEF Sound

------------------------------------------------------------------------------
\* A handler that plans a sound row keeps everything sound.
LEMMA PlansTruthful ==
  ASSUME Kept, Truthful, NEW h \in Handler, NEW o \in Order, NEW row, Sound(o, row), Plans(h, o, row),
         UNCHANGED <<rows, deals, recon>>
  PROVE  Truthful'
BY DEF Kept, TypeOK, Truthful, Sound, Plans

\* So does whoever writes one, and whoever leaves everything alone but readings
\* that are given up.
LEMMA WriteTruthful ==
  ASSUME Kept, Truthful, NEW o, NEW row, Sound(o, row), rows' = [rows EXCEPT ![o] = row],
         UNCHANGED deals,
         \A h \in Handler : write'[h] \in {write[h], NoWrite},
         recon'.todo \subseteq recon.todo
  PROVE  Truthful'
BY DEF Kept, TypeOK, Truthful, Sound

LEMMA StillTruthful ==
  ASSUME Kept, Truthful, UNCHANGED <<rows, deals>>,
         \A h \in Handler : write'[h] \in {write[h], NoWrite},
         recon'.todo \subseteq recon.todo
  PROVE  Truthful'
BY DEF Truthful, Sound

\* What ended at Breet has ended.
LEMMA ProviderTruthful ==
  ASSUME Kept, Truthful, Provider
  PROVE  Truthful'
<1>1. /\ UNCHANGED <<rows, write, recon>>
      /\ \A o \in Order : /\ deals[o].payout = "completed" => deals'[o].payout = "completed"
                          /\ deals[o].payout = "failed" => deals'[o].payout = "failed"
                          /\ deals[o].trade = "failed" => deals'[o].trade = "failed"
  <2>1. PICK d \in Order :
          \/ TradeOpens(d) \/ PayoutOpens(d)
          \/ \E status \in {"completed", "flagged", "failed"} : TradeEnds(d, status)
          \/ \E status \in {"completed", "failed"} : PayoutEnds(d, status)
    BY DEF Provider
  <2>2. deals \in [Order -> Deal]
    BY DEF Kept, TypeOK, Deal
  <2>3. CASE TradeOpens(d)
    BY <2>2, <2>3 DEF TradeOpens, Becomes, Deal
  <2>4. CASE PayoutOpens(d)
    BY <2>2, <2>4 DEF PayoutOpens, Becomes, Deal
  <2>5. ASSUME NEW status, TradeEnds(d, status)
        PROVE  /\ UNCHANGED <<rows, write, recon>>
               /\ \A o \in Order : /\ deals'[o].payout = deals[o].payout
                                   /\ deals[o].trade = "failed" => deals'[o].trade = "failed"
    BY <2>2, <2>5 DEF TradeEnds, Becomes, Deal
  <2>6. ASSUME NEW status, PayoutEnds(d, status)
        PROVE  /\ UNCHANGED <<rows, write, recon>>
               /\ \A o \in Order : /\ deals'[o].trade = deals[o].trade
                                   /\ deals[o].payout # "pending" => deals'[o].payout = deals[o].payout
    BY <2>2, <2>6 DEF PayoutEnds, Becomes, Deal
  <2> QED
    BY <2>1, <2>3, <2>4, <2>5, <2>6
<1>2. ASSUME NEW o \in Order, NEW row, Sound(o, row) PROVE Sound(o, row)'
  BY <1>1, <1>2 DEF Sound
<1>3. \A w \in recon.todo : w.id \in Order
  BY DEF Kept, TypeOK
<1>4. (\A o \in Order : Sound(o, rows[o]))'
  BY <1>1, <1>2 DEF Truthful
<1>5. (\A h \in Handler : write[h] # NoWrite => write[h].id \in Order /\ Sound(write[h].id, write[h].row))'
  BY <1>1, <1>2 DEF Truthful
<1>6. (\A w \in recon.todo : Sound(w.id, w.row))'
  BY <1>1, <1>2, <1>3 DEF Truthful
<1> QED
  BY <1>4, <1>5, <1>6 DEF Truthful

\* Acceptance, sweeps, cancellations, retries, webhooks, handlers' writes, a crash.
LEMMA ServiceTruthful ==
  ASSUME OwnAddresses, Kept, Truthful, Service
  PROVE  Truthful'
<1>1. \A o \in Order : rows[o] \in Row /\ Sound(o, rows[o])
  BY DEF Kept, TypeOK, Truthful
<1>2. ASSUME NEW o \in Order, Accept(o) PROVE Truthful'
  <2>1. Sound(o, Moved(Absent, "awaiting_crypto_deposit"))
    BY DEF Sound, Moved, Absent
  <2> QED
    BY <1>2, <2>1, WriteTruthful DEF Accept
<1>3. ASSUME NEW o \in Order, SweepSkipped(o) PROVE Truthful'
  BY <1>3, StillTruthful DEF SweepSkipped
<1>4. ASSUME NEW h \in Handler, HandlerWrites(h) PROVE Truthful'
  <2>1. Sound(write[h].id, write[h].row)
    BY <1>4 DEF HandlerWrites, Truthful
  <2>2. \A g \in Handler : write'[g] \in {write[g], NoWrite}
    BY <1>4 DEF HandlerWrites, Kept, TypeOK
  <2> QED
    BY <1>4, <2>1, <2>2, WriteTruthful DEF HandlerWrites
<1>5. ASSUME NEW h \in Handler, NEW o \in Order, Cancel(h, o) PROVE Truthful'
  <2>1. Sound(o, Moved(rows[o], "cancelled"))
    BY <1>1, MovedSound
  <2> QED
    BY <1>5, <2>1, PlansTruthful DEF Cancel
<1>6. ASSUME NEW h \in Handler, NEW o \in Order, Retry(h, o) PROVE Truthful'
  <2>1. Sound(o, Moved(rows[o], "settlement_processing"))
    BY <1>1, MovedSound
  <2> QED
    BY <1>6, <2>1, PlansTruthful DEF Retry
<1>7. ASSUME NEW h \in Handler, NEW o \in Order, NEW submitted \in BOOLEAN, Sweep(h, o, submitted) PROVE Truthful'
  <2>1. Sound(o, Moved(rows[o], IF submitted THEN "settlement_processing" ELSE rows[o].status))
    <3>1. CASE submitted
      BY <1>1, <3>1, MovedSound
    <3>2. CASE ~submitted
      <4>1. Moved(rows[o], rows[o].status) = rows[o]
        BY <1>1 DEF Moved, Row
      <4> QED
        BY <1>1, <3>2, <4>1
    <3> QED
      BY <3>1, <3>2
  <2> QED
    BY <1>7, <2>1, PlansTruthful DEF Sweep
<1>8. ASSUME NEW h \in Handler, NEW e \in Events, NEW fetched \in BOOLEAN, Webhook(h, e, fetched) PROVE Truthful'
  <2>1. CASE UNCHANGED write
    BY <1>8, <2>1, StillTruthful DEF Webhook
  <2>2. ASSUME NEW o \in Find(e, fetched), NEW row \in Settled(rows[o], e), Plans(h, o, row) PROVE Truthful'
    <3>1. Happened(e) /\ e.deal \in Order
      BY <1>8 DEF Webhook, Events
    <3>2. o = e.deal
      BY <3>1, FindsOwn
    <3>3. Sound(o, row)
      BY <1>1, <3>1, <3>2, SettledSound
    <3> QED
      BY <1>8, <2>2, <3>1, <3>2, <3>3, PlansTruthful DEF Webhook
  <2> QED
    BY <1>8, <2>1, <2>2 DEF Webhook
<1>9. CASE Crash
  BY <1>9, StillTruthful DEF Crash, IdlePass
<1> QED
  BY <1>2, <1>3, <1>4, <1>5, <1>6, <1>7, <1>8, <1>9 DEF Service

LEMMA ReconcilerTruthful ==
  ASSUME OwnAddresses, Kept, Truthful, Reconciler
  PROVE  Truthful'
<1>1. \A o \in Order : rows[o] \in Row /\ Sound(o, rows[o])
  BY DEF Kept, TypeOK, Truthful
<1> DEFINE Planned == /\ UNCHANGED <<rows, deals, write>>
                      /\ \A w \in recon'.todo : Sound(w.id, w.row)
<1>2. Planned => Truthful'
  BY DEF Truthful, Sound
<1>3. ASSUME NEW old \in SUBSET Order, ReconStarts(old) PROVE Planned
  <2>1. \A o \in old : Sound(o, Moved(rows[o], "expired"))
    BY <1>1, MovedSound
  <2> QED
    BY <1>3, <2>1 DEF ReconStarts
<1>4. CASE ReconLists \/ ReconFails
  BY <1>4, StillTruthful DEF ReconLists, ReconFails, IdlePass
<1>5. ASSUME NEW fetched \in SUBSET Order, ReconPlans(fetched) PROVE Planned
  <2> DEFINE plans(s) == {[id |-> o, row |-> Learned(rows[o], FromSettlement(s), s.deal)] :
                            o \in {m \in Match(s, fetched) : Advances(rows[m], FromSettlement(s))}}
             todo == UNION {plans(s) : s \in recon.seen}
  <2>1. recon' = IF todo = {} THEN IdlePass ELSE [at |-> "settle", seen |-> {}, todo |-> todo]
    BY <1>5 DEF ReconPlans
  <2>2. ASSUME NEW s \in recon.seen, NEW w \in plans(s) PROVE Sound(w.id, w.row)
    <3>1. w.id = s.deal /\ w.row = Learned(rows[s.deal], FromSettlement(s), s.deal)
      BY MatchesOwn
    <3>2. /\ FromSettlement(s) = "completed" => deals[s.deal].payout = "completed"
          /\ FromSettlement(s) = "failed" => deals[s.deal].payout = "failed"
      BY DEF FromSettlement, Kept, Lasting
    <3> QED
      BY <3>1, <3>2 DEF Sound, Learned
  <2>3. \A w \in todo : Sound(w.id, w.row)
    BY <2>2
  <2> HIDE DEF todo
  <2> QED
    BY <1>5, <2>1, <2>3 DEF ReconPlans, IdlePass
<1>6. CASE ReconWrites
  <2>1. PICK w \in recon.todo : /\ rows' = [rows EXCEPT ![w.id] = w.row]
                                /\ recon' = IF recon.at = "settle" /\ recon.todo = {w} THEN IdlePass
                                            ELSE [recon EXCEPT !.todo = @ \ {w}]
    BY <1>6 DEF ReconWrites
  <2>2. Sound(w.id, w.row) /\ recon'.todo \subseteq recon.todo
    BY <2>1 DEF Truthful, IdlePass, Kept, TypeOK
  <2> QED
    BY <1>6, <2>1, <2>2, WriteTruthful DEF ReconWrites
<1> QED
  BY <1>2, <1>3, <1>4, <1>5, <1>6 DEF Reconciler

LEMMA AlwaysTruthful == OwnAddresses => (Spec => []Truthful)
<1> SUFFICES ASSUME OwnAddresses PROVE Spec => []Truthful
  OBVIOUS
<1>1. Init => Truthful
  BY DEF Init, Truthful, Sound, Absent, IdlePass
<1>2. Kept /\ Truthful /\ [Next]_vars => Truthful'
  <2> SUFFICES ASSUME Kept, Truthful, [Next]_vars PROVE Truthful'
    OBVIOUS
  <2>1. CASE UNCHANGED vars
    BY <2>1, StillTruthful DEF vars
  <2> QED
    BY <2>1, ProviderTruthful, ServiceTruthful, ReconcilerTruthful DEF Next
<1> QED
  BY <1>1, <1>2, AlwaysKept, PTL DEF Spec

\* Where every order has a deposit address of its own, an order that reads
\* completed was paid out by the bank, through whatever webhooks, passes, stale
\* readings, retries and crashes.
THEOREM PayoutCorrect ==
  ASSUME OwnAddresses
  PROVE  Spec => []OwnPayout
<1>1. Truthful => OwnPayout
  BY DEF Truthful, Sound, OwnPayout
<1> QED
  BY <1>1, AlwaysTruthful, PTL

\* And one that reads failed has failed at the provider itself.
THEOREM FailureCorrect ==
  ASSUME OwnAddresses
  PROVE  Spec => []FailedAtProvider
<1>1. Truthful => FailedAtProvider
  BY DEF Truthful, Sound, FailedAtProvider
<1> QED
  BY <1>1, AlwaysTruthful, PTL
=============================================================================
