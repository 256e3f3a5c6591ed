---------------------------- MODULE NgnTransfers ----------------------------
(****************************************************************************)
(* The naira off-ramp over Breet (ngn/service): one row per order, written  *)
(* whole from an earlier reading by webhooks, by the sweep of the user's    *)
(* crypto to the rail, by cancellation, by an administrator's retry and by  *)
(* the settlement reconciler.  What happens at the provider is the deal of  *)
(* an order: the trade of its deposit and the payout to the bank.           *)
(****************************************************************************)
EXTENDS Integers, FiniteSets, FiniteSetsExt

CONSTANTS Order,     \* positive numbers, in the order of createdAt
          Address,   \* the deposit address of each: permanent, and reusable
          Amount,    \* the amount of each
          Handler,   \* readings of a row that are in flight, the reconciler's aside
          MaxDeliveries, \* bounds the webhooks Breet delivers, repetitions included
          MaxFaults  \* bounds crashes and administrator's retries

ASSUME TransfersAssumption ==
  /\ Order \subseteq Nat \ {0} /\ IsFiniteSet(Order)
  /\ DOMAIN Address = Order /\ DOMAIN Amount = Order
  /\ MaxDeliveries \in Nat /\ MaxFaults \in Nat

VARIABLES
  rows,   \* payments_ngn_transfers
  deals,  \* per order: the trade of its deposit, and its payout, at Breet
  delivered, \* how many webhooks there were
  due,    \* orders whose sweep is scheduled in this process
  write,  \* per handler: the row it is about to write
  recon,  \* the reconciler's pass
  faults

vars == <<rows, deals, delivered, due, write, recon, faults>>

\* trade is metadata.breetTradeId, named by the order whose deposit it is.
NoTrade == 0
Absent == [status |-> "none", trade |-> NoTrade]
Ranked == <<"awaiting_crypto_deposit", "blockchain_confirmed", "settlement_processing",
            "bank_processing", "completed">>
Unranked == {"none", "requires_review", "failed", "expired", "cancelled"}
Status == {Ranked[i] : i \in DOMAIN Ranked} \cup Unranked
Row == [status : Status, trade : Order \cup {NoTrade}]

\* rank(): a status off the happy path scores 0.
Rank(status) == IF status \in Unranked THEN 0
                ELSE CHOOSE i \in DOMAIN Ranked : Ranked[i] = status

NoWrite == [id |-> NoTrade, row |-> Absent]
IdlePass == [at |-> "idle", todo |-> {}, seen |-> {}]

\* since: the newest order of the address when the trade and the payout were created.
NoDeal == [trade |-> "none", payout |-> "none", since |-> [trade |-> NoTrade, payout |-> NoTrade]]

Init == /\ rows = [o \in Order |-> Absent]
        /\ deals = [o \in Order |-> NoDeal]
        /\ delivered = 0
        /\ due = {}
        /\ write = [h \in Handler |-> NoWrite]
        /\ recon = IdlePass
        /\ faults = 0

Exists(o) == rows[o].status # "none"
At(address) == {o \in Order : Exists(o) /\ Address[o] = address}
Moved(row, status) == [row EXCEPT !.status = status]
Learned(row, status, deal) == [status |-> status, trade |-> deal]

Fault == faults < MaxFaults /\ faults' = faults + 1

\* A handler keeps what it is going to write; upsert is blind.
Plans(h, o, row) == write[h] = NoWrite /\ write' = [write EXCEPT ![h] = [id |-> o, row |-> row]]

HandlerWrites(h) ==
  /\ write[h] # NoWrite
  /\ rows' = [rows EXCEPT ![write[h].id] = write[h].row]
  /\ write' = [write EXCEPT ![h] = NoWrite]
  /\ UNCHANGED <<deals, delivered, due, recon, faults>>

------------------------------------------------------------------------------
\* acceptNgnQuote: the order, its deposit address, and a sweep on the next tick.
Accept(o) ==
  /\ ~Exists(o) /\ \A p \in Order : p < o => Exists(p)
  /\ rows' = [rows EXCEPT ![o] = Moved(Absent, "awaiting_crypto_deposit")]
  /\ due' = due \cup {o}
  /\ UNCHANGED <<deals, delivered, write, recon, faults>>

\* sweepToRail, which may find no wallet or too little in it.
SweepSkipped(o) ==
  /\ o \in due
  /\ due' = due \ {o}
  /\ UNCHANGED <<rows, deals, delivered, write, recon, faults>>

\* The transfer was submitted, or waits for the user's signature: the row is
\* read again and written whatever it says by now.
Sweep(h, o, submitted) ==
  /\ o \in due
  /\ due' = due \ {o}
  /\ Plans(h, o, Moved(rows[o], IF submitted THEN "settlement_processing" ELSE rows[o].status))
  /\ UNCHANGED <<rows, deals, delivered, recon, faults>>

Cancel(h, o) ==
  /\ rows[o].status = "awaiting_crypto_deposit"
  /\ Plans(h, o, Moved(rows[o], "cancelled"))
  /\ UNCHANGED <<rows, deals, delivered, due, recon, faults>>

\* Slip: the status an on-ramp is retried with.
RetryOnramp(h, o) ==
  /\ Exists(o) /\ Fault
  /\ Plans(h, o, Moved(rows[o], "processing"))
  /\ UNCHANGED <<rows, deals, delivered, due, recon>>

\* retryNgnTransfer asks nothing of the status.
Retry(h, o) ==
  /\ Exists(o) /\ Fault
  /\ Plans(h, o, Moved(rows[o], "settlement_processing"))
  /\ UNCHANGED <<rows, deals, delivered, due, recon>>

------------------------------------------------------------------------------
\* Breet: a deposit becomes a trade, a completed trade a payout.
Becomes(d, deal) == /\ deals' = [deals EXCEPT ![d] = deal]
                    /\ UNCHANGED <<rows, delivered, due, write, recon, faults>>
Newest(address) == Max(At(address))

TradeOpens(d) ==
  /\ Exists(d) /\ deals[d].trade = "none"
  /\ Becomes(d, [deals[d] EXCEPT !.trade = "pending", !.since.trade = Newest(Address[d])])
TradeEnds(d, status) == /\ deals[d].trade = "pending"
                        /\ Becomes(d, [deals[d] EXCEPT !.trade = status])
PayoutOpens(d) ==
  /\ deals[d].trade = "completed" /\ deals[d].payout = "none"
  /\ Becomes(d, [deals[d] EXCEPT !.payout = "pending", !.since.payout = Newest(Address[d])])
PayoutEnds(d, status) == /\ deals[d].payout = "pending"
                         /\ Becomes(d, [deals[d] EXCEPT !.payout = status])

\* Every status a trade or a payout has or had is an event Breet may deliver,
\* late, again and in any order, or never.
Events == {[kind |-> k, deal |-> d, status |-> s] :
             k \in {"trade", "payout"}, d \in Order, s \in {"pending", "completed", "flagged", "failed"}}
Happened(e) == LET now == deals[e.deal][e.kind]
               IN now # "none" /\ e.status \in {"pending", now}

------------------------------------------------------------------------------
\* mapBreetEvent: only a payout completes an order; a completed trade is naira
\* inside Breet.
FromEvent(e) ==
  IF e.status = "failed" THEN "failed"
  ELSE IF e.kind = "payout"
       THEN IF e.status = "completed" THEN "completed" ELSE "bank_processing"
       ELSE IF e.status = "completed" THEN "settlement_processing" ELSE "blockchain_confirmed"

\* bestBreetAddressMatch: open orders first, then the amount, then whether the
\* order is older than the trade or payout, then the newest.
Best(orders, e) ==
  LET open == {o \in orders : rows[o].status \notin {"completed", "failed", "expired", "cancelled"}}
      pool == IF Cardinality(orders) = 1 \/ open = {} THEN orders ELSE open
      score(o) == (IF Amount[o] = Amount[e.deal] THEN 8 ELSE 0)
                  + (IF o <= deals[e.deal].since[e.kind] THEN 2 ELSE 0)
  IN CHOOSE o \in pool : \A p \in pool : \/ score(p) < score(o)
                                         \/ score(p) = score(o) /\ p <= o

Unsettled(o) == Exists(o) /\ rows[o].status \notin {"completed", "failed"}
Knows(deal) == {o \in Order : rows[o].trade = deal}

\* Slip: the first open order of that amount, others or not.
ByAmountFirst(e) ==
  LET same == {o \in Order : Unsettled(o) /\ Amount[o] = Amount[e.deal]}
  IN IF same # {} THEN {Min(same)} ELSE {}

\* matchWithdrawalByAmount: one open order of that amount, or none.
ByAmount(e) ==
  LET same == {o \in Order : Unsettled(o) /\ Amount[o] = Amount[e.deal]}
  IN IF Cardinality(same) = 1 THEN same ELSE {}

\* findTransferForEvent and, for a payout, resolveWithdrawalViaTrade: a payout
\* names its trade and no address; fetched is whether Breet could be asked.
Find(e, fetched) ==
  IF Knows(e.deal) # {} THEN {Min(Knows(e.deal))}
  ELSE IF e.kind = "trade" \/ fetched THEN {Best(At(Address[e.deal]), e)}
  ELSE ByAmount(e)

\* A flagged deposit, and applySettlementToTransfer: nothing leaves a final
\* status, nothing but a failure goes back.
Settled(row, e) ==
  LET next == FromEvent(e) IN
  IF e.status = "flagged" THEN {Moved(row, "requires_review")}
  ELSE IF \/ row.status \in {"completed", "failed", "expired", next}
          \/ next # "failed" /\ Rank(next) < Rank(row.status)
       THEN {}
  ELSE {Learned(row, next, e.deal)}

\* applyWebhookToTransfer as far as the row it is going to write.
Webhook(h, e, fetched) ==
  /\ Happened(e) /\ write[h] = NoWrite
  /\ delivered < MaxDeliveries /\ delivered' = delivered + 1
  /\ LET found == {o \in Find(e, fetched) : Settled(rows[o], e) # {}}
     IN \/ found = {} /\ UNCHANGED write
        \/ \E o \in found : \E row \in Settled(rows[o], e) : Plans(h, o, row)
  /\ UNCHANGED <<rows, deals, due, recon, faults>>

------------------------------------------------------------------------------
\* The reconciler: the orders to expire, on its first reading.  Which of the
\* unfunded ones have not been written for a day is a matter of time, and open.
ReconStarts(old) ==
  /\ recon.at = "idle"
  /\ \A o \in old : rows[o].status = "awaiting_crypto_deposit"
  /\ recon' = [at |-> "expire", seen |-> {},
               todo |-> {[id |-> o, row |-> Moved(rows[o], "expired")] : o \in old}]
  /\ UNCHANGED <<rows, deals, delivered, due, write, faults>>

\* listSettlements: the payouts there are; or an error, which ends the pass.
ReconLists ==
  /\ recon.at = "expire" /\ recon.todo = {}
  /\ recon' = [at |-> "plan", todo |-> {},
               seen |-> {[deal |-> d, status |-> deals[d].payout] :
                         d \in {x \in Order : deals[x].payout # "none"}}]
  /\ UNCHANGED <<rows, deals, delivered, due, write, faults>>

ReconFails ==
  /\ recon.at = "expire" /\ recon.todo = {}
  /\ recon' = IdlePass
  /\ UNCHANGED <<rows, deals, delivered, due, write, faults>>

FromSettlement(s) == CASE s.status = "completed" -> "completed"
                       [] s.status = "failed" -> "failed"
                       [] OTHER -> "bank_processing"

\* Slip: whatever is open, wherever its address.
MatchAnywhere(s, fetched) ==
  LET open == {o \in Order : Unsettled(o)}
  IN IF Knows(s.deal) # {} THEN {Min(Knows(s.deal))}
     ELSE IF s.deal \notin fetched \/ open = {} THEN {} ELSE {Min(open)}

\* matchTransfer: the known trade; else, if Breet could be asked for the trade, of
\* the orders at its address the only open one of the amount paid, the oldest
\* open one, or the newest.
Match(s, fetched) ==
  LET here == At(Address[s.deal])
      open == {o \in here : Unsettled(o)}
      same == {o \in open : Amount[o] = Amount[s.deal]}
  IN IF Knows(s.deal) # {} THEN {Min(Knows(s.deal))}
     ELSE IF s.deal \notin fetched THEN {}
     ELSE IF Cardinality(open) > 1 /\ Cardinality(same) = 1 THEN same
     ELSE IF open # {} THEN {Min(open)}
     ELSE {Max(here)}

\* Slip: an expired order is final.
AdvancesUnexpired(row, next) ==
  row.status \notin {"completed", "failed", "expired"} /\ Rank(next) > Rank(row.status)

Advances(row, next) ==
  row.status \notin {"completed", "failed"} /\ Rank(next) > Rank(row.status)

\* All rows are read once, after the settlements, and decided on that reading;
\* fetched are the deals whose trade Breet could be asked for.
ReconPlans(fetched) ==
  LET todo == UNION {{[id |-> o, row |-> Learned(rows[o], FromSettlement(s), s.deal)] :
                       o \in {m \in Match(s, fetched) : Advances(rows[m], FromSettlement(s))}} :
                      s \in recon.seen}
  IN /\ recon.at = "plan"
     /\ recon' = IF todo = {} THEN IdlePass ELSE [at |-> "settle", seen |-> {}, todo |-> todo]
     /\ UNCHANGED <<rows, deals, delivered, due, write, faults>>

ReconWrites ==
  /\ \E w \in recon.todo :
       /\ rows' = [rows EXCEPT ![w.id] = w.row]
       /\ recon' = IF recon.at = "settle" /\ recon.todo = {w} THEN IdlePass
                   ELSE [recon EXCEPT !.todo = @ \ {w}]
  /\ UNCHANGED <<deals, delivered, due, write, faults>>

\* The process dies: whatever it was about to do is gone, the sweeps too.
Crash ==
  /\ Fault
  /\ write' = [h \in Handler |-> NoWrite]
  /\ due' = {}
  /\ recon' = IdlePass
  /\ UNCHANGED <<rows, deals, delivered>>

------------------------------------------------------------------------------
Provider == \E d \in Order :
  \/ TradeOpens(d) \/ PayoutOpens(d)
  \/ \E status \in {"completed", "flagged", "failed"} : TradeEnds(d, status)
  \/ \E status \in {"completed", "failed"} : PayoutEnds(d, status)

Service ==
  \/ \E o \in Order : Accept(o) \/ SweepSkipped(o)
  \/ \E h \in Handler : \/ HandlerWrites(h)
                        \/ \E o \in Order : \/ Cancel(h, o) \/ Retry(h, o)
                                           \/ \E submitted \in BOOLEAN : Sweep(h, o, submitted)
                        \/ \E e \in Events, fetched \in BOOLEAN : Webhook(h, e, fetched)
  \/ Crash

Reconciler == \/ ReconLists \/ ReconFails \/ ReconWrites
              \/ \E old \in SUBSET Order : ReconStarts(old)
              \/ \E fetched \in SUBSET Order : ReconPlans(fetched)

Next == Provider \/ Service \/ Reconciler

Spec == Init /\ [][Next]_vars

\* A write that was decided is written, the timer runs pass after pass, and
\* Breet answers a pass in full again and again.  Nothing is assumed of webhooks.
Fairness == /\ \A h \in Handler : WF_vars(HandlerWrites(h))
            /\ WF_vars(Reconciler)
            /\ SF_vars(ReconLists) /\ SF_vars(ReconPlans(Order))

FairSpec == Spec /\ Fairness

------------------------------------------------------------------------------
TypeOK ==
  /\ rows \in [Order -> Row]
  /\ deals \in [Order -> [trade : {"none", "pending", "completed", "flagged", "failed"},
                          payout : {"none", "pending", "completed", "failed"},
                          since : [trade : Order \cup {NoTrade}, payout : Order \cup {NoTrade}]]]
  /\ due \subseteq Order /\ delivered \in 0..MaxDeliveries
  /\ write \in [Handler -> [id : Order \cup {NoTrade}, row : Row]]
  /\ recon \in [at : {"idle", "expire", "plan", "settle"},
                todo : SUBSET [id : Order, row : Row],
                seen : SUBSET [deal : Order, status : {"pending", "completed", "failed"}]]
  /\ faults \in 0..MaxFaults

\* An order that reads completed was paid out by the bank for its own deposit,
\* whichever handler wrote it, from whatever reading, and however the event or
\* the settlement was matched to it.
OwnPayout == \A o \in Order : rows[o].status = "completed" => deals[o].payout = "completed"

\* An order that reads failed failed at the provider, and was not given the
\* failure of another order.
FailedAtProvider ==
  \A o \in Order : rows[o].status = "failed" => "failed" \in {deals[o].trade, deals[o].payout}

\* A payout that reached the bank is shown as completed in the end and stays so,
\* although webhooks may be lost, sweeps and cancellations may write stale rows
\* over it, and the order may have been expired or cancelled meanwhile.
PaidEndsCompleted ==
  \A o \in Order : deals[o].payout = "completed" ~> [](rows[o].status = "completed")
=============================================================================
