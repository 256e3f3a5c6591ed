-------------------------- MODULE UtilityPurchases --------------------------
(****************************************************************************)
(* Airtime, data and electricity bought from the naira balance              *)
(* (ngn/service/sivanUtilityService.ts): the balance is checked and held    *)
(* under a lock of the user, the providers of a chain are called outside it *)
(* one after the other, and what they answer decides what becomes of the    *)
(* hold.  A client may send a key again, while its purchase runs or later.  *)
(****************************************************************************)
EXTENDS NgnBalance, Sequences

CONSTANTS Request,     \* requests in flight
          Chain,       \* the providers of the service, in the order of failover
          Paystack,    \* the provider whose rows are found under its own name
          AskAgain,    \* whether a key is sent again after its receipt is forgotten
          MaxFaults,   \* bounds writes that fail
          MaxRestarts  \* bounds restarts of the process

ASSUME PurchaseAssumption ==
  /\ Chain \in Seq(Provider) /\ Chain # <<>>
  /\ AskAgain \in BOOLEAN /\ MaxFaults \in Nat /\ MaxRestarts \in Nat

VARIABLES
  calls,     \* per request: its key, where it is, and the provider it calls
  receipts,  \* idempotencyReceiptCache, in memory
  settling,  \* the row the reconciler is settling
  delivered, \* per key: the providers that delivered it
  faults, restarts

pvars == <<book, records, calls, receipts, settling, delivered, faults, restarts>>

NoCall == [key |-> None, at |-> "idle", hop |-> 1]
NoSettling == [key |-> None, at |-> "idle"]

Init == /\ BalanceInit
        /\ calls = [r \in Request |-> NoCall]
        /\ receipts = {}
        /\ settling = NoSettling
        /\ delivered = [k \in Key |-> {}]
        /\ faults = 0 /\ restarts = 0

At(r, place) == calls[r].at = place
Goes(r, place) == calls' = [calls EXCEPT ![r].at = place]
Ends(r) == calls' = [calls EXCEPT ![r] = NoCall]
Sets(k, field, value) == records' = [records EXCEPT ![k][field] = value]

\* A write of the database fails.
Fault == faults < MaxFaults /\ faults' = faults + 1

\* Either the records change so, or the write fails and the code goes on.
SetsOrFails(k, field, value) == \/ Sets(k, field, value) /\ UNCHANGED faults
                                \/ Fault /\ UNCHANGED records
PostsOrFails(k, kind) == \/ Posts(k, kind) /\ UNCHANGED faults
                         \/ Fault /\ UNCHANGED book

------------------------------------------------------------------------------
\* validateAndResolveIdempotency finds the oldest row of a key, which is its
\* reservation, and a reservation keeps no receipt.
Fresh(k) == /\ k \notin receipts
            /\ records[k].reservation \notin {"submitted", "lapsed", "pending_reconciliation"}

\* A client that has seen a receipt does not send the key again, or it does.
Ask(r, k) ==
  /\ At(r, "idle") /\ Fresh(k)
  /\ AskAgain \/ records[k].reservation # "completed"
  /\ calls' = [calls EXCEPT ![r] = [key |-> k, at |-> "asked", hop |-> 1]]
  /\ UNCHANGED <<book, records, receipts, settling, delivered, faults, restarts>>

\* Slip: no lock.
UnlockedAlways == TRUE

Unlocked == \A r \in Request : calls[r].at \notin {"locked", "reserved"}

\* Slip: the key is not looked up again.
LockUnchecked(r) ==
  /\ At(r, "asked") /\ Unlocked
  /\ \/ NgnFunds >= Price[calls[r].key] /\ Goes(r, "locked")
     \/ NgnFunds < Price[calls[r].key] /\ Ends(r)
  /\ UNCHANGED <<book, records, receipts, settling, delivered, faults, restarts>>

\* Under the lock the key is looked up again and the balance read.
Lock(r) ==
  LET k == calls[r].key IN
  /\ At(r, "asked") /\ Unlocked
  /\ \/ Fresh(k) /\ NgnFunds >= Price[k] /\ Goes(r, "locked")
     \/ (~Fresh(k) \/ NgnFunds < Price[k]) /\ Ends(r)
  /\ UNCHANGED <<book, records, receipts, settling, delivered, faults, restarts>>

\* The reservation is written, then the hold, and the lock is given back.  If
\* either cannot be written no provider is called.
Reserve(r) ==
  /\ At(r, "locked")
  /\ \/ Sets(calls[r].key, "reservation", "submitted") /\ Goes(r, "reserved") /\ UNCHANGED faults
     \/ Fault /\ Ends(r) /\ UNCHANGED records
  /\ UNCHANGED <<book, receipts, settling, delivered, restarts>>

Hold(r) ==
  /\ At(r, "reserved")
  /\ \/ Posts(calls[r].key, "hold") /\ Goes(r, "calling") /\ UNCHANGED <<records, faults>>
     \/ /\ Fault /\ Ends(r) /\ UNCHANGED book
        /\ Sets(calls[r].key, "reservation", "failed") \/ UNCHANGED records
  /\ UNCHANGED <<receipts, settling, delivered, restarts>>

------------------------------------------------------------------------------
\* The providers.  One delivers a request id at most once and answers a
\* repetition as it likes.
Calls(r, p) == At(r, "calling") /\ p = Chain[calls[r].hop]
Delivers(k, p) == delivered' = [delivered EXCEPT ![k] = @ \cup {p}]

Serves(r, p) ==
  /\ Calls(r, p) /\ Delivers(calls[r].key, p)
  /\ receipts' = receipts \cup {calls[r].key}
  /\ Goes(r, "served")
  /\ UNCHANGED <<book, records, settling, faults, restarts>>

\* executeForService: a decline goes to the next provider, unless it is the
\* customer's fault or there is none.
Declines(r, p) ==
  /\ Calls(r, p)
  /\ \/ calls[r].hop < Len(Chain) /\ calls' = [calls EXCEPT ![r].hop = @ + 1]
     \/ Goes(r, "refused")
  /\ UNCHANGED <<book, records, receipts, settling, delivered, faults, restarts>>

\* Slip: no answer is taken for a decline.
StaysSilentDeclining(r, p) ==
  /\ Calls(r, p)
  /\ Delivers(calls[r].key, p) \/ UNCHANGED delivered
  /\ \/ calls[r].hop < Len(Chain) /\ calls' = [calls EXCEPT ![r].hop = @ + 1]
     \/ Goes(r, "refused")
  /\ UNCHANGED <<book, records, receipts, settling, faults, restarts>>

\* No answer, or one that is not understood: it delivered or it did not.
StaysSilent(r, p) ==
  /\ Calls(r, p)
  /\ Delivers(calls[r].key, p) \/ UNCHANGED delivered
  /\ Goes(r, "unknown")
  /\ UNCHANGED <<book, records, receipts, settling, faults, restarts>>

------------------------------------------------------------------------------
\* Branch A, a confirmed rejection: the reservation, then the hold.
Refused(r) ==
  /\ At(r, "refused")
  /\ SetsOrFails(calls[r].key, "reservation", "failed") /\ Goes(r, "releasing")
  /\ UNCHANGED <<book, receipts, settling, delivered, restarts>>

Release(r) ==
  /\ At(r, "releasing")
  /\ PostsOrFails(calls[r].key, "hold_release") /\ Ends(r)
  /\ UNCHANGED <<records, receipts, settling, delivered, restarts>>

\* Branch B, an unknown outcome: the hold is retained.
Unresolved(r) ==
  /\ At(r, "unknown")
  /\ SetsOrFails(calls[r].key, "reservation", "pending_reconciliation") /\ Ends(r)
  /\ UNCHANGED <<book, receipts, settling, delivered, restarts>>

\* Branch C: recordUtilityDebit writes a row of the user, or one of nobody; if
\* neither can be written the delivery is noted as unsettled, if that can be.
Record(r) ==
  LET k == calls[r].key IN
  /\ At(r, "served")
  /\ \/ Sets(k, "debit", TRUE) /\ Goes(r, "debiting") /\ UNCHANGED faults
     \/ Fault /\ Goes(r, "debiting") /\ UNCHANGED records
     \/ /\ Fault /\ Goes(r, "closing")
        /\ Sets(k, "unsettled", Chain[calls[r].hop]) \/ UNCHANGED records
  /\ UNCHANGED <<book, receipts, settling, delivered, restarts>>

\* The journal's entry may be lost, and then nobody makes it.
Debit(r) ==
  /\ At(r, "debiting")
  /\ PostsOrFails(calls[r].key, "debit_transfer") /\ Goes(r, "closing")
  /\ UNCHANGED <<records, receipts, settling, delivered, restarts>>

Close(r) ==
  /\ At(r, "closing")
  /\ SetsOrFails(calls[r].key, "reservation", "completed") /\ Ends(r)
  /\ UNCHANGED <<book, receipts, settling, delivered, restarts>>

------------------------------------------------------------------------------
\* reconcileUnsettledUtilityPurchases: recordUtilityDebit once more, then the
\* unsettled row is closed.  The row of a Paystack delivery is the row of the
\* debit, so closing it takes the debit's amount to zero.
Settles(k) ==
  /\ settling = NoSettling /\ records[k].unsettled # None
  /\ records' = [records EXCEPT ![k].debit = TRUE,
                                ![k].unsettled = IF @ = Paystack THEN None ELSE @]
  /\ settling' = [key |-> k, at |-> IF records[k].unsettled = Paystack THEN "same" ELSE "other"]
  /\ UNCHANGED <<book, calls, receipts, delivered, faults, restarts>>

SettlesBook ==
  /\ settling.at \in {"same", "other"}
  /\ PostsOrFails(settling.key, "debit_transfer")
  /\ settling' = [settling EXCEPT !.at = IF @ = "same" THEN "close same" ELSE "close other"]
  /\ UNCHANGED <<records, calls, receipts, delivered, restarts>>

SettlesRow ==
  /\ settling.at \in {"close same", "close other"}
  /\ IF settling.at = "close same" THEN Sets(settling.key, "debit", FALSE)
     ELSE Sets(settling.key, "unsettled", None)
  /\ settling' = NoSettling
  /\ UNCHANGED <<book, calls, receipts, delivered, faults, restarts>>

\* Slip: a status of its own.
LapsesRenamed(k) ==
  /\ records[k].reservation = "submitted" /\ \A r \in Request : calls[r].key # k
  /\ Sets(k, "reservation", "expired")
  /\ UNCHANGED <<book, calls, receipts, settling, delivered, faults, restarts>>

\* A reservation whose request died counts for five minutes.
Lapses(k) ==
  /\ records[k].reservation = "submitted" /\ \A r \in Request : calls[r].key # k
  /\ Sets(k, "reservation", "lapsed")
  /\ UNCHANGED <<book, calls, receipts, settling, delivered, faults, restarts>>

\* The process dies, and with it every request and receipt.
Restart ==
  /\ restarts < MaxRestarts /\ restarts' = restarts + 1
  /\ calls' = [r \in Request |-> NoCall]
  /\ receipts' = {}
  /\ settling' = NoSettling
  /\ UNCHANGED <<book, records, delivered, faults>>

Next ==
  \/ \E r \in Request :
       \/ \E k \in Key : Ask(r, k)
       \/ Lock(r) \/ Reserve(r) \/ Hold(r)
       \/ \E p \in Provider : Serves(r, p) \/ Declines(r, p) \/ StaysSilent(r, p)
       \/ Refused(r) \/ Release(r) \/ Unresolved(r)
       \/ Record(r) \/ Debit(r) \/ Close(r)
  \/ \E k \in Key : Settles(k) \/ Lapses(k)
  \/ SettlesBook \/ SettlesRow \/ Restart

Spec == Init /\ [][Next]_pvars

------------------------------------------------------------------------------
Places == {"asked", "locked", "reserved", "calling", "served", "debiting", "closing", "unknown",
           "refused", "releasing"}
Call == [key : Key, at : Places, hop : DOMAIN Chain]
Settling == [key : Key, at : {"same", "other", "close same", "close other"}]

TypeOK ==
  /\ BalanceTypeOK
  /\ calls \in [Request -> Call \cup {NoCall}]
  /\ receipts \subseteq Key
  /\ settling \in Settling \cup {NoSettling}
  /\ delivered \in [Key -> SUBSET Provider]
  /\ faults \in 0..MaxFaults /\ restarts \in 0..MaxRestarts

\* No key is delivered by two providers, nor by one request after another: what
\* the lookup under the lock, the stop at a silent provider and the rows that
\* outlive a restart are there for.
DeliveredOnce == \A k \in Key : Cardinality(delivered[k]) <= 1

\* A purchase that reads failed, whose hold is given back, was delivered by no
\* provider of the chain, however many declined, kept silent or crashed us.
FailedWasNotDelivered ==
  \A k \in Key : records[k].reservation = "failed" => delivered[k] = {}

\* A key was refused, sent again and delivered: its second attempt finds the entry
\* of the first hold and holds nothing, and the release of the first may come late
\* and draw on the hold of another key.
Reused(k) == delivered[k] # {} /\ <<k, "hold_release">> \in book.posted

\* What was delivered costs its price, once: as a hold while the outcome is
\* unknown or unsettled, as a debit afterwards, through failing writes, restarts
\* and the reconciler.  Except where a refused key was used again.
DeliveredIsPaid ==
  (\A k \in Key : ~Reused(k)) => \A k \in Key : delivered[k] # {} => book.taken[k] = Price[k]

\* The rows of the keys say something else than the journal: a reservation that
\* lapsed, a refused key in use again, a debit whose row is nobody's or was taken
\* to zero.
Astray(k) ==
  \/ records[k].reservation = "lapsed"
  \/ <<k, "hold_release">> \in book.posted /\ records[k].reservation # "failed"
  \/ delivered[k] # {} /\ records[k].reservation = "completed"
     /\ ~records[k].debit /\ records[k].unsettled = None

\* The purchases whose rows did not go astray, at once or one after another,
\* deliver together no more than was deposited.
WithinDeposit ==
  SumFunctionOnSet(Price, {k \in Key : delivered[k] # {} /\ ~Astray(k)}) <= Deposit
=============================================================================
