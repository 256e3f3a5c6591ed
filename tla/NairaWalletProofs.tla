-------------------------- MODULE NairaWalletProofs --------------------------
(****************************************************************************)
(* Proofs about UtilityPurchases, and about purchases and cash-outs on one  *)
(* balance, for any requests, keys, prices, chain of providers, cash-outs   *)
(* and handlers, and any number of failing writes and restarts.             *)
(****************************************************************************)
EXTENDS NairaWallet, NgnBalanceProofs

\* The steps of one request.
Step(r) ==
  \/ \E k \in Key : Ask(r, k)
  \/ Lock(r) \/ Reserve(r) \/ Hold(r)
  \/ \E p \in Provider : Serves(r, p) \/ Declines(r, p) \/ StaysSilent(r, p)
  \/ Refused(r) \/ Release(r) \/ Unresolved(r)
  \/ Record(r) \/ Debit(r) \/ Close(r)

\* A request under way has a key and a provider.
LEMMA CallParts ==
  ASSUME TypeOK, NEW r \in Request, calls[r].at # "idle"
  PROVE  calls[r] \in Call /\ calls[r].key \in Key /\ calls[r].key \in Item /\ calls[r].hop \in DOMAIN Chain
BY DEF TypeOK, NoCall, Call, Item

\* And so has a row the reconciler is settling.
LEMMA SettlingParts ==
  ASSUME TypeOK, settling.at # "idle"
  PROVE  settling \in Settling /\ settling.key \in Key /\ settling.key \in Item
<1>1. settling \in Settling
  BY DEF TypeOK, NoSettling
<1> QED
  BY <1>1 DEF Settling, Item

\* The chain is made of providers.
LEMMA ChainParts == 1 \in DOMAIN Chain /\ \A i \in DOMAIN Chain : Chain[i] \in Provider
BY PurchaseAssumption

\* How the table of requests changes.
LEMMA CallsType ==
  ASSUME TypeOK, NEW r \in Request
  PROVE  /\ Ends(r) => calls' \in [Request -> Call \cup {NoCall}]
         /\ \A place \in Places : calls[r].at # "idle" /\ Goes(r, place)
                                    => calls' \in [Request -> Call \cup {NoCall}]
<1>1. Ends(r) => calls' \in [Request -> Call \cup {NoCall}]
  BY DEF TypeOK, Ends
<1>2. ASSUME NEW place \in Places, calls[r].at # "idle", Goes(r, place)
      PROVE  calls' \in [Request -> Call \cup {NoCall}]
  <2>1. calls[r] \in Call
    BY <1>2, CallParts
  <2>2. [calls[r] EXCEPT !.at = place] \in Call
    BY <2>1 DEF Call
  <2> QED
    BY <1>2, <2>2 DEF TypeOK, Goes
<1> QED
  BY <1>1, <1>2

\* How the rows of a key change.
LEMMA SetsType ==
  ASSUME TypeOK, NEW k \in Key
  PROVE  /\ \A value \in Reservation : Sets(k, "reservation", value) => records' \in [Key -> Records]
         /\ \A value \in BOOLEAN : Sets(k, "debit", value) => records' \in [Key -> Records]
         /\ \A value \in Provider \cup {None} : Sets(k, "unsettled", value) => records' \in [Key -> Records]
BY DEF TypeOK, BalanceTypeOK, Records, Sets

\* A write that fails counts.
LEMMA FaultType == ASSUME TypeOK, Fault PROVE faults' \in 0..MaxFaults
BY PurchaseAssumption DEF TypeOK, Fault

LEMMA StepType ==
  ASSUME TypeOK, NEW r \in Request, Step(r)
  PROVE  TypeOK'
<1> USE DEF TypeOK, BalanceTypeOK
<1> DEFINE k == calls[r].key
<1>1. ASSUME NEW new \in Key, Ask(r, new) PROVE TypeOK'
  <2>1. [key |-> new, at |-> "asked", hop |-> 1] \in Call
    BY ChainParts DEF Call, Places
  <2> QED
    BY <1>1, <2>1 DEF Ask
<1>2. CASE Lock(r)
  BY <1>2, CallsType DEF Lock, At, Places
<1>3. CASE Reserve(r)
  <2>1. k \in Key /\ calls' \in [Request -> Call \cup {NoCall}]
    BY <1>3, CallParts, CallsType DEF Reserve, At, Places
  <2> QED
    BY <1>3, <2>1, SetsType, FaultType DEF Reserve, Reservation
<1>4. CASE Hold(r)
  <2>1. /\ k \in Key /\ k \in Item
        /\ calls' \in [Request -> Call \cup {NoCall}]
    BY <1>4, CallParts, CallsType DEF Hold, At, Places
  <2>2. book' \in Books
    BY <1>4, <2>1, PostsType DEF Hold, Kind
  <2> QED
    BY <1>4, <2>1, <2>2, SetsType, FaultType DEF Hold, Reservation
<1>5. ASSUME NEW p \in Provider, Serves(r, p) \/ Declines(r, p) \/ StaysSilent(r, p) PROVE TypeOK'
  <2>1. k \in Key /\ calls[r] \in Call
    BY <1>5, CallParts DEF Serves, Declines, StaysSilent, Calls, At
  <2>2. CASE Serves(r, p)
    <3>1. calls' \in [Request -> Call \cup {NoCall}]
      BY <2>2, CallsType DEF Serves, Calls, At, Places
    <3> QED
      BY <2>1, <2>2, <3>1 DEF Serves, Delivers
  <2>3. CASE StaysSilent(r, p)
    <3>1. calls' \in [Request -> Call \cup {NoCall}]
      BY <2>3, CallsType DEF StaysSilent, Calls, At, Places
    <3> QED
      BY <2>1, <2>3, <3>1 DEF StaysSilent, Delivers
  <2>4. CASE Declines(r, p)
    <3>1. CASE calls[r].hop < Len(Chain) /\ calls' = [calls EXCEPT ![r].hop = @ + 1]
      <4>1. calls[r].hop + 1 \in DOMAIN Chain
        BY <2>1, <3>1, PurchaseAssumption DEF Call
      <4>2. [calls[r] EXCEPT !.hop = @ + 1] \in Call
        BY <2>1, <4>1 DEF Call
      <4> QED
        BY <2>4, <3>1, <4>2 DEF Declines
    <3>2. CASE Goes(r, "refused")
      BY <2>4, <3>2, CallsType DEF Declines, Calls, At, Places
    <3> QED
      BY <2>4, <3>1, <3>2 DEF Declines
  <2> QED
    BY <1>5, <2>2, <2>3, <2>4
<1>6. CASE Refused(r) \/ Unresolved(r) \/ Close(r)
  <2>1. k \in Key /\ calls' \in [Request -> Call \cup {NoCall}]
    BY <1>6, CallParts, CallsType DEF Refused, Unresolved, Close, At, Places
  <2> QED
    BY <1>6, <2>1, SetsType, FaultType DEF Refused, Unresolved, Close, SetsOrFails, Reservation
<1>7. CASE Release(r) \/ Debit(r)
  <2>1. /\ k \in Key /\ k \in Item
        /\ calls' \in [Request -> Call \cup {NoCall}]
    BY <1>7, CallParts, CallsType DEF Release, Debit, At, Places
  <2>2. book' \in Books
    BY <1>7, <2>1, PostsType DEF Release, Debit, PostsOrFails, Kind
  <2> QED
    BY <1>7, <2>1, <2>2, FaultType DEF Release, Debit, PostsOrFails
<1>8. CASE Record(r)
  <2>1. /\ k \in Key /\ Chain[calls[r].hop] \in Provider
        /\ calls' \in [Request -> Call \cup {NoCall}]
    BY <1>8, CallParts, ChainParts, CallsType DEF Record, At, Places
  <2> QED
    BY <1>8, <2>1, SetsType, FaultType DEF Record
<1> QED
  BY <1>1, <1>2, <1>3, <1>4, <1>5, <1>6, <1>7, <1>8 DEF Step

\* The reconciler and a restart.
LEMMA OtherType ==
  ASSUME TypeOK,
         \/ \E k \in Key : Settles(k) \/ Lapses(k)
         \/ SettlesBook \/ SettlesRow \/ Restart
  PROVE  TypeOK'
<1> USE DEF TypeOK, BalanceTypeOK
<1>1. ASSUME NEW k \in Key, Settles(k) PROVE TypeOK'
  <2>1. records' \in [Key -> Records]
    <3> DEFINE row == [records[k] EXCEPT !.debit = TRUE,
                                         !.unsettled = IF @ = Paystack THEN None ELSE @]
    <3>1. records' = [records EXCEPT ![k] = row]
      BY <1>1 DEF Settles, Records
    <3>2. row \in Records
      BY DEF Records
    <3> QED
      BY <3>1, <3>2
  <2>2. settling' \in Settling
    BY <1>1 DEF Settles, Settling
  <2> QED
    BY <1>1, <2>1, <2>2 DEF Settles
<1>2. ASSUME NEW k \in Key, Lapses(k) PROVE TypeOK'
  BY <1>2, SetsType DEF Lapses, Reservation
<1>3. CASE SettlesBook
  <2>1. settling \in Settling /\ settling.key \in Key /\ settling.key \in Item
    BY <1>3, SettlingParts DEF SettlesBook
  <2>2. book' \in Books
    BY <1>3, <2>1, PostsType DEF SettlesBook, PostsOrFails, Kind
  <2>3. settling' \in Settling
    BY <1>3, <2>1 DEF SettlesBook, Settling
  <2> QED
    BY <1>3, <2>2, <2>3, FaultType DEF SettlesBook, PostsOrFails
<1>4. CASE SettlesRow
  <2>1. settling.key \in Key
    BY <1>4, SettlingParts DEF SettlesRow
  <2> QED
    BY <1>4, <2>1, SetsType DEF SettlesRow
<1>5. CASE Restart
  BY <1>5, PurchaseAssumption DEF Restart
<1> QED
  BY <1>1, <1>2, <1>3, <1>4, <1>5

LEMMA TypeStep == ASSUME TypeOK, Next PROVE TypeOK'
BY StepType, OtherType DEF Next, Step

\* The journal, the rows, the requests and the receipts keep their types.
THEOREM TypeCorrect == Spec => []TypeOK
<1>1. Init => TypeOK
  BY BookInit, PurchaseAssumption DEF Init, TypeOK
<1>2. TypeOK /\ [Next]_pvars => TypeOK'
  <2> SUFFICES ASSUME TypeOK, [Next]_pvars PROVE TypeOK'
    OBVIOUS
  <2>1. CASE UNCHANGED pvars
    BY <2>1 DEF TypeOK, BalanceTypeOK, pvars
  <2>2. CASE Next
    BY <2>2, TypeStep
  <2> QED
    BY <2>1, <2>2
<1> QED
  BY <1>1, <1>2, PTL DEF Spec

------------------------------------------------------------------------------
\* Where a request holds its key, and where it has called a provider that may
\* have delivered.
Working(r) == calls[r].at \in {"reserved", "calling", "served", "debiting", "closing", "unknown", "refused"}
Sold(r) == calls[r].at \in {"served", "debiting", "closing", "unknown"}
Guarded(r) == calls[r].at \in {"locked", "reserved"}

\* One request at a time is under the lock, and one at a time works on a key.
Alone == \A r, s \in Request :
           /\ Guarded(r) /\ Guarded(s) => r = s
           /\ Working(r) /\ Working(s) /\ calls[r].key = calls[s].key => r = s

\* What a request knows of its key.
Known(r) ==
  LET row == records[calls[r].key].reservation
  IN /\ Working(r) => row = "submitted"
     /\ calls[r].at = "locked" => row \in {"none", "failed"}
     /\ calls[r].at = "asked" /\ row = "completed" => calls[r].key \in receipts
     /\ calls[r].at \in {"served", "debiting", "closing"} => calls[r].key \in receipts
     /\ Working(r) /\ ~Sold(r) => delivered[calls[r].key] = {}

\* What was delivered was delivered once, and its reservation never reads as if
\* it were not.
Delivery(k) == \/ delivered[k] = {}
               \/ /\ \E p \in Provider : delivered[k] = {p}
                  /\ records[k].reservation \in {"submitted", "lapsed", "pending_reconciliation", "completed"}

Orderly == Alone /\ (\A r \in Request : Known(r)) /\ (\A k \in Key : Delivery(k))

\* A request that gives up, or takes its place in line, disturbs nothing.
LEMMA StartOrderly ==
  ASSUME TypeOK, Orderly, ~AskAgain, NEW r \in Request,
         (\E k \in Key : Ask(r, k)) \/ Lock(r) \/ Release(r) \/ Debit(r)
  PROVE  Orderly'
<1> USE DEF Orderly, Alone, Known, Delivery, Guarded, Working, Sold, TypeOK
<1>1. ASSUME NEW k \in Key, Ask(r, k) PROVE Orderly'
  BY <1>1 DEF Ask, NoCall
<1>2. CASE Lock(r)
  <2>1. calls[r] \in Call
    BY <1>2, CallParts DEF Lock, At
  <2>2. records[calls[r].key].reservation \in Reservation
    BY <2>1 DEF BalanceTypeOK, Records, Call
  <2>3. Alone'
    BY <1>2, <2>1 DEF Lock, At, Goes, Ends, NoCall, Call, Unlocked
  <2>4. \A s \in Request : Known(s)'
    BY <1>2, <2>1, <2>2 DEF Lock, At, Goes, Ends, NoCall, Call, Fresh, Reservation
  <2> QED
    BY <1>2, <2>3, <2>4 DEF Lock
<1>3. CASE Release(r) \/ Debit(r)
  <2>1. calls[r] \in Call
    BY <1>3, CallParts DEF Release, Debit, At
  <2> QED
    BY <1>3, <2>1 DEF Release, Debit, At, Goes, Ends, NoCall, Call
<1> QED
  BY <1>1, <1>2, <1>3

\* A request that works on a key works on it alone: what it writes of the key
\* concerns no other request but those that still wait for the lock.
LEMMA WorkOrderly ==
  ASSUME TypeOK, Orderly, NEW r \in Request, NEW k \in Key, calls[r].key = k,
         \/ Reserve(r) \/ Hold(r)
         \/ \E p \in Provider : Serves(r, p) \/ Declines(r, p) \/ StaysSilent(r, p)
         \/ Refused(r) \/ Unresolved(r) \/ Record(r) \/ Close(r)
  PROVE  Orderly'
<1> DEFINE row == records[k].reservation
<1>1. calls[r].at \in {"locked", "reserved", "calling", "refused", "unknown", "served", "closing"}
  BY DEF Reserve, Hold, Serves, Declines, StaysSilent, Calls, Refused, Unresolved, Record, Close, At
<1>2. calls[r] \in Call /\ calls[r].at \in Places
  BY <1>1, CallParts DEF Call
<1>3. \A s \in Request : calls[s].at # "idle" => calls[s] \in Call
  BY CallParts
<1>4. \A s \in Request : s # r => calls'[s] = calls[s]
  BY DEF Reserve, Hold, Serves, Declines, StaysSilent, Refused, Unresolved, Record, Close, Goes, Ends, TypeOK
<1>5. /\ \A j \in Key : j # k => records'[j] = records[j] /\ delivered'[j] = delivered[j]
      /\ receipts \subseteq receipts'
  BY <1>2 DEF Reserve, Hold, Serves, Declines, StaysSilent, Refused, Unresolved, Record, Close,
              Sets, SetsOrFails, Delivers, TypeOK, BalanceTypeOK
<1>6. \A s \in Request : s # r /\ calls[s].key = k => ~Working(s) /\ calls[s].at # "locked"
  BY <1>1, <1>2 DEF Orderly, Alone, Known, Working, Guarded
<1>7. calls'[r] = NoCall \/ calls'[r].key = k
  BY <1>2 DEF Reserve, Hold, Serves, Declines, StaysSilent, Refused, Unresolved, Record, Close,
              Goes, Ends, TypeOK, Call
<1>8. Known(r) /\ Delivery(k) /\ row \in Reservation
  BY <1>2 DEF Orderly, TypeOK, BalanceTypeOK, Records
<1> DEFINE Done == /\ Known(r)' /\ Delivery(k)' /\ (Guarded(r)' => Guarded(r))
                   /\ records'[k].reservation = "completed" => row = "completed" \/ k \in receipts
<1> USE DEF TypeOK, BalanceTypeOK, Records, Known, Delivery, Working, Sold, Guarded, Call, At, Goes, Ends, NoCall
<1>11. ASSUME Reserve(r) PROVE Done
  BY <1>2, <1>8, <1>11 DEF Reserve, Sets
<1>12. ASSUME Hold(r) PROVE Done
  BY <1>2, <1>8, <1>12 DEF Hold, Sets
<1>13. ASSUME NEW p \in Provider, Serves(r, p) PROVE Done
  BY <1>2, <1>8, <1>13 DEF Serves, Calls, Delivers
<1>14. ASSUME NEW p \in Provider, Declines(r, p) PROVE Done
  BY <1>2, <1>8, <1>14 DEF Declines, Calls
<1>15. ASSUME NEW p \in Provider, StaysSilent(r, p) PROVE Done
  BY <1>2, <1>8, <1>15 DEF StaysSilent, Calls, Delivers
<1>16. ASSUME Refused(r) PROVE Done
  BY <1>2, <1>8, <1>16 DEF Refused, SetsOrFails, Sets
<1>17. ASSUME Unresolved(r) PROVE Done
  BY <1>2, <1>8, <1>17 DEF Unresolved, SetsOrFails, Sets
<1>18. ASSUME Record(r) PROVE Done
  BY <1>2, <1>8, <1>18 DEF Record, Sets
<1>19. ASSUME Close(r) PROVE Done
  BY <1>2, <1>8, <1>19 DEF Close, SetsOrFails, Sets
<1>20. Done
  BY <1>11, <1>12, <1>13, <1>14, <1>15, <1>16, <1>17, <1>18, <1>19
<1> HIDE DEF Done, TypeOK, BalanceTypeOK, Records, Known, Delivery, Working, Sold, Guarded, Call, At, Goes, Ends, NoCall
<1>21. /\ Known(r)' /\ Delivery(k)' /\ (Guarded(r)' => Guarded(r))
       /\ records'[k].reservation = "completed" => row = "completed" \/ k \in receipts
  BY <1>20 DEF Done
<1>22. Alone'
  BY <1>2, <1>4, <1>6, <1>7, <1>21 DEF Orderly, Alone, Guarded, Working, NoCall
<1>23. ASSUME NEW s \in Request, s # r PROVE Known(s)'
  <2>1. CASE calls[s].key # k
    BY <1>3, <1>4, <1>5, <1>23, <2>1 DEF Orderly, Known, Working, Sold, Call
  <2>2. CASE calls[s].key = k
    BY <1>2, <1>4, <1>5, <1>6, <1>21, <1>23, <2>2 DEF Orderly, Known, Working, Sold
  <2> QED
    BY <2>1, <2>2
<1>24. ASSUME NEW j \in Key PROVE Delivery(j)'
  BY <1>5, <1>21 DEF Orderly, Delivery
<1> QED
  BY <1>21, <1>22, <1>23, <1>24 DEF Orderly

\* The reconciler leaves reservations alone, a reservation lapses only when no
\* request has its key, and a restart leaves no request.
LEMMA OtherOrderly ==
  ASSUME TypeOK, Orderly,
         \/ \E k \in Key : Settles(k) \/ Lapses(k)
         \/ SettlesBook \/ SettlesRow \/ Restart
  PROVE  Orderly'
<1> USE DEF Orderly, Alone, Known, Delivery, Working, Sold, Guarded
<1> DEFINE Kept == /\ UNCHANGED <<calls, receipts, delivered>>
                   /\ \A j \in Key : records'[j].reservation = records[j].reservation
<1>1. Kept => Orderly'
  <2>1. \A r \in Request : calls[r].at # "idle" => calls[r].key \in Key
    BY CallParts
  <2> QED
    BY <2>1
<1>2. ASSUME NEW k \in Key, Settles(k) PROVE Kept
  BY <1>2 DEF Settles, TypeOK, BalanceTypeOK, Records
<1>3. ASSUME NEW k \in Key, Lapses(k) PROVE Orderly'
  BY <1>3, CallParts DEF Lapses, Sets, TypeOK, BalanceTypeOK, Records
<1>4. CASE SettlesBook
  BY <1>1, <1>4 DEF SettlesBook
<1>5. SettlesRow => Kept
  <2> SUFFICES ASSUME SettlesRow PROVE Kept
    OBVIOUS
  <2>1. Sets(settling.key, "debit", FALSE) \/ Sets(settling.key, "unsettled", None)
    BY DEF SettlesRow
  <2>2. \A j \in Key : records'[j].reservation = records[j].reservation
    BY <2>1 DEF Sets, TypeOK, BalanceTypeOK, Records
  <2> QED
    BY <2>2 DEF SettlesRow
<1>6. CASE Restart
  BY <1>6 DEF Restart, NoCall
<1> QED
  BY <1>1, <1>2, <1>3, <1>4, <1>5, <1>6

LEMMA OrderlyInit == Init => Orderly
BY DEF Init, BalanceInit, NewRecord, NoCall, Orderly, Alone, Known, Delivery, Working, Sold, Guarded

LEMMA OrderlyStep ==
  ASSUME ~AskAgain, TypeOK, Orderly, Next
  PROVE  Orderly'
<1>1. ASSUME NEW r \in Request, Step(r) PROVE Orderly'
  <2>1. CASE (\E k \in Key : Ask(r, k)) \/ Lock(r) \/ Release(r) \/ Debit(r)
    BY <2>1, StartOrderly
  <2>2. CASE \/ Reserve(r) \/ Hold(r)
             \/ \E p \in Provider : Serves(r, p) \/ Declines(r, p) \/ StaysSilent(r, p)
             \/ Refused(r) \/ Unresolved(r) \/ Record(r) \/ Close(r)
    <3>1. calls[r].key \in Key
      BY <2>2, CallParts DEF Reserve, Hold, Serves, Declines, StaysSilent, Calls, Refused, Unresolved,
                            Record, Close, At
    <3> QED
      BY <2>2, <3>1, WorkOrderly
  <2> QED
    BY <1>1, <2>1, <2>2 DEF Step
<1>2. CASE \/ \E k \in Key : Settles(k) \/ Lapses(k)
           \/ SettlesBook \/ SettlesRow \/ Restart
  BY <1>2, OtherOrderly
<1> QED
  BY <1>1, <1>2 DEF Next, Step

\* What does not touch the requests, the receipts, the rows and the providers
\* changes nothing of it.
LEMMA OrderlyIdle ==
  ASSUME Orderly, UNCHANGED <<calls, receipts, records, delivered>>
  PROVE  Orderly'
BY DEF Orderly, Alone, Known, Delivery, Working, Sold, Guarded

LEMMA OrderlyKept == ~AskAgain => (Spec => []Orderly)
<1> SUFFICES ASSUME ~AskAgain PROVE Spec => []Orderly
  OBVIOUS
<1>1. TypeOK /\ Orderly /\ [Next]_pvars => Orderly'
  BY OrderlyStep, OrderlyIdle DEF pvars
<1> QED
  BY <1>1, OrderlyInit, TypeCorrect, PTL DEF Spec

LEMMA OrderlyOnce == Orderly => DeliveredOnce /\ FailedWasNotDelivered
<1> SUFFICES ASSUME Orderly PROVE DeliveredOnce /\ FailedWasNotDelivered
  OBVIOUS
<1>1. ASSUME NEW k \in Key PROVE Cardinality(delivered[k]) <= 1
  <2>1. CASE delivered[k] = {}
    BY <2>1, FS_EmptySet
  <2>2. ASSUME NEW p \in Provider, delivered[k] = {p} PROVE Cardinality(delivered[k]) <= 1
    BY <2>2, FS_Singleton
  <2> QED
    BY <2>1, <2>2 DEF Orderly, Delivery
<1>2. FailedWasNotDelivered
  BY DEF Orderly, Delivery, FailedWasNotDelivered
<1> QED
  BY <1>1, <1>2 DEF DeliveredOnce

\* Where no key is sent again after its receipt was forgotten, no key is delivered
\* twice, by whatever providers, requests, failures and restarts.
THEOREM OnceCorrect ==
  ASSUME ~AskAgain
  PROVE  Spec => []DeliveredOnce
BY OrderlyOnce, OrderlyKept, PTL

\* And a key that reads failed, whose price is given back, was delivered by nobody.
THEOREM FailedCorrect ==
  ASSUME ~AskAgain
  PROVE  Spec => []FailedWasNotDelivered
BY OrderlyOnce, OrderlyKept, PTL

------------------------------------------------------------------------------
\* What the entries of a key rest on, and what they come to.
Has(k, kind) == <<k, kind>> \in book.posted

Rests(k) ==
  /\ Has(k, "hold_release") \/ Has(k, "debit_transfer") \/ delivered[k] # {} => Has(k, "hold")
  /\ Has(k, "debit_transfer") \/ records[k].unsettled # None => delivered[k] # {}

Asks(r) ==
  /\ calls[r].at \in {"calling", "served", "debiting", "closing", "unknown", "refused", "releasing"}
       => Has(calls[r].key, "hold")
  /\ calls[r].at \in {"served", "debiting", "closing"} => delivered[calls[r].key] # {}

Account(k) ==
  /\ book.own[k] = IF Has(k, "hold") /\ ~Has(k, "hold_release") /\ ~Has(k, "debit_transfer")
                   THEN Price[k] ELSE 0
  /\ book.taken[k] = IF Has(k, "hold") /\ ~Has(k, "hold_release") THEN Price[k] ELSE 0

\* The inductive invariant.  The accounts of all keys depend on one another, for a
\* release that comes late draws on the holds of others: they are right as long as
\* no refused key was used again, and that, once so, stays so.
Clean == \A k \in Key : ~Reused(k)

Paid == /\ \A k \in Key : Rests(k)
        /\ \A r \in Request : Asks(r)
        /\ settling # NoSettling => delivered[settling.key] # {}
        /\ Clean => HoldsTracked /\ \A k \in Key : Account(k)

\* An entry that is new, and has the entries before it that it should, moves the
\* account of its key as it should and no other.
LEMMA EntryAccounts ==
  ASSUME TypeOK, HoldsTracked, \A j \in Key : Account(j),
         NEW k \in Key, NEW kind \in {"hold", "hold_release", "debit_transfer"},
         Enters(k, kind), ~Has(k, kind), ~Has(k, "hold_release"),
         kind = "hold" \/ Has(k, "hold"), kind = "debit_transfer" \/ ~Has(k, "debit_transfer")
  PROVE  HoldsTracked' /\ \A j \in Key : Account(j)'
<1>1. /\ k \in Item /\ kind \in Kind /\ book \in Books /\ Price[k] \in Nat
      /\ \A j \in Key : j \in Item /\ book.taken[j] \in Int /\ book.own[j] \in Nat
  BY BalanceAssumption DEF TypeOK, BalanceTypeOK, Books, Item, Kind
<1>2. book'.posted = book.posted \cup {<<k, kind>>}
  BY <1>1, EntersType
<1>3. Account(k)
  OBVIOUS
<1>4. CASE kind = "hold"
  <2>1. /\ book'.taken = [book.taken EXCEPT ![k] = @ + Price[k]]
        /\ book'.own = [book.own EXCEPT ![k] = @ + Price[k]]
        /\ HoldsTracked'
    BY <1>1, <1>4, HoldEntry
  <2>2. book'.taken[k] = Price[k] /\ book'.own[k] = Price[k]
    BY <1>1, <1>3, <1>4, <2>1 DEF Account, Books
  <2> QED
    BY <1>1, <1>2, <1>4, <2>1, <2>2 DEF Account, Has, Books
<1>5. CASE kind = "hold_release"
  <2>1. book.own[k] = Price[k] /\ book.taken[k] = Price[k]
    BY <1>3, <1>5 DEF Account
  <2>2. /\ book'.taken = [book.taken EXCEPT ![k] = @ - Price[k]]
        /\ book'.own = [book.own EXCEPT ![k] = 0]
        /\ HoldsTracked'
    BY <1>1, <1>5, <2>1, ReleaseEntry
  <2>3. book'.taken[k] = 0 /\ book'.own[k] = 0
    BY <1>1, <2>1, <2>2 DEF Books
  <2> QED
    BY <1>1, <1>2, <1>5, <2>2, <2>3 DEF Account, Has, Books
<1>6. CASE kind = "debit_transfer"
  <2>1. book.own[k] = Price[k]
    BY <1>3, <1>6 DEF Account
  <2>2. book'.taken = book.taken /\ book'.own = [book.own EXCEPT ![k] = 0] /\ HoldsTracked'
    BY <1>1, <1>6, <2>1, DebitEntry
  <2> QED
    BY <1>1, <1>2, <1>6, <2>2 DEF Account, Has, Books
<1> QED
  BY <1>4, <1>5, <1>6

\* Entries and deliveries are not taken back, and so a key used again stays so.
LEMMA StaysUsed ==
  ASSUME book.posted \subseteq book'.posted, \A j \in Key : delivered[j] \subseteq delivered'[j], Clean'
  PROVE  Clean
BY DEF Clean, Reused

\* A step that makes an entry, or finds it made, keeps the accounts.
LEMMA PostKeeps ==
  ASSUME TypeOK, Paid, UNCHANGED delivered, NEW k \in Key,
         NEW kind \in {"hold", "hold_release", "debit_transfer"}, Posts(k, kind),
         kind = "hold" \/ Has(k, "hold"), kind = "debit_transfer" => delivered[k] # {}
  PROVE  /\ book'.posted = book.posted \cup {<<k, kind>>}
         /\ Clean' => HoldsTracked' /\ \A j \in Key : Account(j)'
<1>1. book'.posted = book.posted \cup {<<k, kind>>}
  BY PostsType DEF TypeOK, BalanceTypeOK, Item, Kind
<1>2. ASSUME Clean' PROVE HoldsTracked' /\ \A j \in Key : Account(j)'
  <2>1. Clean
    BY <1>1, <1>2, StaysUsed
  <2>2. HoldsTracked /\ \A j \in Key : Account(j)
    BY <2>1 DEF Paid
  <2>3. CASE Has(k, kind)
    BY <2>2, <2>3 DEF Posts, Has, HoldsTracked, Account
  <2>4. CASE ~Has(k, kind)
    <3>1. Enters(k, kind) /\ Rests(k)
      BY <2>4 DEF Posts, Has, Paid
    <3>2. ~Has(k, "hold_release")
      BY <2>1, <2>4, <3>1 DEF Clean, Reused, Rests, Has
    <3>3. kind = "debit_transfer" \/ ~Has(k, "debit_transfer")
      <4>1. kind = "hold_release" => delivered[k] = {}
        BY <1>1, <1>2 DEF Clean, Reused
      <4> QED
        BY <2>4, <3>1, <4>1 DEF Rests
    <3> QED
      BY <2>2, <2>4, <3>1, <3>2, <3>3, EntryAccounts
  <2> QED
    BY <2>3, <2>4
<1> QED
  BY <1>1, <1>2

\* A step that makes no entry keeps them as well.
LEMMA QuietKeeps ==
  ASSUME Paid, UNCHANGED book, \A j \in Key : delivered[j] \subseteq delivered'[j], Clean'
  PROVE  HoldsTracked' /\ \A j \in Key : Account(j)'
<1>1. Clean
  BY StaysUsed
<1> QED
  BY <1>1 DEF Paid, HoldsTracked, Account, Has

\* A request holds before it calls, delivers before it debits, and releases what
\* nobody delivered or was used again.
LEMMA StepPaid ==
  ASSUME TypeOK, Paid, NEW r \in Request, Step(r)
  PROVE  Paid'
<1> DEFINE k == calls[r].key
<1>0. /\ \A s \in Request : calls[s].at # "idle" => calls[s] \in Call /\ calls[s].key \in Key
      /\ \A s \in Request : s # r => calls'[s] = calls[s]
      /\ UNCHANGED settling
      /\ calls[r].at # "idle" => calls'[r] = NoCall \/ calls'[r].key = k
  <2>1. calls[r].at # "idle" => calls[r] \in Call /\ k \in Key
    BY CallParts
  <2>2. \A s \in Request : calls[s].at # "idle" => calls[s] \in Call /\ calls[s].key \in Key
    BY CallParts
  <2>3. \E c : calls' = [calls EXCEPT ![r] = c] /\ (calls[r].at # "idle" => c = NoCall \/ c.key = k)
    <3>1. \/ calls[r].at = "idle" /\ \E c : calls' = [calls EXCEPT ![r] = c]
          \/ /\ calls[r].at # "idle"
             /\ Ends(r) \/ (\E place : Goes(r, place)) \/ calls' = [calls EXCEPT ![r].hop = @ + 1]
      BY DEF Step, Ask, Lock, Reserve, Hold, Serves, Declines, StaysSilent, Refused, Release, Unresolved,
             Record, Debit, Close, Calls, At
    <3>2. calls[r].at # "idle" =>
            /\ \A place : [calls[r] EXCEPT !.at = place].key = k
            /\ [calls[r] EXCEPT !.hop = @ + 1].key = k
      BY <2>1 DEF Call
    <3> QED
      BY <3>1, <3>2 DEF Goes, Ends
  <2>4. UNCHANGED settling
    BY DEF Step, Ask, Lock, Reserve, Hold, Serves, Declines, StaysSilent, Refused, Release, Unresolved,
           Record, Debit, Close
  <2> QED
    BY <2>2, <2>3, <2>4 DEF TypeOK
<1>1. ASSUME book.posted \subseteq book'.posted, \A j \in Key : delivered[j] \subseteq delivered'[j],
             Asks(r)', \A j \in Key : Rests(j)',
             Clean' => HoldsTracked' /\ \A j \in Key : Account(j)'
      PROVE  Paid'
  <2>1. \A s \in Request : Asks(s)'
    BY <1>0, <1>1 DEF Paid, Asks, Has
  <2>2. settling # NoSettling => settling.key \in Key
    BY DEF TypeOK, Settling
  <2>3. (settling # NoSettling => delivered[settling.key] # {})'
    BY <1>0, <1>1, <2>2 DEF Paid
  <2> QED
    BY <1>1, <2>1, <2>3 DEF Paid
<1>2. ASSUME UNCHANGED <<book, delivered>>, Asks(r)',
             \A j \in Key : records'[j].unsettled = records[j].unsettled \/ delivered[j] # {}
      PROVE  Paid'
  <2>1. \A j \in Key : Rests(j)'
    BY <1>2 DEF Paid, Rests, Has
  <2> QED
    BY <1>1, <1>2, <2>1, QuietKeeps
<1>3. \A j \in Key, value \in Reservation : Sets(j, "reservation", value) =>
        \A i \in Key : records'[i].unsettled = records[i].unsettled
  BY DEF Sets, TypeOK, BalanceTypeOK, Records
<1>4. CASE (\E j \in Key : Ask(r, j)) \/ Lock(r)
  <2>1. calls'[r].at \in {"asked", "locked", "idle"}
    BY <1>4, <1>0 DEF Ask, Lock, Goes, Ends, NoCall, At, TypeOK, Call
  <2> QED
    BY <1>2, <1>4, <2>1 DEF Asks, Ask, Lock
<1>5. CASE Reserve(r)
  <2>1. calls'[r].at \in {"reserved", "idle"} /\ k \in Key
    BY <1>5, <1>0 DEF Reserve, Goes, Ends, NoCall, At, TypeOK, Call
  <2> QED
    BY <1>2, <1>3, <1>5, <2>1 DEF Asks, Reserve, Reservation
<1>6. CASE Hold(r)
  <2>1. k \in Key /\ calls[r] \in Call
    BY <1>6, <1>0 DEF Hold, At
  <2>2. CASE Posts(k, "hold") /\ Goes(r, "calling") /\ UNCHANGED records
    <3>1. /\ book'.posted = book.posted \cup {<<k, "hold">>}
          /\ Clean' => HoldsTracked' /\ \A j \in Key : Account(j)'
      BY <1>6, <2>1, <2>2, PostKeeps DEF Hold
    <3>2. calls'[r].at = "calling" /\ calls'[r].key = k
      BY <2>1, <2>2 DEF Goes, TypeOK, Call
    <3>3. Asks(r)' /\ \A j \in Key : Rests(j)'
      BY <1>6, <2>2, <3>1, <3>2 DEF Hold, Asks, Rests, Has, Paid
    <3> QED
      BY <1>1, <1>6, <3>1, <3>3 DEF Hold
  <2>3. CASE Ends(r) /\ UNCHANGED book /\ (Sets(k, "reservation", "failed") \/ UNCHANGED records)
    <3>1. calls'[r].at = "idle"
      BY <2>3 DEF Ends, NoCall, TypeOK
    <3> QED
      BY <1>2, <1>3, <1>6, <2>1, <2>3, <3>1 DEF Hold, Asks, Reservation
  <2> QED
    BY <1>6, <2>2, <2>3 DEF Hold
<1>7. ASSUME NEW p \in Provider, Serves(r, p) \/ Declines(r, p) \/ StaysSilent(r, p) PROVE Paid'
  <2>1. k \in Key /\ calls[r] \in Call /\ calls[r].at = "calling" /\ Has(k, "hold")
    BY <1>0, <1>7 DEF Serves, Declines, StaysSilent, Calls, At, Paid, Asks
  <2>2. CASE Declines(r, p)
    <3>1. calls'[r].at \in {"calling", "refused"} /\ calls'[r].key = k
      BY <2>1, <2>2 DEF Declines, Goes, TypeOK, Call
    <3>2. Asks(r)'
      BY <2>1, <2>2, <3>1 DEF Declines, Asks, Has
    <3> QED
      BY <1>2, <2>2, <3>2 DEF Declines
  <2>3. CASE Serves(r, p) \/ StaysSilent(r, p)
    <3>1. /\ UNCHANGED <<book, records>>
          /\ \A j \in Key : delivered[j] \subseteq delivered'[j] /\ (j # k => delivered'[j] = delivered[j])
          /\ Serves(r, p) => delivered'[k] # {}
      BY <2>1, <2>3 DEF Serves, StaysSilent, Delivers, TypeOK
    <3>2. /\ calls'[r].at \in {"served", "unknown"} /\ calls'[r].key = k
          /\ calls'[r].at = "served" => Serves(r, p)
      BY <2>1, <2>3 DEF Serves, StaysSilent, Goes, TypeOK, Call
    <3>3. Asks(r)' /\ \A j \in Key : Rests(j)'
      BY <2>1, <3>1, <3>2 DEF Asks, Rests, Has, Paid
    <3> QED
      BY <1>1, <3>1, <3>3, QuietKeeps
  <2> QED
    BY <1>7, <2>2, <2>3
<1>8. CASE Refused(r) \/ Unresolved(r) \/ Close(r)
  <2>1. k \in Key /\ calls[r] \in Call
    BY <1>8, <1>0 DEF Refused, Unresolved, Close, At
  <2>2. calls'[r] = NoCall \/ (calls'[r].at = "releasing" /\ calls'[r].key = k /\ calls[r].at = "refused")
    BY <1>8, <2>1 DEF Refused, Unresolved, Close, Goes, Ends, At, TypeOK, Call
  <2>3. Asks(r)'
    BY <1>8, <2>1, <2>2 DEF Refused, Unresolved, Close, Asks, Paid, NoCall, Has
  <2> QED
    BY <1>2, <1>3, <1>8, <2>1, <2>3 DEF Refused, Unresolved, Close, SetsOrFails, Reservation
<1>9. CASE Release(r) \/ Debit(r)
  <2> DEFINE kind == IF calls[r].at = "releasing" THEN "hold_release" ELSE "debit_transfer"
  <2>1. /\ k \in Key /\ calls[r] \in Call /\ Has(k, "hold")
        /\ kind = "debit_transfer" => calls[r].at = "debiting" /\ delivered[k] # {}
        /\ UNCHANGED <<records, delivered>>
        /\ PostsOrFails(k, kind)
    BY <1>0, <1>9 DEF Release, Debit, At, Paid, Asks
  <2>2. calls'[r] = NoCall \/ (calls'[r].at = "closing" /\ calls'[r].key = k /\ delivered[k] # {})
    BY <1>9, <2>1 DEF Release, Debit, Goes, Ends, At, TypeOK, Call
  <2>3. CASE UNCHANGED book
    <3>1. Asks(r)'
      BY <2>1, <2>2, <2>3 DEF Asks, NoCall, Has
    <3> QED
      BY <1>2, <2>1, <2>3, <3>1
  <2>4. CASE Posts(k, kind)
    <3>1. /\ book'.posted = book.posted \cup {<<k, kind>>}
          /\ Clean' => HoldsTracked' /\ \A j \in Key : Account(j)'
      BY <2>1, <2>4, PostKeeps
    <3>2. Asks(r)' /\ \A j \in Key : Rests(j)'
      BY <2>1, <2>2, <3>1 DEF Asks, NoCall, Rests, Has, Paid
    <3> QED
      BY <1>1, <2>1, <3>1, <3>2
  <2> QED
    BY <2>1, <2>3, <2>4 DEF PostsOrFails
<1>10. CASE Record(r)
  <2>1. k \in Key /\ calls[r] \in Call /\ delivered[k] # {} /\ Has(k, "hold") /\ UNCHANGED <<book, delivered>>
    BY <1>0, <1>10 DEF Record, At, Paid, Asks
  <2>2. calls'[r].at \in {"debiting", "closing"} /\ calls'[r].key = k
    BY <1>10, <2>1 DEF Record, Goes, TypeOK, Call
  <2>3. \A j \in Key : records'[j].unsettled = records[j].unsettled \/ j = k
    BY <1>10, <2>1 DEF Record, Sets, TypeOK, BalanceTypeOK, Records
  <2>4. Asks(r)'
    BY <2>1, <2>2 DEF Asks, Has
  <2> QED
    BY <1>2, <2>1, <2>3, <2>4
<1> QED
  BY <1>4, <1>5, <1>6, <1>7, <1>8, <1>9, <1>10 DEF Step

\* The reconciler debits what was delivered, and a restart forgets requests.
LEMMA OtherPaid ==
  ASSUME TypeOK, Paid,
         \/ \E k \in Key : Settles(k) \/ Lapses(k)
         \/ SettlesBook \/ SettlesRow \/ Restart
  PROVE  Paid'
<1>1. ASSUME UNCHANGED <<book, delivered>>, \A r \in Request : calls'[r] = calls[r] \/ calls'[r] = NoCall,
             \A j \in Key : records'[j].unsettled \in {records[j].unsettled, None},
             settling' = NoSettling \/ settling'.key = settling.key \/ delivered[settling'.key] # {},
             settling' # NoSettling => settling # NoSettling \/ delivered[settling'.key] # {}
      PROVE  Paid'
  <2>1. \A j \in Key : Rests(j)'
    BY <1>1 DEF Paid, Rests, Has
  <2>2. \A r \in Request : Asks(r)'
    BY <1>1 DEF Paid, Asks, Has, NoCall
  <2>3. Clean' => HoldsTracked' /\ \A j \in Key : Account(j)'
    BY <1>1, QuietKeeps
  <2> QED
    BY <1>1, <2>1, <2>2, <2>3 DEF Paid
<1>2. ASSUME NEW k \in Key, Settles(k) PROVE Paid'
  <2>1. delivered[k] # {} /\ settling'.key = k
    BY <1>2 DEF Settles, Paid, Rests
  <2>2. \A j \in Key : records'[j].unsettled \in {records[j].unsettled, None}
    BY <1>2 DEF Settles, TypeOK, BalanceTypeOK, Records
  <2> QED
    BY <1>1, <1>2, <2>1, <2>2 DEF Settles
<1>3. ASSUME NEW k \in Key, Lapses(k) PROVE Paid'
  <2>1. \A j \in Key : records'[j].unsettled = records[j].unsettled
    BY <1>3 DEF Lapses, Sets, TypeOK, BalanceTypeOK, Records
  <2> QED
    BY <1>1, <1>3, <2>1 DEF Lapses
<1>4. CASE SettlesBook
  <2> DEFINE k == settling.key
  <2>1. /\ settling # NoSettling /\ k \in Key /\ delivered[k] # {}
        /\ settling'.key = k /\ UNCHANGED <<records, calls, delivered>>
        /\ PostsOrFails(k, "debit_transfer")
    <3>1. settling \in Settling /\ settling # NoSettling /\ k \in Key
      <4>1. settling.at \in {"same", "other"}
        BY <1>4 DEF SettlesBook
      <4>2. settling.at # "idle" /\ settling # NoSettling
        BY <4>1 DEF NoSettling
      <4> QED
        BY <4>2, SettlingParts
    <3>2. settling'.key = k
      BY <1>4, <3>1 DEF SettlesBook, Settling
    <3> QED
      BY <1>4, <3>1, <3>2 DEF SettlesBook, Paid
  <2>2. CASE UNCHANGED book
    BY <1>1, <2>1, <2>2
  <2>3. CASE Posts(k, "debit_transfer")
    <3>1. Has(k, "hold")
      BY <2>1 DEF Paid, Rests
    <3>2. /\ book'.posted = book.posted \cup {<<k, "debit_transfer">>}
          /\ Clean' => HoldsTracked' /\ \A j \in Key : Account(j)'
      BY <2>1, <2>3, <3>1, PostKeeps
    <3>3. (\A j \in Key : Rests(j)') /\ (\A r \in Request : Asks(r)')
      BY <2>1, <3>1, <3>2 DEF Paid, Rests, Asks, Has
    <3> QED
      BY <2>1, <3>2, <3>3 DEF Paid
  <2> QED
    BY <2>1, <2>2, <2>3 DEF PostsOrFails
<1>5. CASE SettlesRow
  <2>1. \A j \in Key : records'[j].unsettled \in {records[j].unsettled, None}
    <3>1. Sets(settling.key, "debit", FALSE) \/ Sets(settling.key, "unsettled", None)
      BY <1>5 DEF SettlesRow
    <3> QED
      BY <3>1 DEF Sets, TypeOK, BalanceTypeOK, Records
  <2> QED
    BY <1>1, <1>5, <2>1 DEF SettlesRow
<1>6. CASE Restart
  BY <1>1, <1>6 DEF Restart
<1> QED
  BY <1>2, <1>3, <1>4, <1>5, <1>6

LEMMA PaidInit == Init => Paid
<1> SUFFICES ASSUME Init PROVE Paid
  OBVIOUS
<1>1. HoldsTracked
  BY BalanceAssumption, SumZero DEF Init, BalanceInit, NewBook, HoldsTracked
<1>2. \A k \in Key : Rests(k) /\ Account(k)
  BY DEF Init, BalanceInit, NewBook, NewRecord, Rests, Account, Has, Item
<1> QED
  BY <1>1, <1>2 DEF Init, Paid, Asks, NoCall

LEMMA PaidIsPaid == Paid => DeliveredIsPaid
<1> SUFFICES ASSUME Paid, Clean, NEW k \in Key, delivered[k] # {} PROVE book.taken[k] = Price[k]
  BY DEF DeliveredIsPaid, Clean
<1>1. Rests(k) /\ Account(k) /\ ~Reused(k)
  BY DEF Paid, Clean
<1> QED
  BY <1>1 DEF Rests, Account, Reused, Has

LEMMA PaidKept == Spec => []Paid
<1>1. TypeOK /\ Paid /\ [Next]_pvars => Paid'
  <2> SUFFICES ASSUME TypeOK, Paid, [Next]_pvars PROVE Paid'
    OBVIOUS
  <2>1. CASE UNCHANGED pvars
    BY <2>1 DEF pvars, Paid, Rests, Asks, Account, Has, HoldsTracked, Clean, Reused
  <2>2. CASE Next
    BY <2>2, StepPaid, OtherPaid DEF Next, Step
  <2> QED
    BY <2>1, <2>2
<1> QED
  BY <1>1, PaidInit, TypeCorrect, PTL DEF Spec

\* What was delivered costs its price, through failing writes, restarts, keys sent
\* again and the reconciler, as long as no refused key was delivered after all.
THEOREM PaidCorrect == Spec => []DeliveredIsPaid
BY PaidIsPaid, PaidKept, PTL

------------------------------------------------------------------------------
\* Where the rows of a key that was or may be delivered no longer take its price
\* off, and which keys are counted on: those under way or delivered, but for the
\* ones whose rows are lost or whose price was given back.
Lost(k) == \/ records[k].reservation = "lapsed"
           \/ /\ records[k].reservation = "completed"
              /\ ~records[k].debit /\ records[k].unsettled = None
Busy(r) == Guarded(r) \/ Working(r)
Live(k) == /\ ~Has(k, "hold_release") /\ ~Lost(k)
           /\ delivered[k] # {} \/ \E r \in Request : calls[r].key = k /\ Busy(r)
Alive == {k \in Key : Live(k)}

\* The journal takes no item's price twice back, and of a key each hold until it is
\* released.
Charged(i) == /\ book.taken[i] >= 0
              /\ i \in Key /\ Has(i, "hold") /\ ~Has(i, "hold_release") => book.taken[i] >= Price[i]

Within == /\ \A i \in Item : Charged(i)
          /\ SumFunctionOnSet(Price, Alive) <= Deposit

\* An entry takes at least what it should, whatever the hold it draws on.
LEMMA EntryCharges ==
  ASSUME TypeOK, \A i \in Item : Charged(i), NEW k \in Key,
         NEW kind \in {"hold", "hold_release", "debit_transfer"}, Posts(k, kind),
         kind = "hold_release" => Has(k, "hold"), Has(k, "hold_release") => Has(k, "hold")
  PROVE  /\ \A i \in Item : Charged(i)'
         /\ book.posted \subseteq book'.posted
<1>1. /\ k \in Item /\ kind \in Kind /\ book \in Books
      /\ \A i \in Item : book.taken[i] \in Int /\ Price[i] \in Nat
  BY BalanceAssumption DEF TypeOK, BalanceTypeOK, Books, Item, Kind
<1>2. book'.posted = book.posted \cup {<<k, kind>>} /\ book' \in Books
  BY <1>1, PostsType
<1>3. CASE Has(k, kind)
  BY <1>2, <1>3 DEF Posts, Has, Charged
<1>4. CASE ~Has(k, kind)
  <2>1. Enters(k, kind) /\ Charged(k) /\ book'.taken[k] \in Int
    BY <1>1, <1>2, <1>4 DEF Posts, Has, Books
  <2>2. /\ kind = "hold" => book'.taken[k] = book.taken[k] + Price[k]
        /\ kind = "hold_release" => book'.taken[k] = book.taken[k] - Price[k]
        /\ kind = "debit_transfer" => book'.taken[k] >= book.taken[k]
    BY <1>1, <2>1, EntryTakes
  <2>3. Has(k, kind)' /\ \A other : other # kind => (Has(k, other)' <=> Has(k, other))
    BY <1>2 DEF Has
  <2>4. kind = "hold_release" => book.taken[k] >= Price[k]
    BY <1>4, <2>1 DEF Charged
  <2>5. kind # "hold" => (Has(k, "hold")' <=> Has(k, "hold"))
    BY <2>3
  <2>6. kind # "hold_release" => (Has(k, "hold_release")' <=> Has(k, "hold_release"))
    BY <2>3
  <2>7. Charged(k)'
    BY <1>1, <2>1, <2>2, <2>3, <2>4, <2>5, <2>6 DEF Charged
  <2>8. ASSUME NEW i \in Item, i # k PROVE Charged(i)'
    <3>1. /\ book'.taken[i] = book.taken[i] /\ Charged(i)
          /\ \A other : <<i, other>> \in book'.posted <=> <<i, other>> \in book.posted
      BY <1>1, <2>1, <2>8, EntryIsOfOne
    <3> QED
      BY <3>1 DEF Charged, Has
  <2> QED
    BY <1>2, <2>7, <2>8
<1> QED
  BY <1>3, <1>4

\* While nobody is between the look at the balance and the hold, every key that is
\* counted on is held in the journal and stands in the rows.
LEMMA LiveIsTaken ==
  ASSUME TypeOK, Orderly, Paid, \A i \in Item : Charged(i), Unlocked, NEW k \in Key, Live(k)
  PROVE  book.taken[k] >= Price[k] /\ Takes(k) \in {1, 2, 3}
<1>1. records[k] \in Records
  BY DEF TypeOK, BalanceTypeOK
<1>2. ASSUME NEW r \in Request, calls[r].key = k, Busy(r)
      PROVE  Has(k, "hold") /\ records[k].reservation = "submitted"
  <2>1. ~Guarded(r) /\ Working(r) /\ calls[r].at # "reserved"
    BY <1>2 DEF Busy, Unlocked, Guarded
  <2>2. Asks(r) /\ Known(r)
    BY DEF Paid, Orderly
  <2> QED
    BY <1>2, <2>1, <2>2 DEF Asks, Known, Working
<1>3. delivered[k] # {} => Has(k, "hold") /\ Delivery(k)
  BY DEF Paid, Rests, Orderly
<1>4. Has(k, "hold") /\ ~Has(k, "hold_release") /\ ~Lost(k)
  BY <1>2, <1>3 DEF Live
<1>5. k \in Item /\ Charged(k)
  BY DEF Item
<1>6. \/ records[k].reservation \in {"submitted", "pending_reconciliation"}
      \/ records[k].debit \/ records[k].unsettled # None
  BY <1>2, <1>3, <1>4 DEF Live, Delivery, Lost
<1> QED
  BY <1>1, <1>4, <1>5, <1>6 DEF Charged, Takes, Records

\* What is counted on fits into each of the two figures the balance is read from.
LEMMA AliveFits ==
  ASSUME TypeOK, Orderly, Paid, \A i \in Item : Charged(i), Unlocked
  PROVE  /\ SumFunctionOnSet(Price, Alive) \in Int
         /\ Taken \in Int /\ SumFunctionOnSet(Price, Alive) <= Taken
         /\ SumFunctionOnSet(Price, Alive) <= SumFunction([k \in Key |-> Price[k] * Takes(k)])
         /\ SumFunction([k \in Key |-> Price[k] * Takes(k)]) \in Int
<1> DEFINE f == [k \in Key |-> Price[k] * Takes(k)]
<1>1. /\ Alive \in SUBSET Key /\ Alive \in SUBSET Item
      /\ IsFiniteSet(Key) /\ IsFiniteSet(Item) /\ IsFiniteSet(Alive)
      /\ \A i \in Item : Price[i] \in Nat
      /\ \A k \in Key : k \in Item
  <2>1. IsFiniteSet(Item) /\ Key \in SUBSET Item /\ Alive \in SUBSET Key
    BY BalanceAssumption DEF Item, Alive
  <2>2. IsFiniteSet(Key)
    BY <2>1, FS_Subset
  <2>3. IsFiniteSet(Alive)
    BY <2>1, <2>2, FS_Subset
  <2> QED
    BY <2>1, <2>2, <2>3, BalanceAssumption
<1>2. \A i \in Item : book.taken[i] \in Nat
  BY DEF Charged, TypeOK, BalanceTypeOK, Books
<1>3. \A k \in Alive : book.taken[k] >= Price[k] /\ Takes(k) \in {1, 2, 3}
  BY LiveIsTaken DEF Alive
<1>4. \A k \in Key : f[k] = Price[k] * Takes(k) /\ Takes(k) \in {0, 1, 2, 3}
  BY DEF Takes
<1>5. (\A k \in Key : f[k] \in Nat) /\ \A k \in Alive : Price[k] <= f[k]
  <2>1. ASSUME NEW n \in Nat PROVE n * 0 = 0 /\ n * 1 = n /\ n * 2 = n + n /\ n * 3 = n + n + n
    OBVIOUS
  <2> HIDE DEF f
  <2> QED
    BY <1>1, <1>3, <1>4, <2>1
<1>6. SumFunctionOnSet(Price, Alive) \in Int
  BY <1>1, SumType
<1>7. SumFunctionOnSet(Price, Alive) <= SumFunctionOnSet(book.taken, Item)
  BY <1>1, <1>2, <1>3, SumCovered
<1>8. SumFunctionOnSet(Price, Alive) <= SumFunctionOnSet(f, Key)
  <2> HIDE DEF f
  <2> QED
    BY <1>1, <1>5, SumCovered
<1>9. SumFunctionOnSet(book.taken, Item) \in Int /\ SumFunctionOnSet(f, Key) \in Int
  <2> HIDE DEF f
  <2> QED
    BY <1>1, <1>2, <1>5, SumType
<1>10. Taken = SumFunctionOnSet(book.taken, Item) /\ SumFunction(f) = SumFunctionOnSet(f, Key)
  BY DEF Taken, SumFunction, TypeOK, BalanceTypeOK, Books
<1> QED
  BY <1>6, <1>7, <1>8, <1>9, <1>10

\* So a price within the balance is within what is left of the deposit, whichever
\* of the two figures getUserNgnBalance took.
LEMMA Affordable ==
  ASSUME TypeOK, Orderly, Paid, Within, Unlocked, NEW k \in Key, NgnFunds >= Price[k]
  PROVE  SumFunctionOnSet(Price, Alive) + Price[k] <= Deposit
<1> DEFINE rows == SumFunction([j \in Key |-> Price[j] * Takes(j)])
           sum == SumFunctionOnSet(Price, Alive)
<1>1. sum \in Int /\ Taken \in Int /\ sum <= Taken /\ sum <= rows /\ rows \in Int /\ sum <= Deposit
  BY AliveFits DEF Within
<1>2. Deposit \in Nat /\ Price[k] \in Nat
  BY BalanceAssumption DEF Item
<1> HIDE DEF rows, sum
<1>3. RowBalance \in {0, Deposit - rows} /\ RowBalance \in Int
  <2>1. RowBalance = Max({0, Deposit - rows})
    BY DEF RowBalance, rows
  <2>2. Deposit - rows \in Int
    BY <1>1, <1>2
  <2>3. ASSUME NEW x \in Int PROVE Max({0, x}) \in {0, x}
    <3>1. \E m \in {0, x} : \A n \in {0, x} : m >= n
      OBVIOUS
    <3> QED
      BY <3>1 DEF Max
  <2> QED
    BY <2>1, <2>2, <2>3
<1>4. Available = Deposit - Taken /\ Available \in Int
  BY <1>1, <1>2 DEF Available
<1>5. \/ NgnFunds = RowBalance
      \/ NgnFunds = Available
  <2>1. ASSUME NEW x \in Int, NEW y \in Int PROVE Min({x, y}) \in {x, y}
    <3>1. \E m \in {x, y} : \A n \in {x, y} : m <= n
      OBVIOUS
    <3> QED
      BY <3>1 DEF Min
  <2> QED
    BY <1>3, <1>4, <2>1 DEF NgnFunds
<1> QED
  BY <1>1, <1>2, <1>3, <1>4, <1>5 DEF sum

\* If no more is counted on than before, what it comes to does not grow.
LEMMA FewerAlive ==
  ASSUME NEW T \in SUBSET Key, NEW S \in SUBSET T
  PROVE  SumFunctionOnSet(Price, S) <= SumFunctionOnSet(Price, T)
<1>1. IsFiniteSet(T) /\ \A k \in T : Price[k] \in Nat
  BY BalanceAssumption, FS_Subset DEF Item
<1> QED
  BY <1>1, SumCovered

\* What keeps a step of a request, of the reconciler or of time within: no entry
\* too small, and nothing counted on that was not before.
LEMMA LiveStays ==
  ASSUME TypeOK, Within,
         \A i \in Item : Charged(i)', book.posted \subseteq book'.posted,
         \A k \in Key : Lost(k) => Lost(k)',
         \A k \in Key : delivered'[k] # {} \/ (\E r \in Request : calls'[r].key = k /\ Busy(r)')
                          => delivered[k] # {} \/ \E r \in Request : calls[r].key = k /\ Busy(r)
  PROVE  Within'
<1>1. \A k \in Key : Live(k)' => Live(k)
  BY DEF Live, Has
<1>2. Alive' \in SUBSET Alive /\ Alive \in SUBSET Key
  BY <1>1 DEF Alive
<1>3. SumFunctionOnSet(Price, Alive') <= SumFunctionOnSet(Price, Alive)
  BY <1>2, FewerAlive
<1>4. /\ SumFunctionOnSet(Price, Alive') \in Int /\ SumFunctionOnSet(Price, Alive) \in Int
      /\ Deposit \in Int
  <2>1. IsFiniteSet(Alive) /\ IsFiniteSet(Alive') /\ \A k \in Alive : Price[k] \in Int
    BY <1>2, BalanceAssumption, FS_Subset DEF Item
  <2> QED
    BY <1>2, <2>1, SumType, BalanceAssumption
<1> QED
  BY <1>3, <1>4 DEF Within

\* A request counts on nothing new but at the lock, and loses no row it works on.
LEMMA StepWithin ==
  ASSUME TypeOK, Orderly, Paid, Within, NEW r \in Request, Step(r), ~Lock(r)
  PROVE  Within'
<1> DEFINE k == calls[r].key
           Steady == /\ \A i \in Item : Charged(i)'
                     /\ book.posted \subseteq book'.posted
           Rows == \A j \in Key : Lost(j) => Lost(j)'
           Same == \A s \in Request : s # r => calls'[s] = calls[s]
           Mine == Busy(r)' => Busy(r) /\ calls'[r].key = k
           Given == \A j \in Key : delivered'[j] # {} => delivered[j] # {} \/ (j = k /\ Busy(r))
<1>1. ASSUME Steady, Rows, Same, Mine, Given PROVE Within'
  <2>1. ASSUME NEW j \in Key,
               delivered'[j] # {} \/ \E s \in Request : calls'[s].key = j /\ Busy(s)'
        PROVE  delivered[j] # {} \/ \E s \in Request : calls[s].key = j /\ Busy(s)
    <3>1. CASE delivered'[j] # {}
      BY <1>1, <3>1
    <3>2. ASSUME NEW s \in Request, calls'[s].key = j, Busy(s)'
          PROVE  calls[s].key = j /\ Busy(s)
      <4>1. CASE s = r
        BY <1>1, <3>2, <4>1
      <4>2. CASE s # r
        BY <1>1, <3>2, <4>2 DEF Busy, Guarded, Working
      <4> QED
        BY <4>1, <4>2
    <3> QED
      BY <2>1, <3>1, <3>2
  <2> QED
    BY <1>1, <2>1, LiveStays
<1>2. UNCHANGED book => Steady
  BY DEF Within, Charged, Has
<1>3. UNCHANGED records => Rows
  BY DEF Lost
<1>4. ASSUME calls[r].at # "idle" PROVE k \in Key /\ calls[r] \in Call
  BY <1>4, CallParts
<1>5. ASSUME calls[r].at # "idle", Ends(r) PROVE Same /\ Mine
  BY <1>5 DEF Ends, NoCall, Busy, Guarded, Working, TypeOK
<1>6. ASSUME NEW place \in Places, calls[r].at # "idle", Goes(r, place), Busy(r) \/ place \in {"releasing"}
      PROVE  Same /\ Mine
  <2>1. /\ Same
        /\ calls'[r].key = k /\ calls'[r].at = place
    BY <1>4, <1>6 DEF Goes, TypeOK, Call
  <2> QED
    BY <1>6, <2>1 DEF Busy, Guarded, Working
<1>7. UNCHANGED delivered => Given
  OBVIOUS
<1>8. ASSUME Busy(r), k \in Key, \A j \in Key : j # k => records'[j] = records[j] PROVE Rows
  <2>1. Known(r)
    BY DEF Orderly
  <2>2. ~Lost(k)
    BY <1>8, <2>1 DEF Busy, Known, Guarded, Working, Lost
  <2> QED
    BY <1>8, <2>2 DEF Lost
<1>9. ASSUME NEW field, NEW value, k \in Key, Sets(k, field, value)
      PROVE  \A j \in Key : j # k => records'[j] = records[j]
  BY <1>9 DEF Sets, TypeOK, BalanceTypeOK
<1>10. ASSUME NEW kind \in {"hold", "hold_release", "debit_transfer"}, k \in Key, Posts(k, kind),
              kind = "hold_release" => Has(k, "hold")
       PROVE  Steady
  BY <1>10, EntryCharges DEF Paid, Rests, Within
<1> HIDE DEF Steady, Rows, Same, Mine, Given
<1>11. ASSUME NEW new \in Key, Ask(r, new) PROVE Within'
  <2>1. Same /\ Mine
    BY <1>11 DEF Ask, Same, Mine, Busy, Guarded, Working, TypeOK
  <2> QED
    BY <1>1, <1>2, <1>3, <1>7, <1>11, <2>1 DEF Ask
<1>12. CASE Reserve(r)
  <2>1. calls[r].at = "locked" /\ Busy(r)
    BY <1>12 DEF Reserve, At, Busy, Guarded
  <2>2. k \in Key
    BY <1>4, <2>1
  <2>3. Same /\ Mine
    BY <1>5, <1>6, <1>12, <2>1 DEF Reserve, Places
  <2>4. Rows
    BY <1>3, <1>8, <1>9, <1>12, <2>1, <2>2 DEF Reserve
  <2> QED
    BY <1>1, <1>2, <1>7, <1>12, <2>3, <2>4 DEF Reserve
<1>13. CASE Hold(r)
  <2>1. calls[r].at = "reserved" /\ Busy(r)
    BY <1>13 DEF Hold, At, Busy, Guarded
  <2>2. k \in Key
    BY <1>4, <2>1
  <2>3. Same /\ Mine
    BY <1>5, <1>6, <1>13, <2>1 DEF Hold, Places
  <2>4. Rows
    BY <1>3, <1>8, <1>9, <1>13, <2>1, <2>2 DEF Hold
  <2>5. Steady
    BY <1>2, <1>10, <1>13, <2>2 DEF Hold
  <2> QED
    BY <1>1, <1>7, <1>13, <2>3, <2>4, <2>5 DEF Hold
<1>14. ASSUME NEW p \in Provider, Serves(r, p) \/ Declines(r, p) \/ StaysSilent(r, p) PROVE Within'
  <2>1. calls[r].at = "calling" /\ Busy(r)
    BY <1>14 DEF Serves, Declines, StaysSilent, Calls, At, Busy, Working
  <2>2. k \in Key /\ calls[r] \in Call
    BY <1>4, <2>1
  <2>3. Same /\ Mine
    <3>1. CASE calls' = [calls EXCEPT ![r].hop = @ + 1]
      BY <2>1, <2>2, <3>1 DEF Same, Mine, TypeOK, Call
    <3>2. CASE Goes(r, "served") \/ Goes(r, "refused") \/ Goes(r, "unknown")
      BY <1>6, <2>1, <3>2 DEF Places
    <3> QED
      BY <1>14, <3>1, <3>2 DEF Serves, Declines, StaysSilent
  <2>4. Given
    BY <1>14, <2>1, <2>2 DEF Serves, Declines, StaysSilent, Delivers, Given, TypeOK
  <2> QED
    BY <1>1, <1>2, <1>3, <1>14, <2>3, <2>4 DEF Serves, Declines, StaysSilent
<1>15. CASE Refused(r) \/ Unresolved(r) \/ Record(r) \/ Close(r)
  <2>1. /\ calls[r].at \in {"refused", "unknown", "served", "closing"} /\ Busy(r)
        /\ UNCHANGED <<book, delivered>>
    BY <1>15 DEF Refused, Unresolved, Record, Close, At, Busy, Working
  <2>2. k \in Key
    BY <1>4, <2>1
  <2>3. Same /\ Mine
    BY <1>5, <1>6, <1>15, <2>1 DEF Refused, Unresolved, Record, Close, Places
  <2>4. Rows
    BY <1>3, <1>8, <1>9, <1>15, <2>1, <2>2 DEF Refused, Unresolved, Record, Close, SetsOrFails
  <2> QED
    BY <1>1, <1>2, <1>7, <2>1, <2>3, <2>4
<1>16. CASE Release(r)
  <2>1. calls[r].at = "releasing" /\ Ends(r) /\ UNCHANGED <<records, delivered>>
    BY <1>16 DEF Release, At
  <2>2. k \in Key /\ Has(k, "hold")
    BY <1>4, <2>1 DEF Paid, Asks
  <2>3. Steady
    BY <1>2, <1>10, <1>16, <2>2 DEF Release, PostsOrFails
  <2> QED
    BY <1>1, <1>3, <1>5, <1>7, <2>1, <2>3
<1>17. CASE Debit(r)
  <2>1. calls[r].at = "debiting" /\ Busy(r) /\ Goes(r, "closing") /\ UNCHANGED <<records, delivered>>
    BY <1>17 DEF Debit, At, Busy, Working
  <2>2. k \in Key
    BY <1>4, <2>1
  <2>3. Steady
    BY <1>2, <1>10, <1>17, <2>2 DEF Debit, PostsOrFails
  <2>4. Same /\ Mine
    BY <1>6, <2>1 DEF Places
  <2> QED
    BY <1>1, <1>3, <1>7, <2>1, <2>3, <2>4
<1> QED
  BY <1>11, <1>12, <1>13, <1>14, <1>15, <1>16, <1>17 DEF Step

\* At the lock one more key is counted on, and its price is within what is left.
LEMMA LockWithin ==
  ASSUME TypeOK, Orderly, Paid, Within, NEW r \in Request, Lock(r)
  PROVE  Within'
<1> DEFINE k == calls[r].key
<1>1. /\ k \in Key /\ calls[r] \in Call /\ calls[r].at = "asked"
      /\ UNCHANGED <<book, records, delivered>>
  BY CallParts DEF Lock, At
<1>2. \A i \in Item : Charged(i)'
  BY <1>1 DEF Within, Charged, Has
<1>3. CASE Ends(r)
  <2>1. \A s \in Request : Busy(s)' => Busy(s) /\ calls'[s].key = calls[s].key
    BY <1>3 DEF Ends, NoCall, Busy, Guarded, Working, TypeOK
  <2>2. \A j \in Key : Lost(j) => Lost(j)'
    BY <1>1 DEF Lost
  <2> QED
    BY <1>1, <1>2, <2>1, <2>2, LiveStays
<1>4. CASE Unlocked /\ NgnFunds >= Price[k] /\ Goes(r, "locked")
  <2>1. \A s \in Request : Busy(s)' => /\ calls'[s].key = calls[s].key
                                       /\ s = r \/ Busy(s)
    BY <1>1, <1>4 DEF Goes, Busy, Guarded, Working, TypeOK, Call
  <2>2. \A j \in Key : Live(j)' => Live(j) \/ j = k
    BY <1>1, <2>1 DEF Live, Has, Lost
  <2>3. Alive' \in SUBSET (Alive \cup {k}) /\ Alive \in SUBSET Key
    BY <1>1, <2>2 DEF Alive
  <2> DEFINE more == Alive \cup {k}
  <2>4. SumFunctionOnSet(Price, Alive') <= SumFunctionOnSet(Price, more)
    BY <1>1, <2>3, FewerAlive
  <2>5. /\ IsFiniteSet(more) /\ IsFiniteSet(Alive) /\ IsFiniteSet(Alive')
        /\ \A j \in more : Price[j] \in Nat
    BY <1>1, <2>3, BalanceAssumption, FS_Subset DEF Item
  <2>6. /\ SumFunctionOnSet(Price, Alive) \in Int /\ SumFunctionOnSet(Price, Alive') \in Int
        /\ SumFunctionOnSet(Price, more) \in Int
    BY <2>3, <2>5, SumType
  <2>7. SumFunctionOnSet(Price, Alive) + Price[k] <= Deposit /\ Deposit \in Nat /\ Price[k] \in Nat
    BY <1>1, <1>4, Affordable, BalanceAssumption DEF Item
  <2>8. SumFunctionOnSet(Price, more) <= SumFunctionOnSet(Price, Alive) + Price[k]
    <3>1. CASE k \in Alive
      <4>1. more = Alive
        BY <3>1
      <4> HIDE DEF more
      <4> QED
        BY <2>6, <2>7, <4>1
    <3>2. CASE k \notin Alive
      <4>1. more \ {k} = Alive
        BY <3>2
      <4>2. SumFunctionOnSet(Price, more \ {k}) = SumFunctionOnSet(Price, Alive)
        BY <4>1
      <4>3. k \in more
        OBVIOUS
      <4> HIDE DEF more
      <4>4. SumFunctionOnSet(Price, more) = Price[k] + SumFunctionOnSet(Price, more \ {k})
        BY <2>5, <4>3, SumSplit
      <4> QED
        BY <2>6, <2>7, <4>2, <4>4
    <3> QED
      BY <3>1, <3>2
  <2> HIDE DEF more
  <2> QED
    BY <1>2, <2>4, <2>6, <2>7, <2>8 DEF Within
<1> QED
  BY <1>3, <1>4 DEF Lock

\* The reconciler, a reservation's five minutes and a restart count on nothing new.
LEMMA OtherWithin ==
  ASSUME TypeOK, Paid, Within,
         \/ \E k \in Key : Settles(k) \/ Lapses(k)
         \/ SettlesBook \/ SettlesRow \/ Restart
  PROVE  Within'
<1> DEFINE Steady == /\ \A i \in Item : Charged(i)'
                     /\ book.posted \subseteq book'.posted
           Rows == \A j \in Key : Lost(j) => Lost(j)'
<1>1. ASSUME Steady, Rows, UNCHANGED <<calls, delivered>> PROVE Within'
  BY <1>1, LiveStays DEF Busy, Guarded, Working
<1>2. UNCHANGED book => Steady
  BY DEF Within, Charged, Has
<1>3. UNCHANGED records => Rows
  BY DEF Lost
<1>4. \A j \in Key : records[j] \in Records
  BY DEF TypeOK, BalanceTypeOK
<1>5. ASSUME NEW k \in Key, Settles(k) PROVE Within'
  <2>1. Rows
    BY <1>4, <1>5 DEF Settles, Lost, Records, TypeOK, BalanceTypeOK
  <2> QED
    BY <1>1, <1>2, <1>5, <2>1 DEF Settles
<1>6. ASSUME NEW k \in Key, Lapses(k) PROVE Within'
  <2>1. Rows
    BY <1>4, <1>6 DEF Lapses, Sets, Lost, Records, TypeOK, BalanceTypeOK
  <2> QED
    BY <1>1, <1>2, <1>6, <2>1 DEF Lapses
<1>7. CASE SettlesBook
  <2>1. settling.key \in Key
    BY <1>7, SettlingParts DEF SettlesBook
  <2>2. Steady
    <3>1. CASE Posts(settling.key, "debit_transfer")
      BY <2>1, <3>1, EntryCharges DEF Paid, Rests, Within
    <3> QED
      BY <1>2, <1>7, <3>1 DEF SettlesBook, PostsOrFails
  <2> QED
    BY <1>1, <1>3, <1>7, <2>2 DEF SettlesBook
<1>8. CASE SettlesRow
  <2>1. Sets(settling.key, "debit", FALSE) \/ Sets(settling.key, "unsettled", None)
    BY <1>8 DEF SettlesRow
  <2>2. Rows
    BY <1>4, <2>1 DEF Sets, Lost, Records, TypeOK, BalanceTypeOK
  <2> QED
    BY <1>1, <1>2, <1>8, <2>2 DEF SettlesRow
<1>9. CASE Restart
  <2>1. \A r \in Request : ~Busy(r)'
    BY <1>9 DEF Restart, NoCall, Busy, Guarded, Working
  <2>2. Steady /\ Rows /\ UNCHANGED delivered
    BY <1>2, <1>3, <1>9 DEF Restart
  <2> QED
    BY <2>1, <2>2, LiveStays
<1> QED
  BY <1>5, <1>6, <1>7, <1>8, <1>9

LEMMA WithinInit == Init => Within
<1> SUFFICES ASSUME Init PROVE Within
  OBVIOUS
<1>1. Alive = {}
  BY DEF Init, BalanceInit, NewRecord, NoCall, Alive, Live, Busy, Guarded, Working
<1>2. \A i \in Item : Charged(i)
  BY DEF Init, BalanceInit, NewBook, Charged, Has
<1> QED
  BY <1>1, <1>2, SumEmpty, BalanceAssumption DEF Within

LEMMA WithinStep ==
  ASSUME TypeOK, Orderly, Paid, Within, Next
  PROVE  Within'
<1>1. ASSUME NEW r \in Request, Step(r) PROVE Within'
  BY <1>1, StepWithin, LockWithin
<1>2. CASE \/ \E k \in Key : Settles(k) \/ Lapses(k)
           \/ SettlesBook \/ SettlesRow \/ Restart
  BY <1>2, OtherWithin
<1> QED
  BY <1>1, <1>2 DEF Next, Step

\* What does not touch the requests, the rows and the providers counts on nothing
\* new either.
LEMMA WithinIdle ==
  ASSUME TypeOK, Within, UNCHANGED <<calls, records, delivered>>,
         \A i \in Item : Charged(i)', book.posted \subseteq book'.posted
  PROVE  Within'
<1>1. \A k \in Key : Lost(k) => Lost(k)'
  BY DEF Lost
<1>2. \A r \in Request : Busy(r)' <=> Busy(r)
  BY DEF Busy, Guarded, Working
<1> QED
  BY <1>1, <1>2, LiveStays

LEMMA WithinFits == TypeOK /\ Orderly /\ Within => WithinDeposit
<1> SUFFICES ASSUME TypeOK, Orderly, Within PROVE WithinDeposit
  OBVIOUS
<1> DEFINE sold == {k \in Key : delivered[k] # {} /\ ~Astray(k)}
<1>1. ASSUME NEW k \in Key, delivered[k] # {}, ~Astray(k) PROVE Live(k)
  <2>1. records[k].reservation # "failed"
    BY <1>1 DEF Orderly, Delivery
  <2> QED
    BY <1>1, <2>1 DEF Astray, Live, Lost, Has
<1>2. sold \in SUBSET Alive /\ Alive \in SUBSET Key
  BY <1>1 DEF Alive
<1>3. SumFunctionOnSet(Price, sold) <= SumFunctionOnSet(Price, Alive)
  BY <1>2, FewerAlive
<1>4. /\ SumFunctionOnSet(Price, sold) \in Int /\ SumFunctionOnSet(Price, Alive) \in Int
      /\ Deposit \in Int
  <2>1. IsFiniteSet(Alive) /\ IsFiniteSet(sold) /\ \A k \in Alive : Price[k] \in Int
    BY <1>2, BalanceAssumption, FS_Subset DEF Item
  <2> QED
    BY <1>2, <2>1, SumType, BalanceAssumption
<1> HIDE DEF sold
<1> QED
  BY <1>3, <1>4 DEF Within, WithinDeposit, sold

\* Nothing but what went astray is delivered beyond the deposit: the lock, the two
\* figures of the balance and the rows hold whatever fails or restarts.
THEOREM WithinCorrect ==
  ASSUME ~AskAgain
  PROVE  Spec => []WithinDeposit
<1>1. TypeOK /\ Orderly /\ Paid /\ Within /\ [Next]_pvars => Within'
  <2> SUFFICES ASSUME TypeOK, Orderly, Paid, Within, [Next]_pvars PROVE Within'
    OBVIOUS
  <2>1. CASE UNCHANGED pvars
    <3>1. \A i \in Item : Charged(i)'
      BY <2>1 DEF pvars, Within, Charged, Has
    <3> QED
      BY <2>1, <3>1, WithinIdle DEF pvars
  <2>2. CASE Next
    BY <2>2, WithinStep
  <2> QED
    BY <2>1, <2>2
<1> QED
  BY <1>1, WithinInit, WithinFits, TypeCorrect, OrderlyKept, PaidKept, PTL DEF Spec

------------------------------------------------------------------------------
\* Purchases and cash-outs together.  The proofs about BankCashouts are taken with
\* the same constants and variables.
OutflowProofs == INSTANCE BankCashoutsProofs

\* What the two modules mean by a sum, by what is held and by the types of the
\* journal is the same.
LEMMA SameSum ==
  ASSUME NEW f, NEW S
  PROVE  /\ OutflowProofs!SumFunctionOnSet(f, S) = SumFunctionOnSet(f, S)
         /\ Outflow!SumFunctionOnSet(f, S) = SumFunctionOnSet(f, S)
<1>1. OutflowProofs!SumFunctionOnSet(f, S) = Adder(f, S)[S]
  BY DEF OutflowProofs!SumFunctionOnSet, OutflowProofs!FoldFunctionOnSet, OutflowProofs!MapThenFoldSet,
         Adder, Adds, Pick
<1>2. Outflow!SumFunctionOnSet(f, S) = Adder(f, S)[S]
  BY DEF Outflow!SumFunctionOnSet, Outflow!FoldFunctionOnSet, Outflow!MapThenFoldSet, Adder, Adds, Pick
<1> QED
  BY <1>1, <1>2, SumIsAdder

LEMMA SameHolds ==
  /\ OutflowProofs!HoldsTracked <=> HoldsTracked
  /\ OutflowProofs!HoldsTracked' <=> HoldsTracked'
BY SameSum DEF OutflowProofs!HoldsTracked, HoldsTracked, OutflowProofs!Item, Item

LEMMA SameBalance ==
  /\ OutflowProofs!BalanceTypeOK <=> BalanceTypeOK
  /\ OutflowProofs!BalanceTypeOK' <=> BalanceTypeOK'
BY DEF OutflowProofs!BalanceTypeOK, BalanceTypeOK, OutflowProofs!Books, Books, OutflowProofs!Records, Records,
       OutflowProofs!Item, Item, OutflowProofs!Leg, Leg, OutflowProofs!Kind, Kind,
       OutflowProofs!Reservation, Reservation

LEMMA Assumed ==
  ASSUME Outflow!CashoutAssumption
  PROVE  OutflowProofs!CashoutAssumption /\ OutflowProofs!BalanceAssumption
BY BalanceAssumption DEF Outflow!CashoutAssumption, OutflowProofs!CashoutAssumption, Outflow!Event,
   OutflowProofs!Event, OutflowProofs!BalanceAssumption, OutflowProofs!Item, Item,
   OutflowProofs!IsFiniteSet, IsFiniteSet

LEMMA SameInit == Outflow!Init => OutflowProofs!Init
BY DEF Outflow!Init, OutflowProofs!Init, Outflow!BalanceInit, OutflowProofs!BalanceInit, Outflow!NewBook,
       OutflowProofs!NewBook, Outflow!NewRecord, OutflowProofs!NewRecord, Outflow!NewPayout,
       OutflowProofs!NewPayout, Outflow!NoHook, OutflowProofs!NoHook, Outflow!Item, OutflowProofs!Item

\* So are the steps of a cash-out.
LEMMA SameEntry ==
  ASSUME NEW i, NEW kind
  PROVE  /\ Outflow!Enters(i, kind) <=> OutflowProofs!Enters(i, kind)
         /\ Outflow!Posts(i, kind) <=> OutflowProofs!Posts(i, kind)
BY DEF Outflow!Enters, OutflowProofs!Enters, Outflow!Posts, OutflowProofs!Posts, Outflow!Added,
       OutflowProofs!Added, Outflow!Min, OutflowProofs!Min, Outflow!Max, OutflowProofs!Max

LEMMA SameFunds == Outflow!CashFunds = OutflowProofs!CashFunds
<1>1. Outflow!Available = OutflowProofs!Available
  BY SameSum DEF Outflow!Available, OutflowProofs!Available, Outflow!Taken, OutflowProofs!Taken,
                 Outflow!SumFunction, OutflowProofs!SumFunction
<1>2. ASSUME NEW k PROVE Outflow!Takes(k) = OutflowProofs!Takes(k)
  BY DEF Outflow!Takes, OutflowProofs!Takes
<1>3. Outflow!RowBalance = OutflowProofs!RowBalance
  <2>1. [k \in Key |-> Price[k] * Outflow!Takes(k)] = [k \in Key |-> Price[k] * OutflowProofs!Takes(k)]
    BY <1>2
  <2> QED
    BY <2>1, SameSum DEF Outflow!RowBalance, OutflowProofs!RowBalance, Outflow!SumFunction,
                         OutflowProofs!SumFunction, Outflow!Max, OutflowProofs!Max
<1> QED
  BY <1>1, <1>3 DEF Outflow!CashFunds, OutflowProofs!CashFunds, Outflow!NgnFunds, OutflowProofs!NgnFunds,
                    Outflow!Min, OutflowProofs!Min

LEMMA SameNext == Outflow!Next => OutflowProofs!Next
<1> USE DEF Outflow!Goes, OutflowProofs!Goes, Outflow!Saves, OutflowProofs!Saves, Outflow!At, OutflowProofs!At,
            Outflow!NoHook, OutflowProofs!NoHook
<1>1. ASSUME NEW c
      PROVE  /\ Outflow!Check(c) => OutflowProofs!Check(c)
             /\ Outflow!Hold(c) => OutflowProofs!Hold(c)
             /\ Outflow!SaveRow(c) => OutflowProofs!SaveRow(c)
             /\ Outflow!Send(c) => OutflowProofs!Send(c)
             /\ Outflow!Reject(c) => OutflowProofs!Reject(c)
             /\ Outflow!Accept(c) => OutflowProofs!Accept(c)
             /\ Outflow!SaveAccepted(c) => OutflowProofs!SaveAccepted(c)
  BY SameFunds, SameEntry
     DEF Outflow!Check, OutflowProofs!Check, Outflow!Hold, OutflowProofs!Hold, Outflow!SaveRow,
         OutflowProofs!SaveRow, Outflow!Send, OutflowProofs!Send, Outflow!Reject, OutflowProofs!Reject,
         Outflow!Accept, OutflowProofs!Accept, Outflow!SaveAccepted, OutflowProofs!SaveAccepted
<1>2. ASSUME NEW c
      PROVE  /\ Outflow!Look(c) => OutflowProofs!Look(c)
             /\ Outflow!Release(c) => OutflowProofs!Release(c)
             /\ Outflow!SaveRejected(c) => OutflowProofs!SaveRejected(c)
             /\ Outflow!Die(c) => OutflowProofs!Die(c)
             /\ Outflow!Verdict(c) => OutflowProofs!Verdict(c)
  BY SameEntry
     DEF Outflow!Look, OutflowProofs!Look, Outflow!Release, OutflowProofs!Release, Outflow!SaveRejected,
         OutflowProofs!SaveRejected, Outflow!Die, OutflowProofs!Die, Outflow!Verdict, OutflowProofs!Verdict
<1>3. ASSUME NEW h, NEW c, NEW e
      PROVE  Outflow!HookReads(h, c, e) => OutflowProofs!HookReads(h, c, e)
  BY DEF Outflow!HookReads, OutflowProofs!HookReads, Outflow!Reported, OutflowProofs!Reported, Outflow!Alone,
         OutflowProofs!Alone, Outflow!Duplicate, OutflowProofs!Duplicate
<1>4. ASSUME NEW h
      PROVE  /\ Outflow!HookWrites(h) => OutflowProofs!HookWrites(h)
             /\ Outflow!HookLooks(h) => OutflowProofs!HookLooks(h)
             /\ Outflow!HookPosts(h) => OutflowProofs!HookPosts(h)
             /\ Outflow!HookDies(h) => OutflowProofs!HookDies(h)
  BY SameEntry
     DEF Outflow!HookWrites, OutflowProofs!HookWrites, Outflow!HookLooks, OutflowProofs!HookLooks,
         Outflow!HookPosts, OutflowProofs!HookPosts, Outflow!HookDies, OutflowProofs!HookDies,
         Outflow!Entry, OutflowProofs!Entry
<1> QED
  BY <1>1, <1>2, <1>3, <1>4 DEF Outflow!Next, OutflowProofs!Next, Outflow!Event, OutflowProofs!Event

------------------------------------------------------------------------------
\* A purchase moves the accounts of keys alone; entries and deliveries stay.
LEMMA KeysOnly ==
  ASSUME TypeOK, Next
  PROVE  /\ \A i \in Item \ Key :
              /\ book'.taken[i] = book.taken[i] /\ book'.own[i] = book.own[i]
              /\ \A kind : <<i, kind>> \in book'.posted <=> <<i, kind>> \in book.posted
         /\ book.posted \subseteq book'.posted
         /\ \A k \in Key : delivered[k] \subseteq delivered'[k]
<1>1. UNCHANGED book \/ \E k \in Key, kind \in Kind : Posts(k, kind)
  <2>1. ASSUME NEW r \in Request, Hold(r) \/ Release(r) \/ Debit(r)
        PROVE  UNCHANGED book \/ \E k \in Key, kind \in Kind : Posts(k, kind)
    <3>1. calls[r].key \in Key
      BY <2>1, CallParts DEF Hold, Release, Debit, At
    <3> QED
      BY <2>1, <3>1 DEF Hold, Release, Debit, PostsOrFails, Kind
  <2>2. CASE SettlesBook
    <3>1. settling.key \in Key
      BY <2>2, SettlingParts DEF SettlesBook
    <3> QED
      BY <2>2, <3>1 DEF SettlesBook, PostsOrFails, Kind
  <2> QED
    BY <2>1, <2>2 DEF Next, Ask, Lock, Reserve, Serves, Declines, StaysSilent, Refused, Unresolved, Record,
                      Close, Settles, Lapses, SettlesRow, Restart
<1>2. ASSUME NEW k \in Key, NEW kind \in Kind, Posts(k, kind)
      PROVE  /\ book.posted \subseteq book'.posted
             /\ \A i \in Item \ Key :
                  /\ book'.taken[i] = book.taken[i] /\ book'.own[i] = book.own[i]
                  /\ \A other : <<i, other>> \in book'.posted <=> <<i, other>> \in book.posted
  <2>1. k \in Item /\ book \in Books
    BY DEF Item, TypeOK, BalanceTypeOK
  <2>2. CASE UNCHANGED book
    BY <2>2
  <2>3. CASE Enters(k, kind)
    BY <2>1, <2>3, EntersType, EntryIsOfOne
  <2> QED
    BY <1>2, <2>2, <2>3 DEF Posts
<1>3. \A k \in Key : delivered[k] \subseteq delivered'[k]
  <2>1. ASSUME NEW r \in Request, NEW p \in Provider, Serves(r, p) \/ StaysSilent(r, p)
        PROVE  \A k \in Key : delivered[k] \subseteq delivered'[k]
    BY <2>1 DEF Serves, StaysSilent, Delivers, TypeOK
  <2> QED
    BY <2>1 DEF Next, Ask, Lock, Reserve, Hold, Declines, Refused, Release, Unresolved, Record, Debit, Close,
                Settles, SettlesBook, Lapses, SettlesRow, Restart
<1> QED
  BY <1>1, <1>2, <1>3

\* What a purchase leaves alone of a cash-out is all that its accounts rest on.
LEMMA CashoutIdle ==
  ASSUME Outflow!CashoutAssumption, OutflowProofs!TypeOK, BalanceTypeOK',
         UNCHANGED <<payouts, bank, hooks, told>>,
         \A c \in Cashout :
           /\ book'.taken[c] = book.taken[c] /\ book'.own[c] = book.own[c]
           /\ \A kind : <<c, kind>> \in book'.posted <=> <<c, kind>> \in book.posted
  PROVE  /\ OutflowProofs!TypeOK'
         /\ (\A c \in Cashout : OutflowProofs!Grounds(c)) => (\A c \in Cashout : OutflowProofs!Grounds(c)')
         /\ (\A c \in Cashout : OutflowProofs!Covered(c)) => (\A c \in Cashout : OutflowProofs!Covered(c)')
         /\ OutflowProofs!Sound => OutflowProofs!Sound'
         /\ OutflowProofs!Settled /\ HoldsTracked' => OutflowProofs!Settled'
<1>1. OutflowProofs!TypeOK'
  BY SameBalance DEF OutflowProofs!TypeOK
<1>2. ASSUME NEW c \in Cashout, OutflowProofs!Grounds(c) PROVE OutflowProofs!Grounds(c)'
  BY <1>2 DEF OutflowProofs!Grounds, OutflowProofs!Unsent, OutflowProofs!Unheard, OutflowProofs!Released,
              OutflowProofs!Handled
<1>3. ASSUME NEW c \in Cashout, OutflowProofs!Covered(c) PROVE OutflowProofs!Covered(c)'
  BY <1>3 DEF OutflowProofs!Covered, OutflowProofs!Has
<1>4. ASSUME NEW c \in Cashout, OutflowProofs!Account(c) PROVE OutflowProofs!Account(c)'
  BY <1>4 DEF OutflowProofs!Account, OutflowProofs!Has
<1>5. ASSUME OutflowProofs!Sound PROVE OutflowProofs!Sound'
  <2>1. ASSUME NEW c \in Cashout PROVE OutflowProofs!Rests(c)'
    <3>1. OutflowProofs!Rests(c)
      BY <1>5 DEF OutflowProofs!Sound
    <3> QED
      BY <3>1 DEF OutflowProofs!Rests, OutflowProofs!Has
  <2>2. ASSUME NEW h \in Handler PROVE OutflowProofs!Hears(h)'
    <3>1. hooks[h] # OutflowProofs!NoHook => hooks[h].item \in Cashout
      BY DEF OutflowProofs!TypeOK, OutflowProofs!Hook
    <3>2. OutflowProofs!Hears(h)
      BY <1>5 DEF OutflowProofs!Sound
    <3> QED
      BY <3>1, <3>2 DEF OutflowProofs!Hears, OutflowProofs!Has
  <2> QED
    BY <1>2, <1>5, <2>1, <2>2 DEF OutflowProofs!Sound
<1>6. ASSUME OutflowProofs!Settled, HoldsTracked' PROVE OutflowProofs!Settled'
  BY <1>4, <1>5, <1>6, SameHolds DEF OutflowProofs!Settled
<1> QED
  BY <1>1, <1>2, <1>3, <1>5, <1>6

\* And what a cash-out leaves alone of a purchase.
LEMMA PurchaseIdle ==
  ASSUME TypeOK, BalanceTypeOK', UNCHANGED <<records, calls, receipts, settling, delivered, faults, restarts>>,
         \A k \in Key :
           /\ book'.taken[k] = book.taken[k] /\ book'.own[k] = book.own[k]
           /\ \A kind : <<k, kind>> \in book'.posted <=> <<k, kind>> \in book.posted
  PROVE  /\ TypeOK'
         /\ Clean' <=> Clean
         /\ Paid /\ (Clean => HoldsTracked') => Paid'
<1>1. TypeOK'
  BY DEF TypeOK
<1>2. Clean' <=> Clean
  BY DEF Clean, Reused
<1>3. ASSUME Paid, Clean => HoldsTracked' PROVE Paid'
  <2>1. \A r \in Request : calls[r].at # "idle" => calls[r].key \in Key
    BY CallParts
  <2>2. \A r \in Request : Asks(r)'
    BY <1>3, <2>1 DEF Paid, Asks, Has
  <2>3. \A k \in Key : Rests(k)'
    BY <1>3 DEF Paid, Rests, Has
  <2>4. Clean => \A k \in Key : Account(k)'
    BY <1>3 DEF Paid, Account, Has
  <2> QED
    BY <1>2, <1>3, <2>2, <2>3, <2>4 DEF Paid
<1> QED
  BY <1>1, <1>2, <1>3

------------------------------------------------------------------------------
\* Both parts keep their types together.
WalletTypeOK == TypeOK /\ OutflowProofs!TypeOK

\* A step of the wallet: a purchase's or a cash-out's, each as its own module has
\* it, and what it leaves alone of the other.
LEMMA PurchaseAside ==
  ASSUME Outflow!CashoutAssumption, WalletTypeOK, Next, UNCHANGED <<payouts, bank, hooks, told>>
  PROVE  /\ WalletTypeOK'
         /\ (\A c \in Cashout : OutflowProofs!Grounds(c)) => (\A c \in Cashout : OutflowProofs!Grounds(c)')
         /\ (\A c \in Cashout : OutflowProofs!Covered(c)) => (\A c \in Cashout : OutflowProofs!Covered(c)')
         /\ OutflowProofs!Sound => OutflowProofs!Sound'
         /\ OutflowProofs!Settled /\ HoldsTracked' => OutflowProofs!Settled'
         /\ Clean' => Clean
<1>1. TypeOK' /\ BalanceTypeOK'
  BY TypeStep DEF WalletTypeOK, TypeOK
<1>2. \A c \in Cashout : c \in Item \ Key
  BY BalanceAssumption DEF Item
<1>3. Clean' => Clean
  BY KeysOnly, StaysUsed DEF WalletTypeOK
<1> QED
  BY <1>1, <1>2, <1>3, KeysOnly, CashoutIdle DEF WalletTypeOK

LEMMA CashoutAside ==
  ASSUME Outflow!CashoutAssumption, WalletTypeOK, Outflow!Next,
         UNCHANGED <<calls, receipts, settling, delivered, faults, restarts>>
  PROVE  /\ OutflowProofs!Next
         /\ WalletTypeOK'
         /\ UNCHANGED records /\ book.posted \subseteq book'.posted
         /\ \A k \in Key : Charged(k) => Charged(k)'
         /\ Clean' <=> Clean
         /\ Paid /\ (Clean => HoldsTracked') => Paid'
<1>1. OutflowProofs!CashoutAssumption /\ OutflowProofs!BalanceAssumption
  BY Assumed
<1>2. OutflowProofs!Next /\ OutflowProofs!TypeOK
  BY SameNext DEF WalletTypeOK
<1>3. OutflowProofs!TypeOK'
  BY <1>1, <1>2, OutflowProofs!TypeStep
<1>4. BalanceTypeOK'
  BY <1>3, SameBalance DEF OutflowProofs!TypeOK
<1>5. /\ UNCHANGED records /\ book.posted \subseteq book'.posted
      /\ \A k \in Key :
           /\ book'.taken[k] = book.taken[k] /\ book'.own[k] = book.own[k]
           /\ \A kind : <<k, kind>> \in book'.posted <=> <<k, kind>> \in book.posted
  <2>1. \A k \in Key : k \in OutflowProofs!Item \ Cashout
    BY BalanceAssumption DEF OutflowProofs!Item
  <2> QED
    BY <1>1, <1>2, <2>1, OutflowProofs!CashoutsOnly
<1>6. ASSUME NEW k \in Key, Charged(k) PROVE Charged(k)'
  BY <1>5, <1>6 DEF Charged, Has
<1> QED
  BY <1>2, <1>3, <1>4, <1>5, <1>6, PurchaseIdle DEF WalletTypeOK

\* An idle wallet.
LEMMA WalletIdle ==
  ASSUME UNCHANGED wvars
  PROVE  /\ WalletTypeOK => WalletTypeOK'
         /\ Orderly => Orderly'
         /\ Paid => Paid'
         /\ Clean' <=> Clean
         /\ (\A c \in Cashout : OutflowProofs!Grounds(c)) => (\A c \in Cashout : OutflowProofs!Grounds(c)')
         /\ (\A c \in Cashout : OutflowProofs!Covered(c)) => (\A c \in Cashout : OutflowProofs!Covered(c)')
         /\ OutflowProofs!Sound => OutflowProofs!Sound'
         /\ OutflowProofs!Settled => OutflowProofs!Settled'
         /\ TypeOK /\ Within => Within'
<1> USE DEF wvars, pvars
<1>1. WalletTypeOK => WalletTypeOK'
  BY DEF WalletTypeOK, TypeOK, BalanceTypeOK, OutflowProofs!TypeOK, OutflowProofs!BalanceTypeOK
<1>2. Orderly => Orderly'
  BY OrderlyIdle
<1>3. Paid => Paid'
  BY DEF Paid, Rests, Asks, Account, Has, HoldsTracked, Clean, Reused
<1>4. (\A c \in Cashout : OutflowProofs!Grounds(c)) => (\A c \in Cashout : OutflowProofs!Grounds(c)')
  BY DEF OutflowProofs!Grounds, OutflowProofs!Unsent, OutflowProofs!Unheard, OutflowProofs!Released,
         OutflowProofs!Handled
<1>5. OutflowProofs!Sound => OutflowProofs!Sound'
  BY <1>4 DEF OutflowProofs!Sound, OutflowProofs!Rests, OutflowProofs!Has, OutflowProofs!Hears
<1>6. OutflowProofs!Settled => OutflowProofs!Settled'
  BY <1>5 DEF OutflowProofs!Settled, OutflowProofs!Account, OutflowProofs!Has, OutflowProofs!HoldsTracked
<1>7. (\A c \in Cashout : OutflowProofs!Covered(c)) => (\A c \in Cashout : OutflowProofs!Covered(c)')
  BY DEF OutflowProofs!Covered, OutflowProofs!Has
<1>8. TypeOK /\ Within => Within'
  <2> SUFFICES ASSUME TypeOK, Within PROVE Within'
    OBVIOUS
  <2>1. \A i \in Item : Charged(i)'
    BY DEF Within, Charged, Has
  <2> QED
    BY <2>1, WithinIdle
<1> QED
  BY <1>1, <1>2, <1>3, <1>4, <1>5, <1>6, <1>7, <1>8 DEF Clean, Reused

LEMMA WalletType ==
  ASSUME Outflow!CashoutAssumption
  PROVE  WalletSpec => []WalletTypeOK
<1>1. WalletInit => WalletTypeOK
  <2>1. Init => TypeOK
    BY BookInit, PurchaseAssumption DEF Init, TypeOK
  <2>2. OutflowProofs!Init => OutflowProofs!TypeOK
    BY Assumed, OutflowProofs!TypeInit
  <2> QED
    BY <2>1, <2>2, SameInit DEF WalletInit, WalletTypeOK
<1>2. WalletTypeOK /\ [WalletNext]_wvars => WalletTypeOK'
  BY PurchaseAside, CashoutAside, WalletIdle DEF WalletNext
<1> QED
  BY <1>1, <1>2, PTL DEF WalletSpec

------------------------------------------------------------------------------
\* Cash-outs disturb none of what the keys are looked up for: no key is delivered
\* twice, and none that reads failed was delivered.
THEOREM WalletOnceCorrect ==
  ASSUME Outflow!CashoutAssumption, ~AskAgain
  PROVE  WalletSpec => [](DeliveredOnce /\ FailedWasNotDelivered)
<1>1. WalletInit => Orderly
  BY OrderlyInit DEF WalletInit
<1>2. WalletTypeOK /\ Orderly /\ [WalletNext]_wvars => Orderly'
  <2> SUFFICES ASSUME WalletTypeOK, Orderly, [WalletNext]_wvars PROVE Orderly'
    OBVIOUS
  <2>1. CASE Next
    BY <2>1, OrderlyStep DEF WalletTypeOK
  <2>2. CASE Outflow!Next /\ UNCHANGED <<calls, receipts, settling, delivered, faults, restarts>>
    BY <2>2, CashoutAside, OrderlyIdle
  <2> QED
    BY <2>1, <2>2, WalletIdle DEF WalletNext
<1> QED
  BY <1>1, <1>2, OrderlyOnce, WalletType, PTL DEF WalletSpec

\* Nor do purchases give a cash-out reason to be released.
THEOREM WalletRefundCorrect ==
  ASSUME Outflow!CashoutAssumption, ~AnswersLost
  PROVE  WalletSpec => []Outflow!RefundedOnVerdict
<1> DEFINE Inv == \A c \in Cashout : OutflowProofs!Grounds(c)
<1>0. OutflowProofs!CashoutAssumption /\ OutflowProofs!BalanceAssumption
  BY Assumed
<1>1. WalletInit => Inv
  BY <1>0, SameInit, OutflowProofs!GroundsInit DEF WalletInit
<1>2. WalletTypeOK /\ Inv /\ [WalletNext]_wvars => Inv'
  <2> SUFFICES ASSUME WalletTypeOK, Inv, [WalletNext]_wvars PROVE Inv'
    OBVIOUS
  <2>1. CASE Next /\ UNCHANGED <<payouts, bank, hooks, told>>
    BY <2>1, PurchaseAside
  <2>2. CASE Outflow!Next /\ UNCHANGED <<calls, receipts, settling, delivered, faults, restarts>>
    <3>1. OutflowProofs!Next /\ OutflowProofs!TypeOK
      BY <2>2, CashoutAside DEF WalletTypeOK
    <3> QED
      BY <1>0, <3>1, OutflowProofs!GroundsStep
  <2> QED
    BY <2>1, <2>2, WalletIdle DEF WalletNext
<1>3. Inv => Outflow!RefundedOnVerdict
  BY DEF OutflowProofs!Grounds, OutflowProofs!Released, Outflow!RefundedOnVerdict
<1> QED
  BY <1>1, <1>2, <1>3, WalletType, PTL DEF WalletSpec

\* Purchases and cash-outs draw on one number of what is held, and a late release
\* of a refused key that was used again may draw on the hold of a cash-out.  Short
\* of that each keeps its own account, whatever fails, restarts, comes again or
\* comes late on the other side.
WalletPaid == Paid /\ (Clean => OutflowProofs!Settled)

LEMMA WalletPaidKept ==
  ASSUME Outflow!CashoutAssumption, ~AnswersLost, ~Overlaps
  PROVE  WalletSpec => []WalletPaid
<1>0. OutflowProofs!CashoutAssumption /\ OutflowProofs!BalanceAssumption
  BY Assumed
<1>1. WalletInit => WalletPaid
  BY <1>0, PaidInit, SameInit, OutflowProofs!SettledInit DEF WalletInit, WalletPaid
<1>2. WalletTypeOK /\ WalletPaid /\ [WalletNext]_wvars => WalletPaid'
  <2> SUFFICES ASSUME WalletTypeOK, WalletPaid, [WalletNext]_wvars PROVE WalletPaid'
    OBVIOUS
  <2>1. CASE Next /\ UNCHANGED <<payouts, bank, hooks, told>>
    <3>1. Paid'
      BY <2>1, StepPaid, OtherPaid DEF WalletTypeOK, WalletPaid, Next, Step
    <3>2. ASSUME Clean' PROVE OutflowProofs!Settled'
      <4>1. HoldsTracked'
        BY <3>1, <3>2 DEF Paid
      <4> QED
        BY <2>1, <3>2, <4>1, PurchaseAside DEF WalletPaid
    <3> QED
      BY <3>1, <3>2 DEF WalletPaid
  <2>2. CASE Outflow!Next /\ UNCHANGED <<calls, receipts, settling, delivered, faults, restarts>>
    <3>1. OutflowProofs!Next /\ OutflowProofs!TypeOK /\ (Clean' <=> Clean)
      BY <2>2, CashoutAside DEF WalletTypeOK
    <3>2. Clean => OutflowProofs!Settled'
      BY <1>0, <3>1, OutflowProofs!SettledStep DEF WalletPaid
    <3>3. Clean => HoldsTracked'
      BY <3>2, SameHolds DEF OutflowProofs!Settled
    <3>4. Paid'
      BY <2>2, <3>3, CashoutAside DEF WalletPaid
    <3> QED
      BY <3>1, <3>2, <3>4 DEF WalletPaid
  <2> QED
    BY <2>1, <2>2, WalletIdle DEF WalletNext, WalletPaid
<1> QED
  BY <1>1, <1>2, WalletType, PTL DEF WalletSpec

\* What was delivered costs its price whatever cash-outs do besides.
THEOREM WalletPaidCorrect ==
  ASSUME Outflow!CashoutAssumption, ~AnswersLost, ~Overlaps
  PROVE  WalletSpec => []DeliveredIsPaid
<1>1. WalletPaid => DeliveredIsPaid
  BY PaidIsPaid DEF WalletPaid
<1> QED
  BY <1>1, WalletPaidKept, PTL

\* As long as no refused key is used again, a cash-out takes its price or nothing,
\* whatever purchases do besides.
THEOREM WalletTakenCorrect ==
  ASSUME Outflow!CashoutAssumption, ~AnswersLost, ~Overlaps
  PROVE  WalletSpec => [](Clean => Outflow!TakenOnce)
<1>1. WalletPaid => (Clean => Outflow!TakenOnce)
  BY DEF WalletPaid, OutflowProofs!Settled, OutflowProofs!Account, Outflow!TakenOnce
<1> QED
  BY <1>1, WalletPaidKept, PTL

\* Whatever the accounts say of who draws on which hold, cash-outs take nothing less
\* than nothing, so what is counted on still fits into each figure of the balance:
\* purchases deliver no more than was deposited while cash-outs come and go without
\* the lock.
THEOREM WalletWithinCorrect ==
  ASSUME Outflow!CashoutAssumption, ~AskAgain, ~AnswersLost, ~Overlaps
  PROVE  WalletSpec => []WithinDeposit
<1> DEFINE Covers == OutflowProofs!Sound /\ \A c \in Cashout : OutflowProofs!Covered(c)
<1>0. OutflowProofs!CashoutAssumption /\ OutflowProofs!BalanceAssumption
  BY Assumed
<1>1. WalletInit => Orderly /\ Covers /\ Within
  <2> SUFFICES ASSUME WalletInit PROVE Covers
    BY OrderlyInit, WithinInit DEF WalletInit
  <2>1. OutflowProofs!Init
    BY SameInit DEF WalletInit
  <2>2. OutflowProofs!Sound
    BY <1>0, <2>1, OutflowProofs!SettledInit DEF OutflowProofs!Settled
  <2>3. \A c \in Cashout : OutflowProofs!Covered(c)
    BY DEF WalletInit, Init, BalanceInit, NewBook, OutflowProofs!Covered, OutflowProofs!Has, Item
  <2> QED
    BY <2>2, <2>3
<1>2. WalletTypeOK /\ WalletPaid /\ Orderly /\ Covers /\ Within /\ [WalletNext]_wvars
        => Orderly' /\ Covers' /\ Within'
  <2> SUFFICES ASSUME WalletTypeOK, WalletPaid, Orderly, Covers, Within, [WalletNext]_wvars
               PROVE  Orderly' /\ Covers' /\ Within'
    OBVIOUS
  <2>1. CASE Next /\ UNCHANGED <<payouts, bank, hooks, told>>
    <3>1. Orderly' /\ Within'
      BY <2>1, OrderlyStep, WithinStep DEF WalletTypeOK, WalletPaid
    <3> QED
      BY <2>1, <3>1, PurchaseAside
  <2>2. CASE Outflow!Next /\ UNCHANGED <<calls, receipts, settling, delivered, faults, restarts>>
    <3>1. /\ OutflowProofs!Next /\ OutflowProofs!TypeOK /\ TypeOK
          /\ UNCHANGED records /\ book.posted \subseteq book'.posted
          /\ \A k \in Key : Charged(k)'
      BY <2>2, CashoutAside DEF WalletTypeOK, Within, Item
    <3>2. OutflowProofs!Sound' /\ OutflowProofs!EarnsEntry
      BY <1>0, <3>1, OutflowProofs!SoundStep
    <3>3. \A c \in Cashout : OutflowProofs!Covered(c)'
      BY <1>0, <3>1, <3>2, OutflowProofs!EarnsCovered
    <3>4. \A i \in Item : Charged(i)'
      BY <3>1, <3>3, BalanceAssumption DEF OutflowProofs!Covered, Charged, Item
    <3>5. Orderly' /\ Within'
      BY <2>2, <3>1, <3>4, OrderlyIdle, WithinIdle
    <3> QED
      BY <3>2, <3>3, <3>5
  <2> QED
    BY <2>1, <2>2, WalletIdle DEF WalletNext, WalletTypeOK
<1>3. WalletTypeOK /\ Orderly /\ Within => WithinDeposit
  BY WithinFits DEF WalletTypeOK
<1> QED
  BY <1>1, <1>2, <1>3, WalletType, WalletPaidKept, PTL DEF WalletSpec
=============================================================================
