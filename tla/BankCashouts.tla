---------------------------- MODULE BankCashouts ----------------------------
(****************************************************************************)
(* Transfers from the naira balance to a bank account                       *)
(* (ngn/service/paystack-outbound-transfer.service.ts): check, hold, row,   *)
(* request, and what its answer or the lack of one does, while Paystack's   *)
(* webhooks (webhooks/paystackWebhookHandler.ts) report what became of the  *)
(* transfer, at any time, in any order, and more than once.                 *)
(****************************************************************************)
EXTENDS NgnBalance

CONSTANTS Handler,     \* webhooks that are handled at once
          AnswersLost, \* whether a request that arrived may go without an answer
          Overlaps,    \* whether two calls may post the same entry at once
          HooksFail    \* whether a webhook may fail after its first write

VARIABLES
  payouts, \* per cash-out: where its request is, and its row
  bank,    \* what became of it at Paystack
  hooks,   \* per handler: the event it handles
  told     \* the events that were handled to the end

cvars == <<book, records, payouts, bank, hooks, told>>

Event == {"success", "failed", "reversed"}

ASSUME CashoutAssumption ==
  {AnswersLost, Overlaps, HooksFail} \subseteq BOOLEAN /\ None \notin Event

NewPayout == [at |-> "idle", row |-> "none", reversed |-> FALSE]
NoHook == [item |-> None, event |-> None, at |-> "idle", saw |-> FALSE]

Init == /\ BalanceInit
        /\ payouts = [c \in Cashout |-> NewPayout]
        /\ bank = [c \in Cashout |-> "none"]
        /\ hooks = [h \in Handler |-> NoHook]
        /\ told = {}

At(c, place) == payouts[c].at = place
Goes(c, place) == payouts' = [payouts EXCEPT ![c].at = place]

\* A row is written whole, from what the writer knows of it.
Saves(c, place, row, reversed) == payouts' = [payouts EXCEPT ![c] = [at |-> place, row |-> row, reversed |-> reversed]]

------------------------------------------------------------------------------
\* executePaystackNgnBankTransfer.

\* The rows count where the journal leaves nothing.
CashFunds == IF Available > 0 THEN Available ELSE NgnFunds

Check(c) ==
  /\ At(c, "idle")
  /\ Goes(c, IF CashFunds >= Price[c] THEN "checked" ELSE "ended")
  /\ UNCHANGED <<book, records, bank, hooks, told>>

\* Every transfer has an id of its own, so nobody else posts its hold.
Hold(c) ==
  /\ At(c, "checked")
  /\ Posts(c, "hold") /\ Goes(c, "held")
  /\ UNCHANGED <<records, bank, hooks, told>>

SaveRow(c) ==
  /\ At(c, "held")
  /\ Saves(c, "saved", "bank_processing", FALSE)
  /\ UNCHANGED <<book, records, bank, hooks, told>>

Send(c) ==
  /\ At(c, "saved")
  /\ bank' = [bank EXCEPT ![c] = "pending"] /\ Goes(c, "sent")
  /\ UNCHANGED <<book, records, hooks, told>>

\* createTransfer throws: it was refused or never arrived, or its answer is lost.
Reject(c) ==
  /\ At(c, "saved") \/ (AnswersLost /\ At(c, "sent"))
  /\ Goes(c, "refused")
  /\ UNCHANGED <<book, records, bank, hooks, told>>

Accept(c) ==
  /\ At(c, "sent")
  /\ Goes(c, "accepted")
  /\ UNCHANGED <<book, records, bank, hooks, told>>

\* Slip: the provider's status becomes the row's.
SaveAcceptedAsSent(c) ==
  /\ At(c, "accepted")
  /\ Saves(c, "ended", "pending", FALSE)
  /\ UNCHANGED <<book, records, bank, hooks, told>>

\* The row as it was before the request, over what a webhook made of it.
SaveAccepted(c) ==
  /\ At(c, "accepted")
  /\ Saves(c, "ended", "bank_processing", FALSE)
  /\ UNCHANGED <<book, records, bank, hooks, told>>

\* createBalanceLedgerEntry reads the journal, then appends to it.
Look(c) ==
  /\ At(c, "refused")
  /\ Goes(c, IF <<c, "hold_release">> \in book.posted THEN "released" ELSE "releasing")
  /\ UNCHANGED <<book, records, bank, hooks, told>>

Release(c) ==
  /\ At(c, "releasing")
  /\ Enters(c, "hold_release") /\ Goes(c, "released")
  /\ UNCHANGED <<records, bank, hooks, told>>

SaveRejected(c) ==
  /\ At(c, "released")
  /\ Saves(c, "ended", "failed", FALSE)
  /\ UNCHANGED <<book, records, bank, hooks, told>>

\* The request dies, with the process or of an error.
Die(c) ==
  /\ payouts[c].at \notin {"idle", "ended"}
  /\ Goes(c, "ended")
  /\ UNCHANGED <<book, records, bank, hooks, told>>

------------------------------------------------------------------------------
\* Paystack pays, fails or reverses, and reports each.
Verdict(c) ==
  /\ \/ bank[c] = "pending" /\ bank' = [bank EXCEPT ![c] = "paid"]
     \/ bank[c] = "pending" /\ bank' = [bank EXCEPT ![c] = "failed"]
     \/ bank[c] = "paid" /\ bank' = [bank EXCEPT ![c] = "reversed"]
  /\ UNCHANGED <<book, records, payouts, hooks, told>>

Reported(c) == CASE bank[c] = "paid" -> {"success"}
                 [] bank[c] = "failed" -> {"failed"}
                 [] bank[c] = "reversed" -> {"success", "reversed"}
                 [] OTHER -> {}

\* Slip: a reversal gives the hold back.
EntryReleasing(e) == IF e = "success" THEN "debit_transfer" ELSE "hold_release"

\* The entry an event makes.
Entry(e) == CASE e = "success" -> "debit_transfer"
              [] e = "failed" -> "hold_release"
              [] e = "reversed" -> "credit_available"

\* Slip: a transfer that ended counts as handled.
DuplicateEnded(c, e) == payouts[c].row \in {"completed", "failed"}

\* What each event takes for a sign that it was handled.
Duplicate(c, e) == CASE e = "success" -> payouts[c].row = "completed"
                     [] e = "failed" -> payouts[c].row = "failed"
                     [] e = "reversed" -> payouts[c].reversed

Alone(c, e) ==
  /\ \A h \in Handler : <<hooks[h].item, hooks[h].event>> # <<c, e>>
  /\ e = "failed" => payouts[c].at \notin {"refused", "releasing"}

HookReads(h, c, e) ==
  /\ hooks[h] = NoHook /\ e \in Reported(c)
  /\ Overlaps \/ Alone(c, e)
  /\ IF Duplicate(c, e)
     THEN told' = told \cup {<<c, e>>} /\ UNCHANGED hooks
     ELSE /\ hooks' = [hooks EXCEPT ![h] = [item |-> c, event |-> e, at |-> "read", saw |-> payouts[c].reversed]]
          /\ UNCHANGED told
  /\ UNCHANGED <<book, records, payouts, bank>>

HookWrites(h) ==
  LET c == hooks[h].item
      e == hooks[h].event
  IN /\ hooks[h].at = "read"
     /\ Saves(c, payouts[c].at, IF e = "success" THEN "completed" ELSE "failed",
              hooks[h].saw \/ e = "reversed")
     /\ hooks' = [hooks EXCEPT ![h].at = "written"]
     /\ UNCHANGED <<book, records, bank, told>>

\* Slip: an earlier entry is not looked for.
HookLooksAway(h) ==
  /\ hooks[h].at = "written"
  /\ hooks' = [hooks EXCEPT ![h].at = "fresh"] /\ UNCHANGED told
  /\ UNCHANGED <<book, records, payouts, bank>>

HookLooks(h) ==
  LET leg == <<hooks[h].item, Entry(hooks[h].event)>> IN
  /\ hooks[h].at = "written"
  /\ IF leg \in book.posted
     THEN hooks' = [hooks EXCEPT ![h] = NoHook] /\ told' = told \cup {<<hooks[h].item, hooks[h].event>>}
     ELSE hooks' = [hooks EXCEPT ![h].at = "fresh"] /\ UNCHANGED told
  /\ UNCHANGED <<book, records, payouts, bank>>

HookPosts(h) ==
  /\ hooks[h].at = "fresh"
  /\ Enters(hooks[h].item, Entry(hooks[h].event))
  /\ told' = told \cup {<<hooks[h].item, hooks[h].event>>}
  /\ hooks' = [hooks EXCEPT ![h] = NoHook]
  /\ UNCHANGED <<records, payouts, bank>>

\* A handler dies and Paystack will send the event again.
HookDies(h) ==
  /\ hooks[h].at = "read" \/ (HooksFail /\ hooks[h] # NoHook)
  /\ hooks' = [hooks EXCEPT ![h] = NoHook]
  /\ UNCHANGED <<book, records, payouts, bank, told>>

Next ==
  \/ \E c \in Cashout :
       \/ Check(c) \/ Hold(c) \/ SaveRow(c) \/ Send(c) \/ Reject(c) \/ Accept(c) \/ SaveAccepted(c)
       \/ Look(c) \/ Release(c) \/ SaveRejected(c) \/ Die(c) \/ Verdict(c)
  \/ \E h \in Handler :
       \/ \E c \in Cashout, e \in Event : HookReads(h, c, e)
       \/ HookWrites(h) \/ HookLooks(h) \/ HookPosts(h) \/ HookDies(h)

\* Paystack goes on sending what was not answered, a handler that starts again and
\* again gets on some time, and requests that live go on.
Delivers == \E h \in Handler, c \in Cashout, e \in Event : <<c, e>> \notin told /\ HookReads(h, c, e)
Handles(h) == HookWrites(h) \/ HookLooks(h) \/ HookPosts(h)
GoesOn == \E c \in Cashout : Accept(c) \/ SaveAccepted(c) \/ Look(c) \/ Release(c) \/ SaveRejected(c)

Fairness == /\ SF_cvars(Delivers) /\ WF_cvars(GoesOn)
            /\ \A h \in Handler : SF_cvars(Handles(h))

Spec == Init /\ [][Next]_cvars /\ Fairness

------------------------------------------------------------------------------
Place == {"idle", "checked", "held", "saved", "sent", "accepted", "refused", "releasing", "released", "ended"}
Payout == [at : Place, row : {"none", "bank_processing", "completed", "failed"}, reversed : BOOLEAN]
Hook == [item : Cashout, event : Event, at : {"read", "written", "fresh"}, saw : BOOLEAN]

TypeOK == /\ BalanceTypeOK
          /\ payouts \in [Cashout -> Payout]
          /\ bank \in [Cashout -> {"none", "pending", "paid", "failed", "reversed"}]
          /\ hooks \in [Handler -> Hook \cup {NoHook}]
          /\ told \subseteq Cashout \X Event

\* No hold is released unless the bank has refused, or was never asked: what the
\* adapter's comment demands of an unknown outcome ("NEVER refund on unknown status
\* alone", paystack.adapter.ts).  It fails where an answer may be lost.
RefundedOnVerdict ==
  \A c \in Cashout : <<c, "hold_release">> \in book.posted => bank[c] \in {"none", "failed"}

\* A cash-out takes its price or nothing, never twice the price and never less
\* than nothing, though rows are written back, events come in any order, and each
\* may come again when its row no longer shows that it was handled.
TakenOnce == \A c \in Cashout : book.taken[c] \in {0, Price[c]}

\* What is taken is what the bank took, and nothing is held.
Follows(c) == /\ book.taken[c] = IF bank[c] = "paid" THEN Price[c] ELSE 0
              /\ book.own[c] = 0

\* Once the bank has said its last word the balance comes to follow it, for good.
BankHasLastWord ==
  \A c \in Cashout, s \in {"paid", "failed", "reversed"} : <>[](bank[c] = s) => <>[]Follows(c)
=============================================================================
