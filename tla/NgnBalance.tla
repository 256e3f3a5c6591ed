----------------------------- MODULE NgnBalance -----------------------------
(****************************************************************************)
(* One user's naira balance: the journal that createBalanceLedgerEntry      *)
(* appends to and getUserBalance adds up, and the virtual account rows that *)
(* getUserNgnBalance adds up besides.  Utility purchases and bank cash-outs *)
(* move it in modules of their own, a request of the user at a time or      *)
(* several at once.                                                         *)
(****************************************************************************)
EXTENDS Integers, FiniteSets, FiniteSetsExt

CONSTANTS Key,      \* idempotency keys, each of one purchase
          Cashout,  \* transfers to a bank
          Price,    \* what each of them costs
          Deposit,  \* what was deposited
          Provider, \* utility providers
          None

Item == Key \cup Cashout

ASSUME BalanceAssumption ==
  /\ IsFiniteSet(Item) /\ Key \cap Cashout = {}
  /\ Price \in [Item -> Nat] /\ Deposit \in Nat
  /\ None \notin Item \cup Provider

VARIABLES book,    \* the journal, added up
          records  \* per key: its virtual account rows

\* taken: what an item took out of the available balance; own: the hold
\* tracked for it; posted: the entries there are.
Kind == {"hold", "hold_release", "debit_transfer", "credit_available"}
Leg == Item \X Kind
NewBook == [taken |-> [i \in Item |-> 0], held |-> 0, own |-> [i \in Item |-> 0], posted |-> {}]

\* reservation: the row of the key; "lapsed" is a submitted one past its five
\* minutes.  debit: whether a row takes the price off.  unsettled: the provider
\* in whose name a delivery waits to be debited.
NewRecord == [reservation |-> "none", debit |-> FALSE, unsettled |-> None]
Reservation == {"none", "submitted", "lapsed", "pending_reconciliation", "failed", "completed"}

BalanceInit == book = NewBook /\ records = [k \in Key |-> NewRecord]

Taken == SumFunction(book.taken)
Available == Deposit - Taken

\* One turn of getUserBalance's loop.  A debit draws on a hold of its own first;
\* a release draws on whatever is held.
Added(b, i, kind) ==
  LET p == Price[i]
      drawn == Min({b.own[i], b.held, p})
  IN CASE kind = "hold" -> [b EXCEPT !.taken[i] = @ + p, !.held = @ + p, !.own[i] = @ + p]
       [] kind = "hold_release" ->
            [b EXCEPT !.taken[i] = @ - p, !.held = Max({0, @ - p}), !.own[i] = Max({0, @ - p})]
       [] kind = "debit_transfer" ->
            [b EXCEPT !.taken[i] = @ + (p - drawn), !.held = @ - drawn, !.own[i] = @ - drawn]
       [] OTHER -> [b EXCEPT !.taken[i] = @ - p]

Enters(i, kind) == book' = [Added(book, i, kind) EXCEPT !.posted = @ \cup {<<i, kind>>}]

\* Slip: nobody looks for an entry.
PostsAgain(i, kind) == Enters(i, kind)

\* createBalanceLedgerEntry: nothing if there is such an entry.
Posts(i, kind) == IF <<i, kind>> \in book.posted THEN book' = book ELSE Enters(i, kind)

\* How many virtual account rows of a key take its price off, and what all the
\* rows add up to.
Takes(k) ==
  LET bit(b) == IF b THEN 1 ELSE 0
  IN bit(records[k].reservation \in {"submitted", "pending_reconciliation"})
     + bit(records[k].debit) + bit(records[k].unsettled # None)
RowBalance == Max({0, Deposit - SumFunction([k \in Key |-> Price[k] * Takes(k)])})

\* getUserNgnBalance.
NgnFunds == IF Available > 0 /\ RowBalance > 0 THEN Min({Available, RowBalance})
            ELSE IF Available > 0 THEN Available ELSE RowBalance

Books == [taken : [Item -> Int], held : Nat, own : [Item -> Nat], posted : SUBSET Leg]
Records == [reservation : Reservation, debit : BOOLEAN, unsettled : Provider \cup {None}]
BalanceTypeOK == book \in Books /\ records \in [Key -> Records]
=============================================================================
