----------------------------- MODULE NgnLedgerTx -----------------------------
(****************************************************************************)
(* The calls of NgnLedger as the database runs them: one transaction per    *)
(* call, statement after statement, taking row locks as it goes and writing *)
(* nothing others can see before COMMIT (ngnAgreementTransaction, load,     *)
(* account, operation, post).  A transaction decides on what it read, not   *)
(* on what the tables hold when it commits; the locks are what makes the    *)
(* two the same, and this module is where that is checked.                  *)
(*                                                                          *)
(* The tables are the variables of NgnLedger and change at COMMIT only.     *)
(****************************************************************************)
EXTENDS NgnLedger

CONSTANTS Proc,   \* connections running ledger calls
          Rank    \* the order of user ids under localeCompare

\* No two ids compare as equal, so post() locks accounts in one order everywhere.
ASSUME TxAssumption ==
  /\ IsFiniteSet(Proc)
  /\ Rank \in [User -> Nat]
  /\ \A u, v \in User : Rank[u] = Rank[v] => u = v

VARIABLES tx,   \* the transaction each connection runs
          due   \* ids the expiry sweep has read and not yet worked through

txVars == <<vars, tx, due>>

\* The arguments of a call; those an operation does not take are never read.
Call(op, x, actor, toBuyer, eligible) ==
  [op |-> op, x |-> x, actor |-> actor, toBuyer |-> toBuyer, eligible |-> eligible]

Key(q) == IF q.op = "cancel" THEN <<q.op, q.x, q.actor>> ELSE <<q.op, q.x>>

\* at:   the statement the transaction is about to run
\* row:  the agreement as it was read, then as it will be written
\* plan: the postings <<account, delta>>;  todo: those not yet made
Idle == [at |-> "idle", call |-> Call("none", "none", "none", 0, TRUE), row |-> NoRow,
         plan |-> {}, todo |-> {}]

NoRowLock == {"none", "create", "paystack"}

------------------------------------------------------------------------------
\* Accounts, and the order in which post() sorts their ids.
UserAcct(u) == <<"user", u>>
PrincipalAcct(id) == <<"principal", id>>
FeeAcct(id) == <<"pending_fee", id>>
ClearingAcct == <<"clearing", "paystack">>
EarnedAcct == <<"earned_fees", "protocol">>

Place(acct) == CASE acct[1] = "pending_fee" -> 1
                 [] acct[1] = "principal" -> 2
                 [] acct[1] = "earned_fees" -> 3
                 [] acct[1] = "clearing" -> 4
                 [] acct[1] = "user" -> 5 + Rank[acct[2]]

Balance(acct) == CASE acct[1] = "user" -> available[acct[2]]
                   [] acct[1] = "principal" -> principal[acct[2]]
                   [] acct[1] = "pending_fee" -> pendingFee[acct[2]]
                   [] acct[1] = "clearing" -> clearing
                   [] acct[1] = "earned_fees" -> earnedFees

\* Slip: posting the buyer's account first, whoever that is.
NextPostingUnsorted(p) ==
  CHOOSE e \in tx[p].todo :
    (\E f \in tx[p].todo : f[1] = UserAcct(Buyer[tx[p].call.x]))
      => e[1] = UserAcct(Buyer[tx[p].call.x])

\* The next posting of p: the smallest account id not posted yet.
NextPosting(p) ==
  CHOOSE e \in tx[p].todo : \A f \in tx[p].todo : Place(e[1]) <= Place(f[1])

FundEntries(id) ==
  {<<UserAcct(Buyer[id]), -(Principal[id] + FeeOf[id])>>,
   <<PrincipalAcct(id), Principal[id]>>, <<FeeAcct(id), FeeOf[id]>>}

RefundEntries(id) ==
  {<<UserAcct(Buyer[id]), Principal[id] + FeeOf[id]>>,
   <<PrincipalAcct(id), -Principal[id]>>, <<FeeAcct(id), -FeeOf[id]>>}

SettleEntries(id, toBuyer) ==
  {<<PrincipalAcct(id), -Principal[id]>>, <<FeeAcct(id), -FeeOf[id]>>,
   <<UserAcct(Buyer[id]), toBuyer>>, <<UserAcct(Seller[id]), Principal[id] - toBuyer>>,
   <<EarnedAcct, FeeOf[id]>>}

DepositEntries(r) == {<<ClearingAcct, -DepositNet[r]>>,
                      <<UserAcct(DepositUser[r]), DepositNet[r]>>}

------------------------------------------------------------------------------
\* Slips: a SELECT without FOR UPDATE, and a cap counted without the account.
HoldsNoRow(p, id) == FALSE

HoldsPostedAccount(p, acct) == \E e \in tx[p].plan \ tx[p].todo : e[1] = acct

\* Locks.  A row, an uncommitted operation id and an account are each held by
\* at most one transaction, until it ends.
HoldsRow(p, id) == /\ tx[p].at \in {"op", "seller", "post"}
                   /\ tx[p].call.op \notin NoRowLock
                   /\ tx[p].call.x = id

HoldsOp(p, key) == /\ tx[p].at \in {"seller", "post", "count", "insert"}
                   /\ Key(tx[p].call) = key

HoldsAccount(p, acct) ==
  \/ \E e \in tx[p].plan \ tx[p].todo : e[1] = acct
  \/ tx[p].at = "insert" /\ acct = UserAcct(tx[p].call.actor)

\* p cannot run its next statement before q ends.
Waits(p, q) ==
  LET t == tx[p] IN
  /\ p # q
  /\ \/ t.at = "row" /\ HoldsRow(q, t.call.x)
     \/ t.at = "op" /\ HoldsOp(q, Key(t.call))
     \/ t.at = "post" /\ t.todo # {} /\ HoldsAccount(q, NextPosting(p)[1])
     \/ t.at = "count" /\ HoldsAccount(q, UserAcct(t.call.actor))

Runs(p, at) == tx[p].at = at /\ \A q \in Proc : ~Waits(p, q)

------------------------------------------------------------------------------
\* What each call requires of the row it read, under the row lock.
Allowed(q, a) ==
  LET running == a.status \notin Terminal IN
  CASE q.op = "fund" -> a.status \in Fundable /\ (a.accepted \/ ~lapsed[q.x])
    [] q.op = "accept" -> running /\ ~a.accepted /\ ~lapsed[q.x]
    [] q.op = "start" -> a.status = "FUNDED"
    [] q.op = "deliver" -> a.status = "IN_DELIVERY"
    [] q.op = "dispute" -> a.status = "DELIVERED"
    [] q.op = "expire" -> running /\ ~a.accepted /\ lapsed[q.x]
    [] q.op = "cancel" -> running /\ ~a.started
    [] q.op = "release" -> a.status = "DELIVERED"
    [] q.op = "ruling" -> a.status = "DISPUTED" /\ a.delivered /\ q.toBuyer <= Principal[q.x]

Cancels(q) == \/ q.op = "expire"
              \/ q.op = "cancel" /\ Cardinality(consents[q.x] \cup {q.actor}) = 2

\* The row each call writes.
Written(q, a) ==
  CASE q.op = "fund" ->
         [a EXCEPT !.funded = TRUE,
                   !.status = IF a.accepted THEN "FUNDED" ELSE "FUNDED_PENDING_ACCEPTANCE"]
    [] q.op = "accept" ->
         [a EXCEPT !.accepted = TRUE,
                   !.status = IF a.funded THEN "FUNDED" ELSE "PENDING_PAYMENT"]
    [] q.op = "start" -> [a EXCEPT !.status = "IN_DELIVERY", !.started = TRUE]
    [] q.op = "deliver" -> [a EXCEPT !.status = "DELIVERED", !.delivered = TRUE]
    [] q.op = "dispute" -> [a EXCEPT !.status = "DISPUTED"]
    [] q.op \in {"release", "ruling"} -> [a EXCEPT !.status = "COMPLETED"]
    [] q.op \in {"expire", "cancel"} ->
         IF Cancels(q) THEN [a EXCEPT !.status = "CANCELLED"] ELSE a

\* The postings each call makes; a zero delta is skipped, its account not locked.
Entries(q, a) ==
  LET all == CASE q.op = "fund" -> FundEntries(q.x)
               [] q.op \in {"release", "ruling"} -> SettleEntries(q.x, q.toBuyer)
               [] OTHER -> IF Cancels(q) /\ a.funded THEN RefundEntries(q.x) ELSE {}
  IN {e \in all : e[2] # 0}

------------------------------------------------------------------------------
TxInit == Init /\ tx = [p \in Proc |-> Idle] /\ due = {}

Set(p, t) == tx' = [tx EXCEPT ![p] = t]

\* expireDue reads the lapsed ids in a transaction of its own ...
SweepReads ==
  /\ due = {}
  /\ due' = {id \in Agr : /\ lapsed[id] /\ ~agreements[id].accepted
                          /\ agreements[id].status \in Fundable \cup {"FUNDED_PENDING_ACCEPTANCE"}}
  /\ UNCHANGED <<vars, tx>>

\* ... and expires them one by one, on that reading.
Begin(p, q) ==
  /\ tx[p].at = "idle"
  /\ q.op = "expire" => /\ q.x \in due
                        /\ \A r \in Proc : tx[r].call.op # "expire"
  /\ Set(p, [Idle EXCEPT !.call = q,
                         !.at = IF q.op \in NoRowLock THEN "op" ELSE "row"])
  /\ UNCHANGED <<vars, due>>

\* ROLLBACK: nothing was written.  Any error of an expiry but NOT_EXPIRED
\* ends the whole pass of the sweep.
Rollback(p, rest) ==
  /\ Set(p, Idle)
  /\ due' = IF tx[p].call.op = "expire" THEN rest ELSE due
  /\ UNCHANGED vars

\* A lock or statement timeout, a lost connection, a crash of the process.
Fails(p) == tx[p].at # "idle" /\ Rollback(p, {})

Refuse(p) == Rollback(p, due \ {tx[p].call.x})

\* load(): SELECT ... FOR UPDATE.  The caller is checked and authorized next.
LockRow(p) ==
  LET id == tx[p].call.x IN
  /\ Runs(p, "row")
  /\ IF agreements[id].status = "ABSENT" THEN Refuse(p)
     ELSE /\ Set(p, [tx[p] EXCEPT !.at = "op", !.row = agreements[id]])
          /\ UNCHANGED <<vars, due>>

\* The run() of an operation decides on the row that was read.
Decide(p) ==
  LET q == tx[p].call
      a == tx[p].row
  IN IF ~Allowed(q, a) THEN Refuse(p)
     ELSE /\ Set(p, [tx[p] EXCEPT !.at = "post", !.row = Written(q, a),
                                  !.plan = Entries(q, a), !.todo = Entries(q, a)])
          /\ UNCHANGED <<vars, due>>

\* operation(): INSERT ... ON CONFLICT DO NOTHING; a row already committed
\* makes the call a replay, which ends having written nothing.
InsertOp(p) ==
  LET q == tx[p].call IN
  /\ Runs(p, "op")
  /\ IF Key(q) \in ops THEN Refuse(p)
     ELSE CASE q.op = "create" ->
                 Set(p, [tx[p] EXCEPT !.at = "count"]) /\ UNCHANGED <<vars, due>>
            [] q.op = "paystack" ->
                 /\ Set(p, [tx[p] EXCEPT !.at = "post", !.plan = DepositEntries(q.x),
                                         !.todo = DepositEntries(q.x)])
                 /\ UNCHANGED <<vars, due>>
            [] q.op = "accept" /\ Allowed(q, tx[p].row) ->
                 Set(p, [tx[p] EXCEPT !.at = "seller"]) /\ UNCHANGED <<vars, due>>
            [] OTHER -> Decide(p)

\* The seller is eligible, after a slow read elsewhere; accept looks at the
\* clock again.  (An ineligible seller is one of the failures of Fails.)
SellerEligible(p) == Runs(p, "seller") /\ Decide(p)

\* Slip: an account may go below zero.
PostUnchecked(p) ==
  /\ Runs(p, "post") /\ tx[p].todo # {}
  /\ Set(p, [tx[p] EXCEPT !.todo = @ \ {NextPosting(p)}])
  /\ UNCHANGED <<vars, due>>

\* post(): lock the next account, refuse to overdraw it.
Post(p) ==
  /\ Runs(p, "post") /\ tx[p].todo # {}
  /\ LET e == NextPosting(p) IN
     IF e[1] # ClearingAcct /\ Balance(e[1]) + e[2] < 0 THEN Rollback(p, {})
     ELSE /\ Set(p, [tx[p] EXCEPT !.todo = @ \ {e}])
          /\ UNCHANGED <<vars, due>>

\* create(): lock the buyer's account, then count the invites.
CountInvites(p) ==
  /\ Runs(p, "count")
  /\ IF Cardinality(Invites(tx[p].call.actor)) >= MaxInvites THEN Refuse(p)
     ELSE /\ Set(p, [tx[p] EXCEPT
                       !.at = "insert",
                       !.row = [NoRow EXCEPT !.status = IF tx[p].call.eligible
                                                        THEN "PENDING_PAYMENT"
                                                        ELSE "DRAFT_PENDING_SELLER_KYC"]])
          /\ UNCHANGED <<vars, due>>

\* What p posted to an account.
Delta(p, acct) == LET mine == {e \in tx[p].plan : e[1] = acct}
                  IN IF mine = {} THEN 0 ELSE (CHOOSE e \in mine : TRUE)[2]

\* COMMIT: everything the transaction wrote appears, and its locks are gone.
Commit(p) ==
  LET q == tx[p].call IN
  /\ \/ tx[p].at = "insert"
     \/ tx[p].at = "post" /\ tx[p].todo = {}
  /\ ops' = ops \cup {Key(q)}
  /\ agreements' = IF q.op = "paystack" THEN agreements
                   ELSE [agreements EXCEPT ![q.x] = tx[p].row]
  /\ consents' = CASE q.op = "start" -> [consents EXCEPT ![q.x] = {}]
                   [] q.op = "cancel" -> [consents EXCEPT ![q.x] = @ \cup {q.actor}]
                   [] OTHER -> consents
  /\ available' = [u \in User |-> available[u] + Delta(p, UserAcct(u))]
  /\ principal' = [id \in Agr |-> principal[id] + Delta(p, PrincipalAcct(id))]
  /\ pendingFee' = [id \in Agr |-> pendingFee[id] + Delta(p, FeeAcct(id))]
  /\ clearing' = clearing + Delta(p, ClearingAcct)
  /\ earnedFees' = earnedFees + Delta(p, EarnedAcct)
  /\ Set(p, Idle)
  /\ due' = IF q.op = "expire" THEN due \ {q.x} ELSE due
  /\ UNCHANGED lapsed

Tick(id) == ClockPasses(id) /\ UNCHANGED <<tx, due>>

------------------------------------------------------------------------------
\* The calls a client or the worker makes: the actor is the one the code
\* demands, for every other actor the call ends without writing.
CallsOn(id) ==
  {Call(op, id, Buyer[id], 0, TRUE) : op \in AgrOp \ {"create", "ruling"}}
    \cup {Call("create", id, Buyer[id], 0, e) : e \in BOOLEAN}
    \cup {Call("cancel", id, u, 0, TRUE) : u \in Parties(id)}
    \cup {Call("ruling", id, Buyer[id], n, TRUE) : n \in 0..Principal[id]}

Calls == {Call("paystack", r, DepositUser[r], 0, TRUE) : r \in Ref}
           \cup (UNION {CallsOn(id) : id \in Agr})

Statement(p) == \/ LockRow(p) \/ InsertOp(p) \/ SellerEligible(p)
                \/ Post(p) \/ CountInvites(p) \/ Commit(p)

TxNext == \/ \E id \in Agr : Tick(id)
          \/ SweepReads
          \/ \E p \in Proc : Statement(p) \/ Fails(p) \/ \E q \in Calls : Begin(p, q)

TxSpec == TxInit /\ [][TxNext]_txVars

------------------------------------------------------------------------------
TxTypeOK ==
  /\ TypeOK
  /\ due \subseteq Agr
  /\ \A p \in Proc :
       /\ tx[p].at \in {"idle", "row", "op", "seller", "post", "count", "insert"}
       /\ tx[p].row \in Row
       /\ tx[p].todo \subseteq tx[p].plan

\* Transactions never wait for each other in a cycle of any length: among any of
\* them there is one that waits for none of them.  The row lock comes before the
\* operation id, that before the accounts, and post() takes the accounts in the
\* order of their ids.  So the five-second lock_timeout is never what gets a call
\* out of a deadlock.
NoWaitCycle ==
  \A S \in (SUBSET Proc) \ {{}} : \E p \in S : \A q \in S : ~Waits(p, q)

\* A deadline a transaction has found open counts as open until it ends.
OpenForTx(id) == \E p \in Proc : /\ tx[p].at = "post" /\ tx[p].call.x = id
                                 /\ \/ tx[p].call.op = "accept"
                                    \/ tx[p].call.op = "fund" /\ ~tx[p].row.accepted

Serial == INSTANCE NgnLedger WITH
            lapsed <- [id \in Agr |-> lapsed[id] /\ ~OpenForTx(id)]

\* However the statements of concurrent calls interleave and wherever one
\* fails, the tables change as if whole calls ran one after the other: every
\* COMMIT is a call of NgnLedger made on the tables as they are at that moment,
\* although it was decided on what the transaction read before.
Serializable == Serial!Spec

\* From any tables, and with accounts shared in both directions, every COMMIT
\* still is a call of NgnLedger made on the tables as they are at that moment.
CommitsAreCalls == [][Serial!Next]_(Serial!vars)

------------------------------------------------------------------------------
\* The service has started again: the tables are some that calls may have left,
\* and no transaction runs.
Resumed == /\ TypeOK
           /\ \A id \in Agr : agreements[id].status # "ABSENT" => <<"create", id>> \in ops
           /\ InviteCap
           /\ tx = [p \in Proc |-> Idle]
           /\ due = {}

ResumedSpec == Resumed /\ [][TxNext]_txVars
=============================================================================
