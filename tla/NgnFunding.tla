----------------------------- MODULE NgnFunding -----------------------------
(****************************************************************************)
(* The funding of a naira agreement as the runtime runs it                  *)
(* (ngn/balance-agreements/runtime.ts, routes.ts, postgres.ts): the funding *)
(* guard, the single-use confirmation, the limits read over a second        *)
(* connection while the transaction holds the first, and the pool of        *)
(* connections they all share.  What the ledger itself does with the money  *)
(* is NgnLedger; here a funding is one flag.                                *)
(****************************************************************************)
EXTENDS Integers, FiniteSets, FiniteSetsExt

CONSTANTS Agr,       \* agreements, created and fundable
          Buyer,     \* the buyer of each
          Total,     \* principal and fee of each, in kobo
          Credential,\* step-up tokens users minted with their PIN
          BoundTo,   \* the agreement each token is bound to
          Request,   \* calls of the fund route
          PoolSize,  \* connections in the pool: 4 in the code
          Ceiling,   \* what a buyer may fund in a day
          None

ASSUME FundingAssumption ==
  /\ IsFiniteSet(Request)
  /\ Total \in [Agr -> Nat \ {0}]
  /\ BoundTo \in [Credential -> Agr]
  /\ PoolSize \in Nat \ {0} /\ Ceiling \in Nat

VARIABLES
  call,    \* per request: where it is, what it funds, with which token
  conns,   \* per request: pool connections it holds
  unspent, \* step-up tokens not used yet
  funded   \* agreements funded today, committed

vars == <<call, conns, unspent, funded>>

Idle == [at |-> "idle", id |-> None, token |-> None]
Place == {"idle", "guard", "get", "check", "connect", "load", "authorize", "limits", "write"}

Init == /\ call = [r \in Request |-> Idle]
        /\ conns = [r \in Request |-> 0]
        /\ unspent = Credential
        /\ funded = {}

InUse == SumFunction(conns)
Free == InUse < PoolSize

Goto(r, at) == call' = [call EXCEPT ![r].at = at]
Use(r, n) == conns' = [conns EXCEPT ![r] = n]

\* The row lock of load(): held from there to the end of the transaction.
Locked(id) == \E q \in Request : /\ call[q].id = id
                                 /\ call[q].at \in {"authorize", "limits", "write"}

End(r) == call' = [call EXCEPT ![r] = Idle] /\ Use(r, 0)

------------------------------------------------------------------------------
\* todayVolumeNgn keeps the rows whose funded_at >= startOfTodayIso.  funded_at
\* comes from pg as a Date and startOfTodayIso is an ISO string: >= turns the
\* first into a number and the second into NaN, and is false of every row.
FundedToday(id) == FALSE

Volume(ids) == MapThenSumSet(LAMBDA id : Total[id], ids)

\* assertFundingLimits on the rows ledger.list returned.
WithinCeiling(b, rows, id) ==
  Volume({x \in rows : Buyer[x] = b /\ FundedToday(x)}) + Total[id] <= Ceiling

------------------------------------------------------------------------------
Begin(r, id, token) ==
  /\ call[r].at = "idle"
  /\ call' = [call EXCEPT ![r] = [at |-> "guard", id |-> id, token |-> token]]
  /\ UNCHANGED <<conns, unspent, funded>>

\* createNgnFundingGuard reads the agreement in a transaction of its own, under
\* the row lock and on a connection it gives back, and then asks for the limits.
GuardConnects(r) ==
  /\ call[r].at = "guard"
  /\ IF Free THEN Goto(r, "get") /\ Use(r, 1) ELSE End(r)
  /\ UNCHANGED <<unspent, funded>>

GuardGets(r) ==
  /\ call[r].at = "get"
  /\ IF ~Locked(call[r].id) THEN Goto(r, "check") /\ Use(r, 0) ELSE End(r)
  /\ UNCHANGED <<unspent, funded>>

\* Slip: a connection beyond the pool's.
ConnectUnbounded(r) ==
  /\ call[r].at = "connect"
  /\ Goto(r, "load") /\ Use(r, 1)
  /\ UNCHANGED <<unspent, funded>>

\* pool.connect() and BEGIN; the pool gives up after connectionTimeoutMillis.
Connect(r) ==
  /\ call[r].at = "connect"
  /\ IF Free THEN Goto(r, "load") /\ Use(r, 1) ELSE End(r)
  /\ UNCHANGED <<unspent, funded>>

\* load(): the row lock, or lock_timeout.
Load(r) ==
  /\ call[r].at = "load"
  /\ IF ~Locked(call[r].id) THEN Goto(r, "authorize") /\ UNCHANGED conns ELSE End(r)
  /\ UNCHANGED <<unspent, funded>>

\* Slip: a token is good for any agreement.
AuthorizeAny(r) ==
  /\ call[r].at = "authorize"
  /\ IF call[r].token \in unspent
     THEN unspent' = unspent \ {call[r].token} /\ Goto(r, "limits") /\ UNCHANGED conns
     ELSE End(r) /\ UNCHANGED unspent
  /\ UNCHANGED funded

\* consumeStepUpToken, on a connection of another pool: it is spent whatever
\* becomes of the transaction.
Authorize(r) ==
  LET token == call[r].token IN
  /\ call[r].at = "authorize"
  /\ IF token \in unspent /\ BoundTo[token] = call[r].id
     THEN unspent' = unspent \ {token} /\ Goto(r, "limits") /\ UNCHANGED conns
     ELSE End(r) /\ UNCHANGED unspent
  /\ UNCHANGED funded

\* assertFundingLimits, from the guard and again inside the transaction: list()
\* asks the pool for a connection, beside the one the transaction holds.
Asking(r) == call[r].at \in {"check", "limits"}
Held(r) == IF call[r].at = "limits" THEN 1 ELSE 0

ListGetsConnection(r) ==
  /\ Asking(r) /\ conns[r] = Held(r) /\ Free
  /\ Use(r, Held(r) + 1)
  /\ UNCHANGED <<call, unspent, funded>>

Decide(r, rows) ==
  LET id == call[r].id IN
  IF WithinCeiling(Buyer[id], rows, id)
  THEN Goto(r, IF call[r].at = "check" THEN "connect" ELSE "write") /\ Use(r, Held(r))
  ELSE End(r)

ListReturns(r) ==
  /\ Asking(r) /\ conns[r] = Held(r) + 1
  /\ Decide(r, funded)
  /\ UNCHANGED <<unspent, funded>>

\* Slip: waiting for the second connection without a timeout.
ListWaits(r) == call[r].at = "nowhere" /\ UNCHANGED vars

\* No connection in five seconds: .catch(() => []), and the limits are decided
\* as if the buyer had no agreements.
ListTimesOut(r) ==
  /\ Asking(r) /\ conns[r] = Held(r) /\ ~Free
  /\ Decide(r, {})
  /\ UNCHANGED <<unspent, funded>>

\* The operation row and COMMIT; a replay finds its row and writes nothing.
Write(r) ==
  /\ call[r].at = "write"
  /\ funded' = funded \cup {call[r].id}
  /\ End(r)
  /\ UNCHANGED unspent

\* The request fails at any point; a token it spent stays spent.
Fails(r) ==
  /\ call[r].at # "idle"
  /\ End(r)
  /\ UNCHANGED <<unspent, funded>>

Step(r) == \/ GuardConnects(r) \/ GuardGets(r) \/ Connect(r) \/ Load(r)
           \/ Authorize(r) \/ ListGetsConnection(r) \/ ListReturns(r) \/ ListTimesOut(r) \/ Write(r)

Next == \E r \in Request : \/ \E id \in Agr, token \in Credential : Begin(r, id, token)
                           \/ Step(r)
                           \/ Fails(r)

Spec == Init /\ [][Next]_vars

\* Node runs every callback; every wait of a request has a timeout.
FairSpec == Spec /\ \A r \in Request : WF_vars(Step(r))

------------------------------------------------------------------------------
TypeOK ==
  /\ call \in [Request -> [at : Place, id : Agr \cup {None}, token : Credential \cup {None}]]
  /\ conns \in [Request -> 0..2]
  /\ InUse <= PoolSize
  /\ unspent \subseteq Credential /\ funded \subseteq Agr

\* Every funded agreement cost its buyer a confirmation of its own: one spent
\* token bound to that agreement, and no token pays for two, although tokens
\* are spent on another connection than the one that commits the funding.
FundedWasConfirmed ==
  \A id \in funded : \E token \in Credential \ unspent : BoundTo[token] = id

\* Requests that each hold a connection and each wait for another cannot block
\* the pool for ever: every request ends.
EveryRequestEnds ==
  \A r \in Request : call[r].at # "idle" ~> call[r].at = "idle"

\* runtime.ts:132 says of its daily ceiling that it is transactional and holds
\* against concurrent bypass.
DailyCeiling ==
  \A id \in Agr : Volume({x \in funded : Buyer[x] = Buyer[id]}) <= Ceiling
=============================================================================
