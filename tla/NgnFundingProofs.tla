-------------------------- MODULE NgnFundingProofs --------------------------
(****************************************************************************)
(* Proofs about NgnFunding, for any agreements, credentials and requests,   *)
(* any size of the pool and any ceiling.                                    *)
(****************************************************************************)
EXTENDS NgnFunding, SumLemmas

\* A request past the step-up check spent a token bound to what it funds.
Confirmed(r) ==
  call[r].at \in {"limits", "write"} =>
    /\ call[r].token \in Credential \ unspent
    /\ BoundTo[call[r].token] = call[r].id

\* The inductive invariant.  That what is funded was confirmed is not inductive
\* on its own: the commit comes after the check, and what lies between them is
\* that a spent token is not minted again and a request keeps the one it spent.
FInv == TypeOK /\ FundedWasConfirmed /\ \A r \in Request : Confirmed(r)

------------------------------------------------------------------------------
\* The connections of the requests are numbers, and so is their sum.
LEMMA InUseType ==
  ASSUME conns \in [Request -> 0..2]
  PROVE  InUse \in Nat
<1>1. \A r \in Request : conns[r] \in Nat
  OBVIOUS
<1> QED
  BY <1>1, FundingAssumption, SumBounds DEF InUse, SumFunction

\* A request that comes to hold n connections changes the number in use by as
\* much as its own.
LEMMA UseChanges ==
  ASSUME conns \in [Request -> 0..2], NEW r \in Request, NEW n \in 0..2, Use(r, n)
  PROVE  conns' \in [Request -> 0..2] /\ InUse' = InUse - conns[r] + n
<1>1. /\ conns' \in [Request -> 0..2] /\ conns'[r] = n
      /\ \A q \in Request \ {r} : conns[q] = conns'[q]
  BY DEF Use
<1>2. /\ \A q \in Request : conns[q] \in Int /\ conns'[q] \in Int
      /\ DOMAIN conns = Request /\ DOMAIN conns' = Request
  BY <1>1
<1>3. SumFunctionOnSet(conns', Request) = SumFunctionOnSet(conns, Request) - conns[r] + conns'[r]
  BY <1>1, <1>2, FundingAssumption, SumChange
<1> QED
  BY <1>1, <1>2, <1>3 DEF InUse, SumFunction

\* The pool stays within its size when a request gives connections back, and
\* when one that finds a connection free comes to hold one more.
LEMMA PoolKept ==
  ASSUME TypeOK, NEW r \in Request, NEW n \in 0..2, Use(r, n),
         n <= conns[r] \/ (Free /\ n <= conns[r] + 1)
  PROVE  conns' \in [Request -> 0..2] /\ InUse' <= PoolSize
<1>1. conns \in [Request -> 0..2] /\ conns[r] \in Nat /\ n \in Nat /\ InUse <= PoolSize
  BY DEF TypeOK
<1>2. InUse \in Nat /\ PoolSize \in Nat
  BY <1>1, InUseType, FundingAssumption
<1>3. conns' \in [Request -> 0..2] /\ InUse' = InUse - conns[r] + n
  BY <1>1, UseChanges
<1> HIDE DEF InUse
<1> QED
  BY <1>1, <1>2, <1>3 DEF Free

\* The places a request goes to are those of the code.
LEMMA GotoType ==
  ASSUME TypeOK, NEW r \in Request, NEW at \in Place, Goto(r, at)
  PROVE  call' \in [Request -> [at : Place, id : Agr \cup {None}, token : Credential \cup {None}]]
BY DEF TypeOK, Goto

\* The end of a request forgets it and gives its connections back.
LEMMA EndType ==
  ASSUME TypeOK, NEW r \in Request, End(r)
  PROVE  /\ call' \in [Request -> [at : Place, id : Agr \cup {None}, token : Credential \cup {None}]]
         /\ conns' \in [Request -> 0..2] /\ InUse' <= PoolSize
         /\ call' = [call EXCEPT ![r] = Idle]
<1>1. call' \in [Request -> [at : Place, id : Agr \cup {None}, token : Credential \cup {None}]]
  BY DEF TypeOK, End, Idle, Place
<1>2. 0 <= conns[r]
  BY DEF TypeOK
<1>3. conns' \in [Request -> 0..2] /\ InUse' <= PoolSize
  BY <1>2, PoolKept DEF End
<1> QED
  BY <1>1, <1>3 DEF End

\* A decision on the limits takes the request on, or ends it.
LEMMA DecideType ==
  ASSUME TypeOK, NEW r \in Request, NEW rows, Decide(r, rows), Asking(r), Held(r) <= conns[r]
  PROVE  /\ call' \in [Request -> [at : Place, id : Agr \cup {None}, token : Credential \cup {None}]]
         /\ conns' \in [Request -> 0..2] /\ InUse' <= PoolSize
         /\ \/ call' = [call EXCEPT ![r] = Idle]
            \/ call' = [call EXCEPT ![r].at = IF call[r].at = "check" THEN "connect" ELSE "write"]
<1>1. CASE End(r)
  BY <1>1, EndType
<1>2. CASE /\ Goto(r, IF call[r].at = "check" THEN "connect" ELSE "write")
           /\ Use(r, Held(r))
  <2>1. (IF call[r].at = "check" THEN "connect" ELSE "write") \in Place
    BY DEF Place
  <2>2. Held(r) \in 0..2
    BY DEF Held
  <2> QED
    BY <1>2, <2>1, <2>2, GotoType, PoolKept DEF Goto
<1> QED
  BY <1>1, <1>2 DEF Decide

------------------------------------------------------------------------------
\* Every step of a request keeps its place, its connections and the pool typed.
LEMMA TypeStep == FInv /\ [Next]_vars => TypeOK'
<1> SUFFICES ASSUME TypeOK, \A r \in Request : Confirmed(r), [Next]_vars PROVE TypeOK'
  BY DEF FInv
<1>0. CASE UNCHANGED vars
  BY <1>0 DEF vars, TypeOK, InUse
<1>1. ASSUME NEW r \in Request, NEW id \in Agr, NEW token \in Credential, Begin(r, id, token)
      PROVE  TypeOK'
  BY <1>1 DEF Begin, TypeOK, Place, InUse
<1>2. ASSUME NEW r \in Request, End(r), unspent' \subseteq Credential, funded' \subseteq Agr
      PROVE  TypeOK'
  BY <1>2, EndType DEF TypeOK
<1>3. ASSUME NEW r \in Request, NEW at \in Place, NEW n \in 0..2, Goto(r, at), Use(r, n),
             n <= conns[r] \/ (Free /\ n <= conns[r] + 1),
             unspent' \subseteq Credential, funded' \subseteq Agr
      PROVE  TypeOK'
  BY <1>3, GotoType, PoolKept DEF TypeOK
<1>4. ASSUME NEW r \in Request, Step(r) PROVE TypeOK'
  <2>1. /\ unspent \subseteq Credential /\ funded \subseteq Agr
        /\ conns[r] \in Nat /\ 0 <= conns[r] /\ 1 <= conns[r] + 1
    BY DEF TypeOK
  <2>2. CASE GuardConnects(r)
    BY <1>2, <1>3, <2>1, <2>2 DEF GuardConnects, Place
  <2>3. CASE GuardGets(r)
    BY <1>2, <1>3, <2>1, <2>3 DEF GuardGets, Place
  <2>4. CASE Connect(r)
    BY <1>2, <1>3, <2>1, <2>4 DEF Connect, Place
  <2>5. CASE Load(r)
    <3>1. CASE End(r)
      BY <1>2, <2>1, <2>5, <3>1 DEF Load
    <3>2. CASE Goto(r, "authorize") /\ UNCHANGED conns
      BY <2>1, <2>5, <3>2, GotoType DEF Load, TypeOK, Place, InUse
    <3> QED
      BY <2>5, <3>1, <3>2 DEF Load
  <2>6. CASE Authorize(r)
    <3>1. CASE End(r) /\ UNCHANGED unspent
      BY <1>2, <2>1, <2>6, <3>1 DEF Authorize
    <3>2. CASE unspent' = unspent \ {call[r].token} /\ Goto(r, "limits") /\ UNCHANGED conns
      BY <2>1, <2>6, <3>2, GotoType DEF Authorize, TypeOK, Place, InUse
    <3> QED
      BY <2>6, <3>1, <3>2 DEF Authorize
  <2>7. CASE ListGetsConnection(r)
    <3>1. Held(r) + 1 \in 0..2 /\ Held(r) + 1 <= conns[r] + 1
      BY <2>7 DEF ListGetsConnection, Held
    <3> QED
      BY <2>7, <3>1, PoolKept DEF ListGetsConnection, TypeOK
  <2>8. CASE ListReturns(r)
    <3>1. Held(r) <= conns[r]
      BY <2>8 DEF ListReturns, Held
    <3> QED
      BY <2>8, <3>1, DecideType DEF ListReturns, TypeOK
  <2>9. CASE ListTimesOut(r)
    <3>1. Held(r) <= conns[r]
      BY <2>9 DEF ListTimesOut, Held
    <3> QED
      BY <2>9, <3>1, DecideType DEF ListTimesOut, TypeOK
  <2>10. CASE Write(r)
    <3>1. call[r].id \in Agr
      BY <2>10, FundingAssumption DEF Write, Confirmed
    <3> QED
      BY <1>2, <2>1, <2>10, <3>1 DEF Write
  <2> QED
    BY <1>4, <2>2, <2>3, <2>4, <2>5, <2>6, <2>7, <2>8, <2>9, <2>10 DEF Step
<1>5. ASSUME NEW r \in Request, Fails(r) PROVE TypeOK'
  <2>1. unspent' \subseteq Credential /\ funded' \subseteq Agr
    BY <1>5 DEF TypeOK, Fails
  <2> QED
    BY <1>2, <1>5, <2>1 DEF Fails
<1> QED
  BY <1>0, <1>1, <1>4, <1>5 DEF Next

------------------------------------------------------------------------------
\* A step of a request spends tokens and mints none, and what it commits is
\* what a token it spent is bound to.
LEMMA StepEffect ==
  ASSUME TypeOK, NEW r \in Request, Confirmed(r),
         Step(r) \/ Fails(r) \/ \E id \in Agr, token \in Credential : Begin(r, id, token)
  PROVE  /\ unspent' \subseteq unspent
         /\ \A q \in Request \ {r} : call'[q] = call[q]
         /\ Confirmed(r)'
         /\ \/ funded' = funded
            \/ /\ funded' = funded \cup {call[r].id} /\ unspent' = unspent
               /\ call[r].token \in Credential \ unspent
               /\ BoundTo[call[r].token] = call[r].id
<1> USE DEF TypeOK
<1>1. End(r) => /\ \A q \in Request \ {r} : call'[q] = call[q]
                /\ Confirmed(r)'
  BY DEF End, Idle, Confirmed
<1>2. ASSUME NEW at, Goto(r, at), at \notin {"limits", "write"}
      PROVE  /\ \A q \in Request \ {r} : call'[q] = call[q]
             /\ Confirmed(r)'
  BY <1>2 DEF Goto, Confirmed
<1>3. CASE \E id \in Agr, token \in Credential : Begin(r, id, token)
  BY <1>3 DEF Begin, Confirmed
<1>4. CASE Fails(r)
  BY <1>1, <1>4 DEF Fails
<1>5. CASE GuardConnects(r) \/ GuardGets(r)
  BY <1>1, <1>2, <1>5 DEF GuardConnects, GuardGets
<1>6. CASE Connect(r) \/ Load(r)
  BY <1>1, <1>2, <1>6 DEF Connect, Load
<1>7. CASE Authorize(r)
  <2>1. CASE End(r) /\ UNCHANGED unspent
    BY <1>1, <1>7, <2>1 DEF Authorize
  <2>2. CASE /\ call[r].token \in unspent /\ BoundTo[call[r].token] = call[r].id
             /\ unspent' = unspent \ {call[r].token} /\ Goto(r, "limits")
    BY <1>7, <2>2 DEF Authorize, Goto, Confirmed
  <2> QED
    BY <1>7, <2>1, <2>2 DEF Authorize
<1>8. CASE ListGetsConnection(r)
  BY <1>8 DEF ListGetsConnection, Confirmed
<1>9. ASSUME NEW rows, Decide(r, rows), Asking(r), UNCHANGED <<unspent, funded>>
      PROVE  /\ \A q \in Request \ {r} : call'[q] = call[q]
             /\ Confirmed(r)'
  <2>1. CASE End(r)
    BY <1>1, <2>1
  <2>2. CASE Goto(r, IF call[r].at = "check" THEN "connect" ELSE "write")
    BY <1>9, <2>2 DEF Asking, Goto, Confirmed
  <2> QED
    BY <1>9, <2>1, <2>2 DEF Decide
<1>10. CASE ListReturns(r) \/ ListTimesOut(r)
  BY <1>9, <1>10 DEF ListReturns, ListTimesOut
<1>11. CASE Write(r)
  BY <1>1, <1>11 DEF Write, Confirmed
<1> QED
  BY <1>3, <1>4, <1>5, <1>6, <1>7, <1>8, <1>10, <1>11 DEF Step

\* Idle requests and no funding: the invariant holds.
LEMMA FInvInit == Init => FInv
<1> SUFFICES ASSUME Init PROVE FInv
  OBVIOUS
<1>1. InUse = 0
  BY FundingAssumption, SumZero DEF Init, InUse, SumFunction
<1>2. InUse <= PoolSize
  BY <1>1, FundingAssumption
<1> HIDE DEF InUse
<1> QED
  BY <1>2 DEF Init, Idle, Place, FInv, TypeOK, FundedWasConfirmed, Confirmed

\* Whatever requests do, fail at or race for, the invariant stays.
LEMMA FInvStep == FInv /\ [Next]_vars => FInv'
<1> SUFFICES ASSUME FInv, [Next]_vars PROVE FInv'
  OBVIOUS
<1>1. TypeOK'
  BY TypeStep
<1>2. CASE UNCHANGED vars
  BY <1>1, <1>2 DEF vars, FInv, FundedWasConfirmed, Confirmed
<1>3. ASSUME NEW r \in Request,
             Step(r) \/ Fails(r) \/ \E id \in Agr, token \in Credential : Begin(r, id, token)
      PROVE  FundedWasConfirmed' /\ \A q \in Request : Confirmed(q)'
  <2>1. /\ unspent' \subseteq unspent
        /\ \A q \in Request \ {r} : call'[q] = call[q]
        /\ Confirmed(r)'
        /\ \/ funded' = funded
           \/ /\ funded' = funded \cup {call[r].id} /\ unspent' = unspent
              /\ call[r].token \in Credential \ unspent
              /\ BoundTo[call[r].token] = call[r].id
    BY <1>3, StepEffect DEF FInv
  <2>2. \A q \in Request \ {r} : Confirmed(q)'
    BY <2>1 DEF FInv, Confirmed
  <2>3. FundedWasConfirmed'
    BY <2>1 DEF FInv, FundedWasConfirmed
  <2> QED
    BY <2>1, <2>2, <2>3
<1> QED
  BY <1>1, <1>2, <1>3 DEF FInv, Next

\* The invariant holds in every reachable state.
LEMMA Inductive == Spec => []FInv
BY FInvInit, FInvStep, PTL DEF Spec

\* The requests together never hold more connections than the pool has, however
\* many there are: each takes its second while it keeps its first, and gives up
\* when there is none.
THEOREM TypeCorrect == Spec => []TypeOK
<1>1. FInv => TypeOK
  BY DEF FInv
<1> QED
  BY <1>1, Inductive, PTL

\* No agreement is funded without a confirmation of its own, although the token
\* is spent on another connection than the one that commits.
THEOREM ConfirmationCorrect == Spec => []FundedWasConfirmed
<1>1. FInv => FundedWasConfirmed
  BY DEF FInv
<1> QED
  BY <1>1, Inductive, PTL
=============================================================================
