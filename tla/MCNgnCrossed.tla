---------------------------- MODULE MCNgnCrossed ----------------------------
\* Two users whose agreements a1 and a3 run in opposite directions, both
\* delivered: each user's account is the buyer's of one settlement and the
\* seller's of the other, and a split posts to both.  Meanwhile ann invites
\* ben twice more, to a2 and a4, under a cap of one.
EXTENDS NgnLedgerTx, TLC

CONSTANTS ann, ben, a1, a2, a3, a4, d1, d2

MCBuyer == [id \in Agr |-> IF id = a3 THEN ben ELSE ann]
MCSeller == [id \in Agr |-> IF id = a3 THEN ann ELSE ben]
MCPrincipal == [id \in Agr |-> 2]
MCDepositUser == [r \in Ref |-> IF r = d1 THEN ann ELSE ben]
MCDepositNet == [r \in Ref |-> 3]
MCRank == [u \in User |-> IF u = ann THEN 0 ELSE 1]

Delivered == [status |-> "DELIVERED", accepted |-> TRUE, funded |-> TRUE,
              started |-> TRUE, delivered |-> TRUE]
Running == {a1, a3}

CrossedInit ==
  /\ agreements = [id \in Agr |-> IF id \in Running THEN Delivered ELSE NoRow]
  /\ consents = [id \in Agr |-> {}]
  /\ available = [u \in User |-> 0]
  /\ principal = [id \in Agr |-> IF id \in Running THEN 2 ELSE 0]
  /\ pendingFee = [id \in Agr |-> IF id \in Running THEN 1 ELSE 0]
  /\ clearing = -6
  /\ earnedFees = 0
  /\ ops = ({"create", "fund", "accept", "start", "deliver"} \X Running)
             \cup ({"paystack"} \X Ref)
  /\ lapsed = [id \in Agr |-> FALSE]
  /\ tx = [p \in Proc |-> Idle]
  /\ due = {}
  /\ Resumed

\* Every other call on a1 and a3 is refused from here on, and cannot make
\* anybody wait for more than the one row or operation id it asks for.
MCCalls == {q \in Calls : \/ q.op \in {"dispute", "release", "ruling"} /\ q.x \in Running
                          \/ q.op = "create" /\ q.x \notin Running /\ q.eligible}

CrossedNext ==
  \E p \in Proc : \/ Statement(p)
                  \/ Fails(p)
                  \/ \E q \in MCCalls : Begin(p, q)

CrossedSpec == CrossedInit /\ [][CrossedNext]_txVars

\* Connections are alike, and so are the two invites.
Alike == Permutations(Proc) \cup Permutations({a2, a4})
=============================================================================
