------------------------------ MODULE NgnOutbox ------------------------------
(****************************************************************************)
(* Delivery of the ledger's outbox (ngn/balance-agreements/workers.ts): the *)
(* rows ledger calls committed, the workers that lease and publish them one *)
(* at a time, a network that delays, loses and repeats, and the receiver,   *)
(* which is another system: it drops event ids it has and sequences older   *)
(* than the newest it applied, as the comment on createNgnWorkers demands.  *)
(****************************************************************************)
EXTENDS Integers, FiniteSets, FiniteSetsExt

CONSTANTS Agr,        \* agreements
          Seq,        \* outbox sequence numbers
          About,      \* the agreement a row is about; rows of deposits: Deposit
          Deposit,    \* not an agreement
          Unlinked,   \* rows one of whose parties has no linked channel
          Worker,     \* worker processes
          None,       \* NULL
          MaxFaults   \* bound: worker crashes and stalls explored

ASSUME OutboxAssumption ==
  /\ Seq \subseteq Nat /\ IsFiniteSet(Seq)
  /\ About \in [Seq -> Agr \cup {Deposit}] /\ Deposit \notin Agr
  /\ Unlinked \subseteq Seq
  /\ None \notin Worker \cup Seq
  /\ MaxFaults \in Nat

VARIABLES
  rows,       \* per sequence: fate, lease_token, lease_until not passed, next_attempt_at passed
  job,        \* per worker: the row it leased and how far it is
  net,        \* rows whose request is on its way to the receiver
  inbox,      \* event ids the receiver has
  projection, \* per agreement: the newest sequence the receiver applied
  faults      \* crashes and stalls so far

vars == <<rows, job, net, inbox, projection, faults>>

Fate == {"uncommitted", "pending", "delivered", "skipped"}
NoRowYet == [fate |-> "uncommitted", lease |-> None, live |-> FALSE, ready |-> TRUE]
NoJob == [seq |-> None, at |-> "idle"]

IsAgreementEvent(n) == About[n] # Deposit

Init == /\ rows = [n \in Seq |-> NoRowYet]
        /\ job = [w \in Worker |-> NoJob]
        /\ net = {}
        /\ inbox = {}
        /\ projection = [a \in Agr |-> 0]
        /\ faults = 0

\* A ledger call commits its row.  The row lock orders the calls of one
\* agreement; those of others may commit in another order than their sequences.
CommitRow(n) ==
  /\ rows[n].fate = "uncommitted"
  /\ IsAgreementEvent(n) =>
       \A m \in Seq : About[m] = About[n] /\ m < n => rows[m].fate # "uncommitted"
  /\ rows' = [rows EXCEPT ![n].fate = "pending"]
  /\ UNCHANGED <<job, net, inbox, projection, faults>>

\* Slip: the lease of a dead worker is never taken over.
DueUnleased(n) == rows[n].fate = "pending" /\ rows[n].ready /\ rows[n].lease = None

Due(n) == /\ rows[n].fate = "pending" /\ rows[n].ready
          /\ rows[n].lease = None \/ ~rows[n].live

\* deliverOne: lease the lowest due sequence.
Lease(w, n) ==
  /\ job[w].at = "idle"
  /\ Due(n) /\ \A m \in Seq : Due(m) => n <= m
  /\ rows' = [rows EXCEPT ![n].lease = w, ![n].live = TRUE]
  /\ job' = [job EXCEPT ![w] = [seq |-> n, at |-> IF IsAgreementEvent(n)
                                                  THEN "publish" ELSE "mark"]]
  /\ UNCHANGED <<net, inbox, projection, faults>>

\* publish: both recipients are looked up, then the request leaves.
Publish(w) ==
  /\ job[w].at = "publish" /\ job[w].seq \notin Unlinked
  /\ net' = net \cup {job[w].seq}
  /\ job' = [job EXCEPT ![w].at = "sent"]
  /\ UNCHANGED <<rows, inbox, projection, faults>>

\* Slip of a receiver: applying what is older than what it shows.
ReceiveStale(n) ==
  /\ n \in net
  /\ net' = net \ {n}
  /\ inbox' = inbox \cup {n}
  /\ projection' = [projection EXCEPT ![About[n]] = n]
  /\ UNCHANGED <<rows, job, faults>>

\* The receiver takes a request off the network, at any later time.
Receive(n) ==
  /\ n \in net
  /\ net' = net \ {n}
  /\ inbox' = inbox \cup {n}
  /\ projection' = IF n \notin inbox /\ n > projection[About[n]]
                   THEN [projection EXCEPT ![About[n]] = n] ELSE projection
  /\ UNCHANGED <<rows, job, faults>>

\* Slip: taking the request for its answer.
AcknowledgedOnSend(w) ==
  /\ job[w].at = "sent"
  /\ job' = [job EXCEPT ![w].at = "mark"]
  /\ UNCHANGED <<rows, net, inbox, projection, faults>>

\* 2xx: only after the receiver has the event.
Acknowledged(w) ==
  /\ job[w].at = "sent" /\ job[w].seq \in inbox
  /\ job' = [job EXCEPT ![w].at = "mark"]
  /\ UNCHANGED <<rows, net, inbox, projection, faults>>

\* Slip: the worker keeps the row it is done with.
MarkedKeepingRow(w, row) ==
  /\ rows' = IF rows[job[w].seq].lease = w THEN [rows EXCEPT ![job[w].seq] = row] ELSE rows
  /\ job' = [job EXCEPT ![w].at = "idle"]
  /\ UNCHANGED <<net, inbox, projection, faults>>

\* UPDATE ... WHERE id=$1 AND lease_token=$2.
Marked(w, row) ==
  LET n == job[w].seq IN
  /\ rows' = IF rows[n].lease = w THEN [rows EXCEPT ![n] = row] ELSE rows
  /\ job' = [job EXCEPT ![w] = NoJob]
  /\ UNCHANGED <<net, inbox, projection, faults>>

\* The row is done: delivered, or skipped when it is not about an agreement.
Mark(w) ==
  /\ job[w].at = "mark"
  /\ Marked(w, [rows[job[w].seq] EXCEPT
                  !.fate = IF IsAgreementEvent(job[w].seq) THEN "delivered" ELSE "skipped",
                  !.lease = None, !.live = FALSE])

\* The catch branch: no linked recipient, a timeout, a status other than 2xx,
\* or a failed mark.  The row is given back and is not due before its backoff.
Fail(w) ==
  /\ job[w].at \in {"publish", "sent", "mark"}
  /\ Marked(w, [rows[job[w].seq] EXCEPT !.lease = None, !.live = FALSE, !.ready = FALSE])

\* The process dies; its lease stays in the table.
Crash(w) ==
  /\ job[w].at # "idle" /\ faults < MaxFaults
  /\ job' = [job EXCEPT ![w] = NoJob]
  /\ faults' = faults + 1
  /\ UNCHANGED <<rows, net, inbox, projection>>

\* Sixty seconds pass.  An attempt is over long before (the transport gives up
\* after ten), so a lease ends under its worker only when the process stalls;
\* else it is the lease of a worker that died.
LeaseEnds(n) ==
  /\ rows[n].live
  /\ rows' = [rows EXCEPT ![n].live = FALSE]
  /\ IF \E w \in Worker : rows[n].lease = w /\ job[w].seq = n
     THEN faults < MaxFaults /\ faults' = faults + 1
     ELSE UNCHANGED faults
  /\ UNCHANGED <<job, net, inbox, projection>>

\* The delay of next_attempt_at passes.
BackoffEnds(n) ==
  /\ ~rows[n].ready
  /\ rows' = [rows EXCEPT ![n].ready = TRUE]
  /\ UNCHANGED <<job, net, inbox, projection, faults>>

Next == \/ \E n \in Seq : CommitRow(n) \/ Receive(n) \/ LeaseEnds(n) \/ BackoffEnds(n)
        \/ \E w \in Worker : \/ \E n \in Seq : Lease(w, n)
                             \/ Publish(w) \/ Acknowledged(w) \/ Mark(w)
                             \/ Fail(w) \/ Crash(w)

Spec == Init /\ [][Next]_vars

\* A running worker goes on (start schedules the next tick whatever the last
\* one did, and tick leases row after row without a pause, so a row at the head
\* is leased before the growing delay of an earlier one has passed for ever);
\* time passes; the network and the receiver are not down for ever, so a row
\* tried again and again is one day acknowledged and marked.
Fairness ==
  /\ \A n \in Seq : /\ SF_vars(\E w \in Worker : Lease(w, n))
                    /\ WF_vars(Receive(n)) /\ WF_vars(LeaseEnds(n)) /\ WF_vars(BackoffEnds(n))
  /\ \A w \in Worker : /\ WF_vars(Publish(w) \/ Fail(w))
                       /\ SF_vars(Publish(w)) /\ SF_vars(Acknowledged(w)) /\ SF_vars(Mark(w))

FairSpec == Spec /\ Fairness

------------------------------------------------------------------------------
TypeOK ==
  /\ rows \in [Seq -> [fate : Fate, lease : Worker \cup {None}, live : BOOLEAN, ready : BOOLEAN]]
  /\ job \in [Worker -> [seq : Seq \cup {None}, at : {"idle", "publish", "sent", "mark"}]]
  /\ \A w \in Worker : job[w].at = "idle" <=> job[w].seq = None
  /\ net \subseteq Seq /\ inbox \subseteq Seq
  /\ projection \in [Agr -> Seq \cup {0}]
  /\ faults \in 0..MaxFaults

\* A row is recorded as delivered only if the receiver has its event, whatever
\* was lost, repeated or taken over by another worker meanwhile.
DeliveredWasReceived == \A n \in Seq : rows[n].fate = "delivered" => n \in inbox

\* Once the rows of an agreement are all delivered the receiver shows its
\* newest state, even when they arrived out of order: a row that waited out its
\* backoff while newer ones were sent does not set the receiver back.
ReceiverConverges ==
  \A a \in Agr :
    LET mine == {n \in Seq : About[n] = a} IN
    (mine # {} /\ \A n \in mine : rows[n].fate = "delivered") => projection[a] = Max(mine)

\* Every committed row whose parties can be reached is delivered or skipped in
\* the end: neither a crash, nor a lost acknowledgement, nor a row that fails
\* for ever in front of it keeps it back.
EventsArrive ==
  \A n \in Seq \ Unlinked : rows[n].fate = "pending" ~> rows[n].fate \in {"delivered", "skipped"}
=============================================================================
