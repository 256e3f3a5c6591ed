--------------------------- MODULE NgnOutboxProofs ---------------------------
(****************************************************************************)
(* Proofs about NgnOutbox, for any agreements, rows, workers, and any       *)
(* number of crashes and stalls.                                            *)
(****************************************************************************)
EXTENDS NgnOutbox, TLAPS

\* Sequence numbers are numbers.
LEMMA Numbers == \A n \in Seq \cup {0} : n \in Int /\ n >= 0
<1>1. Seq \subseteq Nat
  BY OutboxAssumption
<1> QED
  BY <1>1

\* A worker that is not idle has a row.
LEMMA JobRow ==
  ASSUME TypeOK, NEW w \in Worker, job[w].at # "idle"
  PROVE  job[w].seq \in Seq /\ job[w].at \in {"publish", "sent", "mark"}
BY DEF TypeOK

\* How a worker that is done with its row changes the tables.
LEMMA MarkedType ==
  ASSUME TypeOK, NEW w \in Worker, job[w].at # "idle", NEW row, Marked(w, row),
         row \in [fate : Fate, lease : Worker \cup {None}, live : BOOLEAN, ready : BOOLEAN]
  PROVE  TypeOK'
<1>1. rows' \in [Seq -> [fate : Fate, lease : Worker \cup {None}, live : BOOLEAN, ready : BOOLEAN]]
  BY JobRow DEF TypeOK, Marked
<1>2. /\ job' \in [Worker -> [seq : Seq \cup {None}, at : {"idle", "publish", "sent", "mark"}]]
      /\ \A v \in Worker : job'[v].at = "idle" <=> job'[v].seq = None
  BY DEF TypeOK, Marked, NoJob
<1> QED
  BY <1>1, <1>2 DEF TypeOK, Marked

\* Rows, the network, the receiver and time.
LEMMA RowType ==
  ASSUME TypeOK, NEW n \in Seq, CommitRow(n) \/ Receive(n) \/ LeaseEnds(n) \/ BackoffEnds(n)
  PROVE  TypeOK'
<1> USE DEF TypeOK
<1>1. CASE CommitRow(n)
  BY <1>1 DEF CommitRow, Fate
<1>2. CASE Receive(n)
  BY <1>2 DEF Receive
<1>3. CASE LeaseEnds(n)
  <2>1. faults' \in 0..MaxFaults
    BY <1>3, OutboxAssumption DEF LeaseEnds
  <2>2. rows' \in [Seq -> [fate : Fate, lease : Worker \cup {None}, live : BOOLEAN, ready : BOOLEAN]]
    <3>1. rows[n] \in [fate : Fate, lease : Worker \cup {None}, live : BOOLEAN, ready : BOOLEAN]
      OBVIOUS
    <3>2. [rows[n] EXCEPT !.live = FALSE] \in [fate : Fate, lease : Worker \cup {None}, live : BOOLEAN, ready : BOOLEAN]
      BY ONLY <3>1
    <3> QED
      BY <1>3, <3>2 DEF LeaseEnds
  <2> QED
    BY <1>3, <2>1, <2>2 DEF LeaseEnds
<1>4. CASE BackoffEnds(n)
  <2>1. rows' \in [Seq -> [fate : Fate, lease : Worker \cup {None}, live : BOOLEAN, ready : BOOLEAN]]
    <3>1. rows[n] \in [fate : Fate, lease : Worker \cup {None}, live : BOOLEAN, ready : BOOLEAN]
      OBVIOUS
    <3>2. [rows[n] EXCEPT !.ready = TRUE] \in [fate : Fate, lease : Worker \cup {None}, live : BOOLEAN, ready : BOOLEAN]
      BY ONLY <3>1
    <3> QED
      BY <1>4, <3>2 DEF BackoffEnds
  <2> QED
    BY <1>4, <2>1 DEF BackoffEnds
<1> QED
  BY <1>1, <1>2, <1>3, <1>4

LEMMA WorkerType ==
  ASSUME TypeOK, NEW w \in Worker,
         \/ \E n \in Seq : Lease(w, n)
         \/ Publish(w) \/ Acknowledged(w) \/ Mark(w) \/ Fail(w) \/ Crash(w)
  PROVE  TypeOK'
<1>1. ASSUME NEW n \in Seq, Lease(w, n) PROVE TypeOK'
  BY <1>1, OutboxAssumption DEF Lease, TypeOK
<1>2. CASE Publish(w) \/ Acknowledged(w)
  <2>1. job[w].seq \in Seq /\ None \notin Seq
    BY <1>2, JobRow, OutboxAssumption DEF Publish, Acknowledged
  <2>2. \E at \in {"sent", "mark"} : job' = [job EXCEPT ![w].at = at]
    BY <1>2 DEF Publish, Acknowledged
  <2>3. /\ job' \in [Worker -> [seq : Seq \cup {None}, at : {"idle", "publish", "sent", "mark"}]]
        /\ \A v \in Worker : job'[v].at = "idle" <=> job'[v].seq = None
    BY <2>1, <2>2 DEF TypeOK
  <2> QED
    BY <1>2, <2>1, <2>3 DEF Publish, Acknowledged, TypeOK
<1>3. CASE Mark(w) \/ Fail(w)
  <2>1. job[w].seq \in Seq /\ job[w].at # "idle"
    BY <1>3, JobRow DEF Mark, Fail
  <2> DEFINE RowType_ == [fate : Fate, lease : Worker \cup {None}, live : BOOLEAN, ready : BOOLEAN]
  <2>2. rows[job[w].seq] \in RowType_
    BY <2>1 DEF TypeOK
  <2>3. PICK row \in RowType_ : Marked(w, row)
    BY <1>3, <2>2 DEF Mark, Fail, Fate
  <2> QED
    BY <2>1, <2>3, MarkedType
<1>4. CASE Crash(w)
  BY <1>4, OutboxAssumption DEF Crash, TypeOK, NoJob
<1> QED
  BY <1>1, <1>2, <1>3, <1>4

\* Rows, leases, the network and the receiver keep their types, and a worker is
\* idle exactly when it has no row.
THEOREM TypeCorrect == Spec => []TypeOK
<1>1. Init => TypeOK
  BY OutboxAssumption DEF Init, TypeOK, NoRowYet, NoJob, Fate
<1>2. TypeOK /\ [Next]_vars => TypeOK'
  <2> SUFFICES ASSUME TypeOK, [Next]_vars PROVE TypeOK'
    OBVIOUS
  <2>1. CASE UNCHANGED vars
    BY <2>1 DEF vars, TypeOK
  <2> QED
    BY <2>1, RowType, WorkerType DEF Next
<1> QED
  BY <1>1, <1>2, PTL DEF Spec

------------------------------------------------------------------------------
\* What a worker knows of its row: only rows about an agreement are sent, and one
\* that is about to be marked has reached the receiver.
Knows(w) ==
  /\ job[w].at \in {"publish", "sent"} => IsAgreementEvent(job[w].seq)
  /\ job[w].at = "mark" /\ IsAgreementEvent(job[w].seq) => job[w].seq \in inbox

\* What the receiver shows of an agreement is the newest of what it has about it.
Newest(a) ==
  /\ projection[a] = 0 \/ (projection[a] \in inbox /\ About[projection[a]] = a)
  /\ \A n \in inbox : About[n] = a => n <= projection[a]

Received ==
  /\ \A w \in Worker : Knows(w)
  /\ \A n \in net : IsAgreementEvent(n)
  /\ \A n \in Seq : rows[n].fate = "delivered" => n \in inbox
  /\ \A a \in Agr : Newest(a)

\* What workers do leaves the receiver alone.
LEMMA WorkerReceived ==
  ASSUME TypeOK, Received, NEW w \in Worker,
         \/ \E n \in Seq : Lease(w, n)
         \/ Publish(w) \/ Acknowledged(w) \/ Mark(w) \/ Fail(w) \/ Crash(w)
  PROVE  Received'
<1> USE DEF TypeOK, Received, Knows, Newest, IsAgreementEvent
<1>1. ASSUME NEW n \in Seq, Lease(w, n) PROVE Received'
  BY <1>1 DEF Lease
<1>2. CASE Publish(w)
  BY <1>2 DEF Publish
<1>3. CASE Acknowledged(w)
  BY <1>3 DEF Acknowledged
<1>4. CASE Mark(w)
  BY <1>4, JobRow DEF Mark, Marked, NoJob
<1>5. CASE Fail(w)
  BY <1>5, JobRow DEF Fail, Marked, NoJob
<1>6. CASE Crash(w)
  BY <1>6 DEF Crash, NoJob
<1> QED
  BY <1>1, <1>2, <1>3, <1>4, <1>5, <1>6

\* The receiver applies what is new to it and newer than what it shows.
LEMMA RowReceived ==
  ASSUME TypeOK, Received, NEW n \in Seq, CommitRow(n) \/ Receive(n) \/ LeaseEnds(n) \/ BackoffEnds(n)
  PROVE  Received'
<1> USE DEF TypeOK, Received, Knows, IsAgreementEvent
<1>1. CASE CommitRow(n)
  BY <1>1 DEF CommitRow, Newest
<1>2. CASE LeaseEnds(n)
  BY <1>2 DEF LeaseEnds, Newest
<1>3. CASE BackoffEnds(n)
  BY <1>3 DEF BackoffEnds, Newest
<1>4. CASE Receive(n)
  <2>1. About[n] \in Agr /\ inbox' = inbox \cup {n} /\ inbox' \subseteq Seq
    BY <1>4, OutboxAssumption DEF Receive
  <2>2. ASSUME NEW a \in Agr PROVE Newest(a)'
    <3>1. projection[a] \in Int /\ \A m \in Seq : m \in Int
      BY Numbers
    <3>2. CASE a # About[n]
      <4>1. projection'[a] = projection[a]
        BY <1>4, <3>2 DEF Receive
      <4> QED
        BY <2>1, <3>1, <3>2, <4>1 DEF Newest
    <3>3. CASE a = About[n] /\ n \notin inbox /\ n > projection[a]
      <4>1. projection'[a] = n
        BY <1>4, <3>3 DEF Receive
      <4> QED
        BY <2>1, <3>1, <3>3, <4>1 DEF Newest
    <3>4. CASE a = About[n] /\ ~(n \notin inbox /\ n > projection[a])
      <4>1. projection'[a] = projection[a]
        BY <1>4, <3>4 DEF Receive
      <4>2. n <= projection[a]
        BY <3>1, <3>4 DEF Newest
      <4> QED
        BY <2>1, <3>1, <3>4, <4>1, <4>2 DEF Newest
    <3> QED
      BY <3>2, <3>3, <3>4
  <2> QED
    BY <1>4, <2>1, <2>2 DEF Receive
<1> QED
  BY <1>1, <1>2, <1>3, <1>4

LEMMA AlwaysReceived == Spec => []Received
<1>1. Init => Received
  <2> SUFFICES ASSUME Init PROVE Received
    OBVIOUS
  <2>1. (\A w \in Worker : Knows(w)) /\ (\A n \in Seq : rows[n].fate = "delivered" => n \in inbox)
    BY DEF Init, Knows, NoRowYet, NoJob
  <2>2. (\A n \in net : IsAgreementEvent(n)) /\ (\A a \in Agr : Newest(a))
    BY DEF Init, Newest
  <2> QED
    BY <2>1, <2>2 DEF Received
<1>2. TypeOK /\ Received /\ [Next]_vars => Received'
  <2> SUFFICES ASSUME TypeOK, Received, [Next]_vars PROVE Received'
    OBVIOUS
  <2>1. CASE UNCHANGED vars
    BY <2>1 DEF vars, Received, Knows, Newest
  <2> QED
    BY <2>1, RowReceived, WorkerReceived DEF Next
<1> QED
  BY <1>1, <1>2, TypeCorrect, PTL DEF Spec

\* A row is marked delivered only when the receiver has its event, through lost
\* and late requests, leases taken over, crashes and stalls.
THEOREM DeliveryCorrect == Spec => []DeliveredWasReceived
<1>1. Received => DeliveredWasReceived
  BY DEF Received, DeliveredWasReceived
<1> QED
  BY <1>1, AlwaysReceived, PTL

\* In whatever order the rows of an agreement arrive, once all of them are
\* delivered the receiver shows the newest.
THEOREM ConvergenceCorrect == Spec => []ReceiverConverges
<1>1. TypeOK /\ Received => ReceiverConverges
  <2> SUFFICES ASSUME TypeOK, Received, NEW a \in Agr,
                      {n \in Seq : About[n] = a} # {},
                      \A n \in {m \in Seq : About[m] = a} : rows[n].fate = "delivered"
               PROVE  projection[a] = Max({n \in Seq : About[n] = a})
    BY DEF ReceiverConverges
  <2> DEFINE mine == {n \in Seq : About[n] = a}
  <2>1. mine \subseteq inbox /\ Newest(a) /\ inbox \subseteq Seq
    BY DEF TypeOK, Received
  <2>2. projection[a] \in Seq \cup {0} /\ \A n \in mine : n \in Int /\ n >= 0
    BY Numbers DEF TypeOK
  <2>3. \A n \in mine : projection[a] >= n
    BY <2>1, <2>2 DEF Newest
  <2>4. projection[a] \in mine
    <3>1. CASE projection[a] = 0
      <4>1. PICK n \in mine : TRUE
        OBVIOUS
      <4>2. n = 0
        BY <2>2, <2>3, <3>1
      <4> QED
        BY <3>1, <4>1, <4>2
    <3>2. CASE projection[a] \in inbox /\ About[projection[a]] = a
      BY <2>1, <3>2
    <3> QED
      BY <2>1, <3>1, <3>2 DEF Newest
  <2> HIDE DEF mine
  <2>5. \A m \in mine : (\A n \in mine : m >= n) => m = projection[a]
    <3> DEFINE top == projection[a]
    <3>1. top \in mine /\ top \in Int
      BY <2>2, <2>4
    <3> HIDE DEF top
    <3>2. \A m \in mine : m >= top /\ top >= m => m = top
      BY <2>2, <3>1
    <3> QED
      BY <2>3, <3>1, <3>2 DEF top
  <2> QED
    BY <2>3, <2>4, <2>5 DEF Max, mine
<1> QED
  BY <1>1, AlwaysReceived, TypeCorrect, PTL
=============================================================================
