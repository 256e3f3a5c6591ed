--------------------------- MODULE MCNgnTransfers ---------------------------
\* Two orders of one amount, at addresses of their own.  The
\* first is under way, its crypto swept and its deposit not seen yet, when the
\* second is accepted.
EXTENDS NgnTransfers

OwnAddress == [o \in Order |-> o]
OneAmount == [o \in Order |-> 100]

Underway ==
  /\ rows = [o \in Order |-> IF o = 1 THEN Moved(Absent, "settlement_processing") ELSE Absent]
  /\ deals = [o \in Order |-> NoDeal]
  /\ due = {} /\ delivered = 0 /\ faults = 0
  /\ write = [h \in Handler |-> NoWrite] /\ recon = IdlePass

MCSpec == Underway /\ [][Next]_vars /\ Fairness
=============================================================================
