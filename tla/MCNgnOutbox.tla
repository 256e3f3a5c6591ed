---------------------------- MODULE MCNgnOutbox ----------------------------
\* Two rows of one agreement, with a deposit's row between them; a row of an
\* agreement whose seller has no linked channel comes first of all.
EXTENDS NgnOutbox

CONSTANTS lone, job1

MCAbout == [n \in Seq |-> CASE n = 1 -> lone [] n \in {2, 4} -> job1 [] OTHER -> Deposit]
=============================================================================
