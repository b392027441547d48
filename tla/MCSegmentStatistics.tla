------------------------ MODULE MCSegmentStatistics ------------------------
\* Two transfers of one day or of two, full runs of one process.
EXTENDS SegmentStatistics, TLC

CONSTANTS d1, d2, f1, f2, p1

TwoDays == (d1 :> 1) @@ (d2 :> 2)
SameDay == (d1 :> 1) @@ (d2 :> 1)
OneProcess == [r \in Full |-> p1]
=============================================================================
