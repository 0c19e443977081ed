--------------------------- MODULE MCPoolCapacity ---------------------------
EXTENDS PoolCapacity
CONSTANTS v1, v2, n1
MCSourceOf == [n \in {n1} |-> v1]
=============================================================================
