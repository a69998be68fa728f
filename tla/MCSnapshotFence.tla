--------------------------- MODULE MCSnapshotFence ---------------------------
EXTENDS SnapshotFence

CONSTANTS q1, g1
=============================================================================
