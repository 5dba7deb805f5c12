---------------------------- MODULE MCHolderCounts ----------------------------
(* HolderCounts for TLC: tokens by venue and by when they were launched.   *)
EXTENDS HolderCounts

CONSTANTS c, d, h   \* a live curve, a live pool and a curve of history

LiveOnes == {c, d}
LiveAndPast == {c, d, h}
PastCurve == {h}
AllCurves == {c, h}
=============================================================================
