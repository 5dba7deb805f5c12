------------------------------ MODULE MCIngest ------------------------------
(* Small chains for the model checker.  History ends at Edge - 1, so the   *)
(* launches below Edge are the backfill's and the slow loop's.             *)
EXTENDS Ingest

L(t, b, c) == [token |-> t, block |-> b, curve |-> c]

(* A curve of history that graduates in the live window, and a live pool.  *)
PastAndLive == {L("a", 3, TRUE), L("a", 6, FALSE), L("d", 5, FALSE)}

(* A pool of history, and a curve and a pool of the live window.           *)
Mixed == {L("b", 4, FALSE), L("c", 6, TRUE), L("d", 6, FALSE)}

AllTokens == {"a", "b", "c", "d", "e", "x"}
=============================================================================
