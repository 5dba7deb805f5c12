----------------------------- MODULE CommitReveal -----------------------------
(***************************************************************************)
(* What Wassily promises about its ideas (README, "Ideas Wassily writes",  *)
(* points 4 and 5): an idea is committed before anyone can see it, a       *)
(* commitment is never withdrawn, and a name recorded as taken is not      *)
(* committed again.  Commitments.tla and PythonBackend.tla implement it.   *)
(***************************************************************************)
EXTENDS Sequences

VARIABLES
  committed,   \* rows of the commitment log: records with a persona and a name
  revealed,    \* rows some reader has been shown
  retired      \* <<persona, name>>: durably recorded as taken

vars == <<committed, revealed, retired>>

Init == committed = {} /\ revealed = {} /\ retired = {}

(* A save that follows the commitments may retire names in the same step,  *)
(* none of which is among them.                                            *)
Commit ==
  /\ committed \subseteq committed' /\ retired \subseteq retired'
  /\ \A row \in committed' \ committed : <<row.persona, row.name>> \notin retired'
  /\ UNCHANGED revealed

Reveal ==
  /\ revealed \subseteq revealed' /\ revealed' \subseteq committed
  /\ UNCHANGED <<committed, retired>>

Retire ==
  /\ retired \subseteq retired'
  /\ UNCHANGED <<committed, revealed>>

Next == Commit \/ Reveal \/ Retire

Spec == Init /\ [][Next]_vars
=============================================================================
