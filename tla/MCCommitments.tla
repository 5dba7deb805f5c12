---------------------------- MODULE MCCommitments -----------------------------
(* Commitments for TLC: names, vocabularies and tokens.                    *)
EXTENDS Commitments

CONSTANTS x, y, t, u

TwoNames == {x, y}
OneToken == {t}
TwoTokens == {t, u}

SameWords == [p \in Personas |-> Names]
LastName == [p \in Personas |-> IF p = 1 THEN Names ELSE {y}]

AllX == [k \in Tokens |-> x]
XandY == [k \in Tokens |-> IF k = t THEN x ELSE y]
AtOnce == [k \in Tokens |-> 1]
Later == [k \in Tokens |-> IF k = t THEN 1 ELSE 2]

(* Next of a disk that takes every append: MCServers has the failing ones.*)
NextLogged ==
  \/ Tick \/ RunCycle \/ SaveState \/ Restart
  \/ \E k \in Personas : KilledInRun(k) \/ Serve(k)
  \/ \E k \in Tokens : Watch(k) \/ Label(k) \/ Remove(k)
SpecLogged == Init /\ [][NextLogged]_vars
=============================================================================
