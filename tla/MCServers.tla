------------------------------- MODULE MCServers ------------------------------
(* Both implementations of the server (Servers) for TLC.                   *)
EXTENDS Servers

CONSTANTS x, y, t, u

(* The first token has a curve in the history and, once it graduated, a    *)
(* pool in the live window, one of which the server meets first; the       *)
(* second a pool in the history.  A round looks up one of the two pools.   *)
(* The first run may write the first token's name.                         *)
Pool(token, block, curve) == [token |-> token, block |-> block, curve |-> curve]
ThreePools == {Pool(t, 1, TRUE), Pool(u, 2, FALSE), Pool(t, 3, FALSE)}
TwoTokens == {t, u}
TwoNames == {x, y}
XandY == [k \in TwoTokens |-> IF k = t THEN x ELSE y]
OnlyX == <<{}, {x}>>        \* the first persona finds no names
OneIfLive == [isLive \in BOOLEAN |-> IF isLive THEN 1 ELSE 2]

(* Node: the second token is launched an hour after the first.             *)
AnyName == <<{}, TwoNames>>
Later == [k \in TwoTokens |-> IF k = t THEN 1 ELSE 2]
=============================================================================
