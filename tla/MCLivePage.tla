----------------------------- MODULE MCLivePage ------------------------------
(* A small page: one token, two retrained models with different numbers;   *)
(* and the arithmetic of the study it shows (StudyChecks).                 *)
EXTENDS LivePage, StudyChecks

CONSTANT t
OneToken == {t}
TwoInFlight == {1, 2}
TwoSettings == {"low", "high"}
Alternating(r) == IF r % 2 = 0 THEN "low" ELSE "high"
=============================================================================
