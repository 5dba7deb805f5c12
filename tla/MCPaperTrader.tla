---------------------------- MODULE MCPaperTrader -----------------------------
(* PaperTrader for TLC: no file, or that of an early version, in which a   *)
(* quote without a price had closed a position at nothing; and what the    *)
(* server says of its book and its study (AnswerChecks).                   *)
EXTENDS PaperTrader, AnswerChecks

CONSTANTS a, b

ClosedAtNothing ==
  <<[mint |-> a, openedAt |-> 0, worthless |-> TRUE, missedQuotes |-> 0, breaches |-> 1,
     exit |-> "stop_loss", priced |-> <<>>, answers |-> <<>>]>>
FirstOrEarly == {<<>>, ClosedAtNothing}
=============================================================================
