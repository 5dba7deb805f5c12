----------------------------- MODULE TradeService -----------------------------
(***************************************************************************)
(* The server's side of quick buy: server/trade/service.ts with the gates  *)
(* of engine/tradeSignal.ts, the router behind server/trade/kyber.ts and   *)
(* the routes under app/api/trade.                                         *)
(*                                                                         *)
(* A token is offered while it passes its own gates, shares its symbol     *)
(* with no other watched token, and has a recent answer of the router that *)
(* it can be bought and sold back.  A timer asks the router about          *)
(* candidates; a buyer told that there is no route overwrites the answer.  *)
(* The agent changes the watch, the model and the jar at any time, so      *)
(* every await below is a place where an offer may have ended.             *)
(*                                                                         *)
(* Time is counted in ticks of a minute, answers carry their age.  A check *)
(* (two calls of 12 s and two gaps) or a request (two calls) lets at most  *)
(* one tick pass.  The server is live: a simulated one serves nothing.     *)
(***************************************************************************)
EXTENDS Integers, FiniteSets, Sequences, SequencesExt

CONSTANTS
  Tokens, Visitors, NoToken,
  Namings,        \* who may be called what: functions from Tokens to symbols
  Ranking,        \* Tokens from the highest score to the lowest
  Enabled,        \* the QUICK_BUY switch
  EthTtl, NoTtl, OkTtl, MaxAge,   \* ETH_USD_TTL, NO_MARKET_TTL, MARKET_OK_TTL, MARKET_MAX_AGE
  Minute,         \* the window of BUILDS_PER_MINUTE
  ChecksPerRun, BuildsPerMinute,
  MaxErrors,      \* bound: calls that fail or time out
  MaxChanges      \* bound: changes of the watch, the model and the jar

ASSUME TradeAssumption ==
  /\ NoToken \notin Tokens /\ Enabled \in BOOLEAN /\ MaxErrors \in Nat /\ MaxChanges \in Nat
  /\ {EthTtl, NoTtl, OkTtl, MaxAge, Minute, ChecksPerRun, BuildsPerMinute} \subseteq Nat \ {0}
  /\ NoTtl < OkTtl /\ OkTtl < MaxAge

(* Ages stop where the code tells no more apart: a missing market is asked *)
(* about again from NoTtl on, as a token with no answer is.                *)
Answer(ok, began) == [ok |-> ok, age |-> 0, began |-> IF ok THEN began ELSE 0]
NoAnswer == [Answer(FALSE, 0) EXCEPT !.age = NoTtl]
Idle == [step |-> "idle", side |-> "buy", token |-> NoToken, late |-> FALSE]

VARIABLES
  status,   \* of a watched token: passes its own gates, fails one, or is labelled and gone
  symbol, jar,
  markets,  \* the router's last answer about a token; began is the age of the question (history)
  eth,      \* age of the cached ETH price, EthTtl + 1 when there is none
  checker,  \* the market check under way: what it awaits, the tokens left
  request,  \* a visitor's quote or build: what it awaits, or the quote the page holds
  builds,   \* ages of a wallet's recent builds
  told,     \* history: age of the last "no market" told to a buyer of a token
  offered,  \* history: age of the last state that offered a token a build is under way for
  errors, changes

world == <<status, symbol, jar, changes>>
vars == <<world, markets, eth, checker, request, builds, told, offered, errors>>

-----------------------------------------------------------------------------
Watched == {t \in Tokens : status[t] # "gone"}
Copied(t) == \E u \in Watched \ {t} : symbol[u] = symbol[t]
NeedsMarketCheck(t) == status[t] = "fit" /\ ~Copied(t)
Judged(t) == markets[t].age < MaxAge
State(t) == IF ~(NeedsMarketCheck(t) /\ markets[t].ok /\ Judged(t)) THEN "none"
            ELSE IF jar THEN "active" ELSE "disabled"
Active(t) == State(t) = "active"
AssertBuyable(t) == Enabled /\ Active(t)

(* signals: active first, then disabled, then the rest; higher scores      *)
(* first.                                                                  *)
Ranked(state) == SelectSeq(Ranking, LAMBDA t : t \in Watched /\ State(t) = state)
Signals == Ranked("active") \o Ranked("disabled") \o Ranked("none")

Stale(t) == markets[t].age >= IF markets[t].ok THEN OkTtl ELSE NoTtl
(* A mutant, like the definitions marked so below.                         *)
DueAgain == LET due == SelectSeq(Signals, NeedsMarketCheck)
            IN SubSeq(due, 1, IF Len(due) < ChecksPerRun THEN Len(due) ELSE ChecksPerRun)
Due == LET due == SelectSeq(Signals, LAMBDA t : NeedsMarketCheck(t) /\ Stale(t))
       IN SubSeq(due, 1, IF Len(due) < ChecksPerRun THEN Len(due) ELSE ChecksPerRun)

Sleeping == [step |-> "sleep", due |-> <<>>, late |-> FALSE]
Started(due) == IF due = <<>> THEN Sleeping ELSE [step |-> "buy", due |-> due, late |-> FALSE]
EthFresh == eth < EthTtl
EthKnown == eth <= EthTtl

Init ==
  /\ status \in [Tokens -> {"fit", "unfit"}] /\ symbol \in Namings /\ jar \in BOOLEAN
  /\ markets = [t \in Tokens |-> NoAnswer] /\ eth = EthTtl + 1
  /\ checker = [Sleeping EXCEPT !.late = TRUE] /\ request = [v \in Visitors |-> Idle]
  /\ builds = [v \in Visitors |-> <<>>]
  /\ told = [t \in Tokens |-> 2] /\ offered = [t \in Tokens |-> 2]
  /\ errors = 0 /\ changes = 0

-----------------------------------------------------------------------------
(* External: the agent labels a token, scores it anew or learns its peak,  *)
(* and the jar fills or empties with every model.                          *)
Change ==
  /\ changes < MaxChanges /\ changes' = changes + 1
  /\ \/ /\ \E t \in Watched : \E s \in {"fit", "unfit", "gone"} \ {status[t]} :
             status' = [status EXCEPT ![t] = s]
        /\ UNCHANGED jar
     \/ jar' = ~jar /\ UNCHANGED status
  /\ UNCHANGED <<symbol, markets, eth, checker, request, builds, errors>>

(* External: fetch.  A failure is a refusal, a 429, an answer that cannot  *)
(* be read, or the timeout.                                                *)
Fails == errors < MaxErrors /\ errors' = errors + 1
Answers == UNCHANGED errors

(* ethUsd: asked when the cached price is a minute old; when the call      *)
(* fails the last known price serves, however old.                         *)
EthAnswers == Answers /\ eth' = 0
EthServedStale == Fails /\ EthKnown /\ UNCHANGED eth
EthUnavailable == Fails /\ ~EthKnown /\ UNCHANGED eth

(* refreshMarkets: the candidates due are chosen and the answers about     *)
(* tokens no longer watched dropped.                                       *)
Prune == markets' = [t \in Tokens |-> IF t \in Watched THEN markets[t] ELSE NoAnswer]
RunStarts ==
  /\ checker.step = "sleep" /\ checker.late
  /\ Prune
  /\ checker' = IF EthFresh \/ Due = <<>> THEN Started(Due)
                ELSE [step |-> "eth", due |-> Due, late |-> FALSE]
  /\ UNCHANGED <<world, eth, request, builds, errors>>

CheckerEth ==
  /\ checker.step = "eth"
  /\ \/ (EthAnswers \/ EthServedStale) /\ checker' = Started(checker.due)
     \/ EthUnavailable /\ checker' = Sleeping
  /\ UNCHANGED <<world, markets, request, builds>>

NextToken == checker' = Started(Tail(checker.due))
Found(ok) ==
  markets' = [markets EXCEPT ![Head(checker.due)] = Answer(ok, IF checker.late THEN 1 ELSE 0)]

(* One check: the test buy, then the sale of what it would bring, which    *)
(* must return all but a part of the ETH.                                  *)
BuyAnswered ==
  /\ checker.step = "buy"
  /\ \/ Answers /\ checker' = [checker EXCEPT !.step = "sale"] /\ UNCHANGED markets
     \/ Answers /\ Found(FALSE) /\ NextToken
     \/ Fails /\ NextToken /\ UNCHANGED markets
  /\ UNCHANGED <<world, eth, request, builds>>
SaleAnswered ==
  /\ checker.step = "sale"
  /\ \/ Answers /\ \E ok \in BOOLEAN : Found(ok) /\ NextToken
     \/ Fails /\ NextToken /\ UNCHANGED markets
  /\ UNCHANGED <<world, eth, request, builds>>

-----------------------------------------------------------------------------
Awaits(v, step, side, t) ==
  request' = [request EXCEPT ![v] = [step |-> step, side |-> side, token |-> t, late |-> FALSE]]
Moves(v, step) == request' = [request EXCEPT ![v].step = step, ![v].late = @ /\ step # "holds"]
Ends(v) == request' = [request EXCEPT ![v] = Idle]

(* POST quote.  A buy is sized at the ETH price; a sale is never gated and *)
(* has its proceeds priced at the end.                                     *)
QuoteBuy(v, t) ==
  /\ request[v].step \in {"idle", "holds"} /\ AssertBuyable(t)
  /\ Awaits(v, IF EthFresh THEN "route" ELSE "price", "buy", t)
  /\ UNCHANGED <<world, markets, eth, checker, builds, errors>>
QuoteSell(v, t) ==
  /\ request[v].step \in {"idle", "holds"}
  /\ Awaits(v, "route", "sell", t)
  /\ UNCHANGED <<world, markets, eth, checker, builds, errors>>

QuotePriced(v) ==
  /\ request[v].step = "price"
  /\ \/ (EthAnswers \/ EthServedStale) /\ Moves(v, IF request[v].side = "buy" THEN "route" ELSE "holds")
     \/ EthUnavailable /\ Ends(v)
  /\ UNCHANGED <<world, markets, checker, builds>>

(* No route for a buy is an answer about the market, written at once; for  *)
(* a sale it is only told.                                                 *)
NotWritten(t) == UNCHANGED markets   \* mutant
NoRouteFound(t) == markets' = [markets EXCEPT ![t] = Answer(FALSE, 0)]
RouteAnswered(v) ==
  /\ request[v].step = "route"
  /\ \/ Answers /\ UNCHANGED markets
             /\ Moves(v, IF request[v].side = "sell" /\ ~EthFresh THEN "price" ELSE "holds")
     \/ Answers /\ Ends(v) /\ IF request[v].side = "buy" THEN NoRouteFound(request[v].token) ELSE UNCHANGED markets
     \/ Fails /\ Ends(v) /\ UNCHANGED markets
  /\ UNCHANGED <<world, eth, checker, builds>>

(* limit: builds of a wallet in the last minute.                           *)
Limit(v) == Len(builds[v]) < BuildsPerMinute /\ builds' = [builds EXCEPT ![v] = Append(@, 0)]

(* POST build, with the route a quote returned.  The gates are asked       *)
(* again; the dollar size again, where the price may have to be awaited.   *)
BuildUngated(v) == TRUE   \* mutant
BuildGate(v) == request[v].side = "sell" \/ AssertBuyable(request[v].token)
Build(v) ==
  /\ request[v].step = "holds" /\ BuildGate(v)
  /\ IF request[v].side = "sell" \/ EthFresh
     THEN Awaits(v, "calldata", request[v].side, request[v].token) /\ Limit(v)
     ELSE Awaits(v, "size", "buy", request[v].token) /\ UNCHANGED builds
  /\ UNCHANGED <<world, markets, eth, checker, errors>>
BuildSized(v) ==
  /\ request[v].step = "size"
  /\ \/ (EthAnswers \/ EthServedStale) /\ Moves(v, "calldata") /\ Limit(v)
     \/ (EthAnswers \/ EthServedStale \/ EthUnavailable) /\ Ends(v) /\ UNCHANGED builds  \* too large, too often, no price
  /\ UNCHANGED <<world, markets, checker>>
Issues(v) == request[v].step = "calldata" /\ Answers /\ Ends(v)
CalldataAnswered(v) ==
  /\ \/ Issues(v)
     \/ request[v].step = "calldata" /\ Fails /\ Ends(v)
  /\ UNCHANGED <<world, markets, eth, checker, builds>>

(* The dialog is closed, or the page left.                                 *)
Abandon(v) ==
  /\ request[v].step = "holds" /\ Ends(v)
  /\ UNCHANGED <<world, markets, eth, checker, builds, errors>>

-----------------------------------------------------------------------------
InFlight(v) == request[v].step \notin {"idle", "holds"}
Older(age, top) == IF age < top THEN age + 1 ELSE top
Tick ==
  /\ ~checker.late /\ \A v \in Visitors : ~request[v].late
  /\ markets' = [t \in Tokens |->
       IF markets[t].ok
       THEN [ok |-> TRUE, age |-> Older(markets[t].age, MaxAge), began |-> Older(markets[t].began, MaxAge + 1)]
       ELSE [markets[t] EXCEPT !.age = Older(@, NoTtl)]]
  /\ eth' = IF EthKnown THEN Older(eth, EthTtl) ELSE eth
  /\ checker' = [checker EXCEPT !.late = TRUE]
  /\ request' = [v \in Visitors |-> [request[v] EXCEPT !.late = InFlight(v)]]
  /\ builds' = [v \in Visitors |-> SelectSeq([i \in DOMAIN builds[v] |-> builds[v][i] + 1],
                                             LAMBDA age : age < Minute)]
  /\ UNCHANGED <<world, errors>>

Check == RunStarts \/ CheckerEth \/ BuyAnswered \/ SaleAnswered
Visit(v) ==
  \/ \E t \in Tokens : QuoteBuy(v, t) \/ QuoteSell(v, t)
  \/ QuotePriced(v) \/ RouteAnswered(v) \/ Build(v) \/ BuildSized(v)
  \/ CalldataAnswered(v) \/ Abandon(v)

(* What the properties remember.                                           *)
Tells(t) == \E v \in Visitors :
  /\ request[v].step = "route" /\ request[v].side = "buy" /\ request[v].token = t
  /\ request'[v] = Idle /\ errors' = errors
Building(t) == \E v \in Visitors : request[v].token = t /\ request[v].step \in {"size", "calldata"}
Remember(aged) ==
  /\ told' = [t \in Tokens |-> IF Tells(t) THEN 0 ELSE IF aged THEN Older(told[t], 2) ELSE told[t]]
  /\ offered' = [t \in Tokens |->
       IF ~Building(t)' THEN 2 ELSE IF Active(t)' THEN 0 ELSE IF aged THEN Older(offered[t], 2) ELSE offered[t]]

Next ==
  \/ (Change \/ Check \/ \E v \in Visitors : Visit(v)) /\ Remember(FALSE)
  \/ Tick /\ Remember(TRUE)

Spec == Init /\ [][Next]_vars

(* The timer fires, and every call ends by its timeout.                    *)
Reply(v) == QuotePriced(v) \/ RouteAnswered(v) \/ BuildSized(v) \/ CalldataAnswered(v)
FairSpec ==
  /\ Spec /\ WF_checker(Tick) /\ WF_checker(Check)
  /\ \A v \in Visitors : WF_request(Reply(v))

-----------------------------------------------------------------------------
Age == 0..MaxAge
TypeOK ==
  /\ status \in [Tokens -> {"fit", "unfit", "gone"}] /\ symbol \in Namings /\ jar \in BOOLEAN
  /\ markets \in [Tokens -> [ok : BOOLEAN, age : Age, began : 0..MaxAge + 1]]
  /\ eth \in 0..EthTtl + 1
  /\ checker.step \in {"sleep", "eth", "buy", "sale"} /\ checker.late \in BOOLEAN
  /\ checker.due \in Seq(Tokens) /\ Len(checker.due) <= ChecksPerRun
  /\ (checker.step = "sleep") = (checker.due = <<>>)
  /\ \A v \in Visitors :
       /\ request[v].step \in {"idle", "price", "route", "holds", "size", "calldata"}
       /\ request[v].side \in {"buy", "sell"} /\ request[v].late \in BOOLEAN
       /\ request[v].token \in Tokens \cup {NoToken}
       /\ builds[v] \in Seq(0..Minute - 1) /\ Len(builds[v]) <= BuildsPerMinute
  /\ told \in [Tokens -> 0..2] /\ offered \in [Tokens -> 0..2]
  /\ errors \in 0..MaxErrors /\ changes \in 0..MaxChanges

(* An offer rests on a check begun less than half an hour and one check    *)
(* ago, and not before the last buyer was told that there is no market, by *)
(* more than the one check that may have been under way: the timer, the    *)
(* buyers and the age of an answer withdraw it between them, whatever the  *)
(* order of their writes (refreshMarkets, quoteBuy, judge).                *)
OfferIsFresh == \A t \in Tokens : Active(t) =>
  /\ markets[t].began <= MaxAge
  /\ told[t] < 2 => markets[t].began <= told[t] + 1

(* Calldata for a buy is only handed out for a token that was on offer at  *)
(* most a minute before, however long the dialog was open and whatever     *)
(* left the watch meanwhile (build asks the gates again).                  *)
SwapsWereOffered == [][\A v \in Visitors :
  Issues(v) /\ request[v].side = "buy" => offered[request[v].token] <= 1]_vars

(* A candidate whose answer is missing or old is asked about, or stops     *)
(* being a candidate, although a run asks about a few tokens only and the  *)
(* better scored come first; as long as there are no more candidates than  *)
(* the runs can ask about before a missing market is due again.  With more *)
(* the better scored are due again first, and the last is never asked      *)
(* (refreshMarkets).                                                       *)
Waiting(t) == NeedsMarketCheck(t) /\ Stale(t)
Crowded == Cardinality({t \in Tokens : NeedsMarketCheck(t)}) > ChecksPerRun * NoTtl
CandidatesChecked == \A t \in Tokens : Waiting(t) /\ ~Crowded ~> ~Waiting(t) \/ Crowded
=============================================================================
