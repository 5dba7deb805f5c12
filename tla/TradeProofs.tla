------------------------------ MODULE TradeProofs ------------------------------
(***************************************************************************)
(* Proofs about TradeService, for any tokens, visitors, rankings, ages and *)
(* bounds: an offer rests on a recent check and gives way to a buyer who   *)
(* was told that there is no market, and calldata is for tokens that were  *)
(* on offer a minute before at most.  Last, about the session of Wallet    *)
(* (W), for any run of events.                                             *)
(***************************************************************************)
EXTENDS TradeService, SequenceTheorems, WellFoundedInduction, TLAPS

CONSTANTS None, Throws, Chain, Router, NoRouteCodes, MaxPlaces, UsualPlaces,
          MinUsd, MaxUsd, DefaultUsd, MinSlippage, MaxSlippage, DefaultSlippage, MaxToasts
W == INSTANCE Wallet

-----------------------------------------------------------------------------
(* What the invariants need to know of types: all of TypeOK but the order  *)
(* of a run's tokens and the ages of builds, which SelectSeq makes.        *)
Steps == {"idle", "price", "route", "holds", "size", "calldata"}
Request == [step : Steps, side : {"buy", "sell"}, token : Tokens \cup {NoToken}, late : BOOLEAN]
Market == [ok : BOOLEAN, age : Age, began : 0..MaxAge + 1]
Checker(due) == [step : {"sleep", "eth", "buy", "sale"}, due : {due}, late : BOOLEAN]

WorldTyped == /\ status \in [Tokens -> {"fit", "unfit", "gone"}] /\ jar \in BOOLEAN
              /\ errors \in Nat /\ eth \in 0..EthTtl + 1
MarketsTyped == markets \in [Tokens -> Market]
CheckerTyped == checker \in Checker(checker.due)
RequestsTyped ==
  /\ request \in [Visitors -> Request]
  /\ \A v \in Visitors : request[v].step # "idle" => request[v].token \in Tokens
HistoryTyped == told \in [Tokens -> 0..2] /\ offered \in [Tokens -> 0..2]
Typed == WorldTyped /\ MarketsTyped /\ CheckerTyped /\ RequestsTyped /\ HistoryTyped

(* An answer that there is a market is at most one check older than it     *)
(* looks, and than what a buyer was told since.                            *)
Sound(t) == markets[t].ok =>
  /\ markets[t].began <= markets[t].age + 1
  /\ told[t] < 2 => markets[t].began <= told[t] + 1
AnswersSound == \A t \in Tokens : Sound(t)

(* A build for a buyer began on an offer, and a minute passes only once    *)
(* while it waits.                                                         *)
Backed(v) == request[v].side = "buy" /\ request[v].step \in {"size", "calldata"} =>
  offered[request[v].token] <= IF request[v].late THEN 1 ELSE 0
BuildsBacked == \A v \in Visitors : Backed(v)

Inv == Typed /\ AnswersSound /\ BuildsBacked

-----------------------------------------------------------------------------
LEMMA ConstantsTyped ==
  ASSUME TradeAssumption
  PROVE  /\ EthTtl \in Nat \ {0} /\ NoTtl \in Nat \ {0} /\ OkTtl \in Nat \ {0} /\ MaxAge \in Nat \ {0}
         /\ NoTtl < MaxAge /\ MaxErrors \in Nat /\ NoToken \notin Tokens
  BY DEF TradeAssumption

LEMMA NoAnswerTyped ==
  ASSUME TradeAssumption
  PROVE  NoAnswer \in Market /\ ~NoAnswer.ok
<1>1. Answer(FALSE, 0) = [ok |-> FALSE, age |-> 0, began |-> 0]
  BY Zenon DEF Answer
<1>2. NoAnswer = [ok |-> FALSE, age |-> NoTtl, began |-> 0]
  <2>1. ASSUME NEW ok
        PROVE  [[ok |-> ok, age |-> 0, began |-> 0] EXCEPT !.age = NoTtl] = [ok |-> ok, age |-> NoTtl, began |-> 0]
    OBVIOUS
  <2> QED BY <1>1, <2>1, Zenon DEF NoAnswer
<1>3. NoTtl \in Age /\ 0 \in 0..MaxAge + 1
  BY ConstantsTyped DEF Age
<1>4. NoAnswer \in Market
  BY <1>2, <1>3 DEF Market
<1> QED BY <1>2, <1>4

LEMMA AnswerTyped ==
  ASSUME TradeAssumption, NEW ok \in BOOLEAN, NEW began \in 0..1
  PROVE  /\ Answer(ok, began) \in Market /\ Answer(ok, began).ok = ok
         /\ Answer(ok, began).age = 0 /\ Answer(ok, began).began \in 0..1
  BY ConstantsTyped DEF Answer, Market, Age

LEMMA OlderBound ==
  ASSUME NEW top \in Nat, NEW age \in 0..top
  PROVE  Older(age, top) \in 0..top /\ Older(age, top) <= age + 1 /\ age <= Older(age, top)
         /\ (age < top => Older(age, top) = age + 1)
  BY DEF Older

-----------------------------------------------------------------------------
(* Types: the initial state and every step.                                *)
LEMMA InitTyped ==
  ASSUME TradeAssumption, Init
  PROVE  Typed
<1>1. MarketsTyped /\ HistoryTyped
  BY NoAnswerTyped DEF Init, MarketsTyped, HistoryTyped
<1>2. CheckerTyped
  BY DEF Init, CheckerTyped, Checker, Sleeping
<1>3. WorldTyped /\ RequestsTyped
  BY ConstantsTyped DEF Init, WorldTyped, RequestsTyped, Request, Steps, Idle
<1> QED BY <1>1, <1>2, <1>3 DEF Typed

(* The three ways in which a handler writes the request of its visitor.    *)
Others(v) == \A w \in Visitors \ {v} : request'[w] = request[w]

LEMMA AwaitsFacts ==
  ASSUME RequestsTyped, NEW v \in Visitors, NEW step \in Steps,
         NEW side \in {"buy", "sell"}, NEW t \in Tokens, Awaits(v, step, side, t)
  PROVE  /\ RequestsTyped' /\ Others(v)
         /\ request'[v] = [step |-> step, side |-> side, token |-> t, late |-> FALSE]
  BY DEF Awaits, RequestsTyped, Request, Others

LEMMA MovesFacts ==
  ASSUME RequestsTyped, NEW v \in Visitors, NEW step \in Steps,
         request[v].step # "idle", Moves(v, step)
  PROVE  /\ RequestsTyped' /\ Others(v)
         /\ request'[v].step = step /\ request'[v].side = request[v].side
         /\ request'[v].token = request[v].token
         /\ step # "holds" => request'[v].late = request[v].late
<1>1. request'[v] = [request[v] EXCEPT !.step = step, !.late = @ /\ step # "holds"]
  BY DEF Moves, RequestsTyped, Request
<1>2. request' \in [Visitors -> Request] /\ Others(v)
  BY ZenonT(60) DEF Moves, RequestsTyped, Request, Others
<1>3. request[v] \in Request
  BY DEF RequestsTyped
<1>4. /\ request'[v].step = step /\ request'[v].side = request[v].side
      /\ request'[v].token = request[v].token
      /\ request'[v].late = (request[v].late /\ step # "holds")
  BY <1>1, <1>3 DEF Request
<1>5. step # "holds" => request'[v].late = request[v].late
  BY <1>3, <1>4 DEF Request
<1>6. RequestsTyped'
  BY <1>2, <1>4 DEF RequestsTyped, Others
<1> QED BY <1>2, <1>4, <1>5, <1>6

LEMMA EndsFacts ==
  ASSUME RequestsTyped, NEW v \in Visitors, Ends(v)
  PROVE  RequestsTyped' /\ Others(v) /\ request'[v] = Idle
  BY DEF Ends, RequestsTyped, Request, Others, Idle, Steps

-----------------------------------------------------------------------------
(* What a step of a visitor does to its request, whatever the handler.     *)
LEMMA VisitFacts ==
  ASSUME TradeAssumption, Typed, NEW v \in Visitors, Visit(v)
  PROVE  RequestsTyped' /\ Others(v)
<1> USE DEF Typed
<1>1. ASSUME NEW t \in Tokens, QuoteBuy(v, t) \/ QuoteSell(v, t) PROVE RequestsTyped' /\ Others(v)
  BY <1>1, AwaitsFacts DEF QuoteBuy, QuoteSell, Steps
<1>2. ASSUME QuotePriced(v) PROVE RequestsTyped' /\ Others(v)
  BY <1>2, MovesFacts, EndsFacts DEF QuotePriced, Steps
<1>3. ASSUME RouteAnswered(v) PROVE RequestsTyped' /\ Others(v)
  BY <1>3, MovesFacts, EndsFacts DEF RouteAnswered, Steps
<1>4. ASSUME Build(v) PROVE RequestsTyped' /\ Others(v)
  <2>1. request[v].side \in {"buy", "sell"} /\ request[v].token \in Tokens
    BY <1>4 DEF Build, RequestsTyped, Request
  <2> QED BY <1>4, <2>1, AwaitsFacts DEF Build, Steps
<1>5. ASSUME BuildSized(v) PROVE RequestsTyped' /\ Others(v)
  BY <1>5, MovesFacts, EndsFacts DEF BuildSized, Steps
<1>6. ASSUME CalldataAnswered(v) \/ Abandon(v) PROVE RequestsTyped' /\ Others(v)
  BY <1>6, EndsFacts DEF CalldataAnswered, Issues, Abandon
<1> QED BY <1>1, <1>2, <1>3, <1>4, <1>5, <1>6 DEF Visit

(* The answers after a step that is no tick: kept, dropped, or new.        *)
Fresh(t) == \E ok \in BOOLEAN, began \in 0..1 : markets'[t] = Answer(ok, began)
AnswersMove == /\ DOMAIN markets' = Tokens /\ markets' = [t \in Tokens |-> markets'[t]]
               /\ \A t \in Tokens : markets'[t] = markets[t] \/ markets'[t] = NoAnswer \/ Fresh(t)

LEMMA FoundMoves ==
  ASSUME TradeAssumption, Typed, NEW ok \in BOOLEAN, Found(ok)
  PROVE  AnswersMove
<1> DEFINE began == IF checker.late THEN 1 ELSE 0
<1>1. markets' = [markets EXCEPT ![Head(checker.due)] = Answer(ok, began)] /\ began \in 0..1
  BY DEF Found
<1> HIDE DEF began
<1> QED BY <1>1 DEF Typed, MarketsTyped, AnswersMove, Fresh

LEMMA UnchangedMoves ==
  ASSUME Typed, UNCHANGED markets
  PROVE  AnswersMove
  BY DEF Typed, MarketsTyped, AnswersMove

LEMMA StartedTyped ==
  ASSUME NEW due
  PROVE  /\ Started(due) \in Checker(Started(due).due)
         /\ Sleeping \in Checker(Sleeping.due)
  BY DEF Started, Sleeping, Checker

(* A step of the checker.                                                  *)
LEMMA CheckFacts ==
  ASSUME TradeAssumption, Typed, Check
  PROVE  /\ UNCHANGED <<world, request>> /\ eth' \in 0..EthTtl + 1 /\ errors' \in Nat
         /\ CheckerTyped' /\ AnswersMove
<1> DEFINE G == /\ UNCHANGED <<world, request>> /\ eth' \in 0..EthTtl + 1 /\ errors' \in Nat
                /\ CheckerTyped' /\ AnswersMove
<1> USE DEF Typed
<1>1. ASSUME RunStarts PROVE G
  <2>1. checker' = Started(Due) \/ checker' = [step |-> "eth", due |-> Due, late |-> FALSE]
    BY <1>1 DEF RunStarts
  <2>2. CheckerTyped'
    <3>1. CASE checker' = Started(Due)
      BY <3>1, StartedTyped DEF CheckerTyped
    <3>2. CASE checker' = [step |-> "eth", due |-> Due, late |-> FALSE]
      BY <3>2 DEF CheckerTyped, Checker
    <3> QED BY <2>1, <3>1, <3>2
  <2>3. AnswersMove
    BY <1>1 DEF RunStarts, Prune, AnswersMove
  <2> QED BY <1>1, <2>2, <2>3 DEF RunStarts, WorldTyped
<1>2. ASSUME CheckerEth PROVE G
  <2>1. checker' = Started(checker.due) \/ checker' = Sleeping
    BY <1>2 DEF CheckerEth
  <2>2. CheckerTyped'
    BY <2>1, StartedTyped DEF CheckerTyped
  <2>3. eth' \in 0..EthTtl + 1 /\ errors' \in Nat
    BY <1>2, ConstantsTyped
       DEF CheckerEth, EthAnswers, EthServedStale, EthUnavailable, Answers, Fails, WorldTyped
  <2> QED BY <1>2, <2>2, <2>3, UnchangedMoves DEF CheckerEth
<1>3. ASSUME BuyAnswered \/ SaleAnswered PROVE G
  <2>1. checker' = Started(Tail(checker.due)) \/ checker' = [checker EXCEPT !.step = "sale"]
    BY <1>3 DEF BuyAnswered, SaleAnswered, NextToken
  <2>2. CheckerTyped'
    <3>1. CASE checker' = Started(Tail(checker.due))
      BY <3>1, StartedTyped DEF CheckerTyped
    <3>2. CASE checker' = [checker EXCEPT !.step = "sale"]
      BY <3>2 DEF CheckerTyped, Checker
    <3> QED BY <2>1, <3>1, <3>2
  <2>3. errors' \in Nat
    <3>1. errors' = errors \/ errors' = errors + 1
      BY <1>3 DEF BuyAnswered, SaleAnswered, Answers, Fails
    <3> QED BY <3>1 DEF WorldTyped
  <2>4. AnswersMove
    BY <1>3, FoundMoves, UnchangedMoves DEF BuyAnswered, SaleAnswered
  <2> QED BY <1>3, <2>2, <2>3, <2>4 DEF BuyAnswered, SaleAnswered, WorldTyped
<1> QED BY <1>1, <1>2, <1>3 DEF Check

(* A step of a visitor: it writes an answer only for a buyer whose router  *)
(* found no route, and there is one then.                                  *)
Writes(v, t) == request[v].step = "route" /\ request[v].side = "buy" /\ request[v].token = t

LEMMA VisitMarkets ==
  ASSUME TradeAssumption, Typed, NEW v \in Visitors, Visit(v)
  PROVE  /\ UNCHANGED <<world, checker>> /\ eth' \in 0..EthTtl + 1 /\ errors' \in Nat /\ AnswersMove
         /\ \A t \in Tokens : Writes(v, t) /\ request'[v] = Idle /\ errors' = errors => ~markets'[t].ok
<1> DEFINE G == /\ UNCHANGED <<world, checker>> /\ eth' \in 0..EthTtl + 1 /\ errors' \in Nat /\ AnswersMove
                /\ \A t \in Tokens : Writes(v, t) /\ request'[v] = Idle /\ errors' = errors => ~markets'[t].ok
<1> USE DEF Typed
<1>1. ASSUME RouteAnswered(v) PROVE G
  <2> DEFINE t == request[v].token
  <2>1. CASE Answers /\ Ends(v) /\ request[v].side = "buy" /\ NoRouteFound(t)
    <3>1. t \in Tokens
      BY <1>1 DEF RouteAnswered, RequestsTyped
    <3>2. markets' = [markets EXCEPT ![t] = Answer(FALSE, 0)]
      BY <2>1 DEF NoRouteFound
    <3>3. AnswersMove
      <4>1. markets'[t] = Answer(FALSE, 0)
        BY <3>1, <3>2 DEF MarketsTyped
      <4> DEFINE M == markets'[t]
      <4>2. \E ok \in BOOLEAN, began \in 0..1 : M = Answer(ok, began)
        <5> HIDE DEF M
        <5> WITNESS FALSE \in BOOLEAN, 0 \in 0..1
        <5> QED BY <4>1 DEF M
      <4>3. Fresh(t)
        BY <4>2 DEF Fresh
      <4> QED BY <3>1, <3>2, <4>3 DEF AnswersMove, MarketsTyped
    <3>4. ~markets'[t].ok
      BY <3>1, <3>2 DEF MarketsTyped, Answer
    <3> QED BY <1>1, <2>1, <3>3, <3>4 DEF RouteAnswered, Answers, WorldTyped, Writes
  <2>2. CASE Answers /\ Ends(v) /\ request[v].side # "buy" /\ UNCHANGED markets
    BY <1>1, <2>2, UnchangedMoves DEF RouteAnswered, Answers, WorldTyped, Writes
  <2>3. CASE Fails /\ Ends(v) /\ UNCHANGED markets
    <3>1. errors' \in Nat /\ errors' # errors
      BY <2>3 DEF Fails, WorldTyped
    <3> QED BY <1>1, <2>3, <3>1, UnchangedMoves DEF RouteAnswered, WorldTyped
  <2>4. CASE /\ Answers /\ UNCHANGED markets
             /\ Moves(v, IF request[v].side = "sell" /\ ~EthFresh THEN "price" ELSE "holds")
    <3>1. request'[v] # Idle
      BY <1>1, <2>4, MovesFacts DEF RouteAnswered, Steps, Idle
    <3> QED BY <1>1, <2>4, <3>1, UnchangedMoves DEF RouteAnswered, Answers, WorldTyped
  <2> QED BY <1>1, <2>1, <2>2, <2>3, <2>4 DEF RouteAnswered
<1>2. ASSUME ~RouteAnswered(v) PROVE G
  <2>1. ASSUME NEW t \in Tokens, QuoteBuy(v, t) \/ QuoteSell(v, t) PROVE G
    BY <2>1, UnchangedMoves DEF QuoteBuy, QuoteSell, Writes, WorldTyped
  <2>2. ASSUME QuotePriced(v) \/ BuildSized(v) PROVE G
    <3>1. eth' \in 0..EthTtl + 1 /\ errors' \in Nat
      BY <2>2, ConstantsTyped
         DEF QuotePriced, BuildSized, EthAnswers, EthServedStale, EthUnavailable, Answers, Fails, WorldTyped
    <3> QED BY <2>2, <3>1, UnchangedMoves DEF QuotePriced, BuildSized, Writes
  <2>3. ASSUME Build(v) PROVE G
    BY <2>3, UnchangedMoves DEF Build, Writes, WorldTyped
  <2>4. ASSUME CalldataAnswered(v) \/ Abandon(v) PROVE G
    <3>1. errors' \in Nat
      BY <2>4 DEF CalldataAnswered, Issues, Abandon, Answers, Fails, WorldTyped
    <3> QED BY <2>4, <3>1, UnchangedMoves DEF CalldataAnswered, Issues, Abandon, Writes, WorldTyped
  <2> QED BY <1>2, <2>1, <2>2, <2>3, <2>4 DEF Visit
<1> QED BY <1>1, <1>2

-----------------------------------------------------------------------------
(* Steps that are no ticks: the invariant's parts, one by one.             *)
LEMMA MoveTyped ==
  ASSUME TradeAssumption, Typed, AnswersMove
  PROVE  MarketsTyped'
<1>1. ASSUME NEW t \in Tokens PROVE markets'[t] \in Market
  BY <1>1, NoAnswerTyped, AnswerTyped DEF AnswersMove, Fresh, Typed, MarketsTyped
<1> QED BY <1>1 DEF AnswersMove, MarketsTyped

LEMMA RememberTyped ==
  ASSUME Typed, NEW aged \in BOOLEAN, Remember(aged)
  PROVE  HistoryTyped'
<1>1. ASSUME NEW t \in Tokens PROVE Older(told[t], 2) \in 0..2 /\ Older(offered[t], 2) \in 0..2
  BY OlderBound DEF Typed, HistoryTyped
<1> QED BY <1>1 DEF Remember, Typed, HistoryTyped

(* Whoever is told that there is no market finds it written.               *)
LEMMA ToldIsWritten ==
  ASSUME TradeAssumption, Typed, NEW v \in Visitors, Visit(v), NEW t \in Tokens, Tells(t)
  PROVE  ~markets'[t].ok
<1>1. PICK w \in Visitors : Writes(w, t) /\ request'[w] = Idle /\ errors' = errors
  BY DEF Tells, Writes
<1>2. w = v
  BY <1>1, VisitFacts DEF Others, Writes, Idle
<1> QED BY <1>1, <1>2, VisitMarkets

LEMMA MoveSound ==
  ASSUME TradeAssumption, Typed, AnswersSound, AnswersMove, Remember(FALSE),
         \A t \in Tokens : Tells(t) => ~markets'[t].ok
  PROVE  AnswersSound'
<1> SUFFICES ASSUME NEW t \in Tokens, markets'[t].ok
             PROVE  /\ markets'[t].began <= markets'[t].age + 1
                    /\ told'[t] < 2 => markets'[t].began <= told'[t] + 1
  BY DEF AnswersSound, Sound
<1>1. told'[t] = told[t] /\ told[t] \in 0..2
  BY DEF Remember, Typed, HistoryTyped
<1>2. CASE markets'[t] = markets[t]
  BY <1>1, <1>2 DEF AnswersSound, Sound
<1>3. CASE Fresh(t)
  <2>1. markets'[t].age = 0 /\ markets'[t].began \in 0..1
    BY <1>3, AnswerTyped DEF Fresh
  <2> QED BY <1>1, <2>1
<1> QED BY <1>2, <1>3, NoAnswerTyped DEF AnswersMove

(* Whether a token is offered, when the world and the answers are as they  *)
(* were.                                                                   *)
LEMMA ActiveStays ==
  ASSUME UNCHANGED <<world, markets>>, NEW t \in Tokens, Active(t)
  PROVE  Active(t)'
  BY DEF world, Active, State, NeedsMarketCheck, Copied, Watched, Judged

(* What a write leaves in the request.                                     *)
LEMMA Awaited ==
  ASSUME RequestsTyped, NEW v \in Visitors, NEW step, NEW side, NEW t, Awaits(v, step, side, t)
  PROVE  request'[v].step = step /\ request'[v].side = side /\ request'[v].token = t
<1>1. request'[v] = [step |-> step, side |-> side, token |-> t, late |-> FALSE]
  BY DEF Awaits, RequestsTyped
<1> QED BY <1>1

LEMMA Moved ==
  ASSUME RequestsTyped, NEW v \in Visitors, NEW step, Moves(v, step)
  PROVE  /\ request'[v].step = step /\ request'[v].side = request[v].side
         /\ request'[v].token = request[v].token
         /\ step # "holds" => request'[v].late = request[v].late
<1>1. request'[v] = [request[v] EXCEPT !.step = step, !.late = @ /\ step # "holds"]
  BY DEF Moves, RequestsTyped
<1>2. request[v] \in Request
  BY DEF RequestsTyped
<1>3. /\ request'[v].step = step /\ request'[v].side = request[v].side
      /\ request'[v].token = request[v].token
      /\ request'[v].late = (request[v].late /\ step # "holds")
  BY <1>1, <1>2 DEF Request
<1> QED BY <1>2, <1>3 DEF Request

(* A visitor's build waits for the price or for the calldata: it has been  *)
(* waiting for the one, or passed the gate in this step.                   *)
LEMMA BuildsFrom ==
  ASSUME Typed, NEW v \in Visitors, Visit(v),
         request'[v].side = "buy", request'[v].step \in {"size", "calldata"}
  PROVE  \/ Build(v) /\ Active(request'[v].token)
         \/ /\ request[v].side = "buy" /\ request[v].step = "size"
            /\ request'[v].token = request[v].token /\ request'[v].late = request[v].late
<1>1. RequestsTyped
  BY DEF Typed
<1>2. ~Ends(v)
  BY <1>1, EndsFacts DEF Idle
<1>3. ASSUME NEW t \in Tokens PROVE ~QuoteBuy(v, t) /\ ~QuoteSell(v, t)
  <2>1. ASSUME NEW step \in {"route", "price"}, NEW side, Awaits(v, step, side, t) PROVE FALSE
    BY <1>1, <2>1, Awaited
  <2> QED BY <2>1 DEF QuoteBuy, QuoteSell
<1>4. ASSUME NEW step \in {"route", "holds", "price"} PROVE ~Moves(v, step)
  BY <1>1, <1>4, Moved
<1>5. ~QuotePriced(v) /\ ~RouteAnswered(v) /\ ~CalldataAnswered(v) /\ ~Abandon(v)
  BY <1>2, <1>4 DEF QuotePriced, RouteAnswered, CalldataAnswered, Issues, Abandon
<1>6. CASE Build(v)
  <2>1. PICK step, side : Awaits(v, step, side, request[v].token) /\ (side = request[v].side \/ request[v].side # "sell")
    BY <1>6, Zenon DEF Build
  <2>2. request'[v].side = side /\ request'[v].token = request[v].token
    BY <1>1, <2>1, Awaited
  <2>3. request[v].side # "sell"
    BY <2>1, <2>2
  <2> QED BY <1>6, <2>2, <2>3 DEF Build, BuildGate, AssertBuyable
<1>7. CASE BuildSized(v)
  <2>1. request[v].step = "size" /\ Moves(v, "calldata")
    BY <1>2, <1>7 DEF BuildSized
  <2> QED BY <1>1, <2>1, Moved
<1> QED BY <1>3, <1>5, <1>6, <1>7 DEF Visit

LEMMA VisitBacked ==
  ASSUME TradeAssumption, Typed, BuildsBacked, NEW v \in Visitors, Visit(v), Remember(FALSE)
  PROVE  BuildsBacked'
<1> SUFFICES ASSUME NEW w \in Visitors, request'[w].side = "buy", request'[w].step \in {"size", "calldata"}
             PROVE  offered'[request'[w].token] <= IF request'[w].late THEN 1 ELSE 0
  BY DEF BuildsBacked, Backed
<1>1. PICK t \in Tokens : t = request'[w].token
  BY VisitFacts DEF RequestsTyped
<1>2. request'[w] \in Request /\ Others(v)
  BY VisitFacts DEF RequestsTyped
<1>3. Building(t)'
  BY <1>1 DEF Building
<1>4. offered'[t] = IF Active(t)' THEN 0 ELSE offered[t]
  BY <1>1, <1>3 DEF Remember
<1>5. CASE request[w].side = "buy" /\ request[w].step \in {"size", "calldata"}
           /\ request[w].token = t /\ request[w].late = request'[w].late
  BY <1>1, <1>2, <1>4, <1>5 DEF BuildsBacked, Backed, Request
<1>6. CASE Active(t)'
  BY <1>1, <1>2, <1>4, <1>6 DEF Request
<1>7. CASE w # v
  <2>1. request'[w] = request[w]
    BY <1>2, <1>7 DEF Others
  <2> QED BY <1>1, <1>5, <2>1
<1>8. CASE w = v /\ Build(v) /\ Active(t)
  <2>1. Active(t)'
    BY <1>8, ActiveStays DEF Build
  <2> QED BY <1>6, <2>1
<1> QED BY <1>1, <1>5, <1>7, <1>8, BuildsFrom

LEMMA ElsewhereBacked ==
  ASSUME Typed, BuildsBacked, UNCHANGED request, Remember(FALSE)
  PROVE  BuildsBacked'
<1> SUFFICES ASSUME NEW w \in Visitors, Backed(w) PROVE Backed(w)'
  BY DEF BuildsBacked
<1> SUFFICES ASSUME request[w].side = "buy", request[w].step \in {"size", "calldata"}
             PROVE  offered'[request[w].token] <= IF request[w].late THEN 1 ELSE 0
  BY DEF Backed
<1>1. request[w].token \in Tokens /\ request[w].late \in BOOLEAN
  BY DEF Typed, RequestsTyped, Request
<1>2. Building(request[w].token)'
  BY DEF Building
<1>3. offered'[request[w].token] \in {0, offered[request[w].token]}
  BY <1>1, <1>2 DEF Remember
<1> QED BY <1>1, <1>3 DEF Backed

-----------------------------------------------------------------------------
(* A tick ages what is kept.                                               *)
LEMMA TickTyped ==
  ASSUME TradeAssumption, Typed, Tick
  PROVE  WorldTyped' /\ MarketsTyped' /\ CheckerTyped' /\ RequestsTyped'
<1> USE DEF Typed
<1>1. WorldTyped'
  BY ConstantsTyped, OlderBound DEF Tick, WorldTyped, world, EthKnown, Older
<1>2. MarketsTyped'
  <2>1. ASSUME NEW t \in Tokens PROVE markets'[t] \in Market
    <3>1. markets[t] \in Market
      BY DEF MarketsTyped
    <3>2. CASE markets[t].ok
      <4>1. markets'[t] = [ok |-> TRUE, age |-> Older(markets[t].age, MaxAge),
                           began |-> Older(markets[t].began, MaxAge + 1)]
        BY <3>2 DEF Tick
      <4>2. Older(markets[t].age, MaxAge) \in Age /\ Older(markets[t].began, MaxAge + 1) \in 0..MaxAge + 1
        BY <3>1, ConstantsTyped DEF Market, Age, Older
      <4> QED BY <4>1, <4>2 DEF Market
    <3>3. CASE ~markets[t].ok
      <4>1. markets'[t] = [markets[t] EXCEPT !.age = Older(@, NoTtl)]
        BY <3>3 DEF Tick
      <4>2. Older(markets[t].age, NoTtl) \in Age
        BY <3>1, ConstantsTyped DEF Market, Age, Older
      <4> QED BY <3>1, <4>1, <4>2 DEF Market
    <3> QED BY <3>2, <3>3
  <2> QED BY <2>1 DEF Tick, MarketsTyped
<1>3. CheckerTyped'
  BY DEF Tick, CheckerTyped, Checker
<1>4. RequestsTyped'
  <2>1. ASSUME NEW v \in Visitors
        PROVE  request'[v] \in Request /\ (request'[v].step # "idle" => request'[v].token \in Tokens)
    BY DEF Tick, RequestsTyped, Request, InFlight
  <2> QED BY <2>1 DEF Tick, RequestsTyped
<1> QED BY <1>1, <1>2, <1>3, <1>4

LEMMA TickSound ==
  ASSUME TradeAssumption, Typed, AnswersSound, Tick, Remember(TRUE)
  PROVE  AnswersSound'
<1> SUFFICES ASSUME NEW t \in Tokens, markets'[t].ok
             PROVE  /\ markets'[t].began <= markets'[t].age + 1
                    /\ told'[t] < 2 => markets'[t].began <= told'[t] + 1
  BY DEF AnswersSound, Sound
<1>1. markets[t] \in Market /\ told[t] \in 0..2
  BY DEF Typed, MarketsTyped, HistoryTyped
<1>2. markets[t].ok
  BY <1>1 DEF Tick, Market
<1>3. /\ markets'[t].age = Older(markets[t].age, MaxAge)
      /\ markets'[t].began = Older(markets[t].began, MaxAge + 1)
  BY <1>2 DEF Tick
<1>4. markets[t].began <= markets[t].age + 1 /\ (told[t] < 2 => markets[t].began <= told[t] + 1)
  BY <1>2 DEF AnswersSound, Sound
<1>5. ~Tells(t)
  BY DEF Tells, Tick, Idle, Typed, RequestsTyped, Request
<1>6. told'[t] = Older(told[t], 2)
  BY <1>5 DEF Remember
<1> QED BY <1>1, <1>3, <1>4, <1>6, ConstantsTyped DEF Older, Market, Age

LEMMA TickBacked ==
  ASSUME Typed, BuildsBacked, Tick, Remember(TRUE)
  PROVE  BuildsBacked'
<1> SUFFICES ASSUME NEW w \in Visitors, request'[w].side = "buy", request'[w].step \in {"size", "calldata"}
             PROVE  offered'[request'[w].token] <= IF request'[w].late THEN 1 ELSE 0
  BY DEF BuildsBacked, Backed
<1>1. /\ request'[w] = [request[w] EXCEPT !.late = InFlight(w)]
      /\ request[w] \in Request /\ request[w].late = FALSE
  BY DEF Tick, Typed, RequestsTyped, Request
<1>2. PICK t \in Tokens : t = request[w].token /\ t = request'[w].token
  BY <1>1 DEF Typed, RequestsTyped, Request
<1>3. request[w].side = "buy" /\ request[w].step \in {"size", "calldata"} /\ request'[w].late = TRUE
  BY <1>1 DEF Request, InFlight
<1>4. offered[t] \in 0..2 /\ offered[t] <= 0
  BY <1>1, <1>2, <1>3 DEF BuildsBacked, Backed, Typed, HistoryTyped
<1>5. Building(t)'
  BY <1>2 DEF Building
<1>6. offered'[t] \in {0, Older(offered[t], 2)}
  BY <1>5 DEF Remember
<1> QED BY <1>2, <1>3, <1>4, <1>6 DEF Older

-----------------------------------------------------------------------------
(* The invariant, and what it says of offers and of swaps.                 *)
LEMMA InitInv == ASSUME TradeAssumption, Init PROVE Inv
<1>1. Typed
  BY InitTyped
<1>2. AnswersSound
  BY NoAnswerTyped DEF Init, AnswersSound, Sound
<1>3. BuildsBacked
  BY DEF Init, BuildsBacked, Backed, Idle
<1> QED BY <1>1, <1>2, <1>3 DEF Inv

LEMMA StepInv == ASSUME TradeAssumption, Inv, [Next]_vars PROVE Inv'
<1> USE DEF Inv
<1>1. CASE Change /\ Remember(FALSE)
  <2>1. UNCHANGED <<markets, request, checker, eth, errors>>
    BY <1>1 DEF Change
  <2>2. WorldTyped'
    BY <1>1, <2>1 DEF Change, Typed, WorldTyped, Watched
  <2>3. Typed'
    BY <1>1, <2>1, <2>2, RememberTyped DEF Typed, MarketsTyped, CheckerTyped, RequestsTyped
  <2>4. \A t \in Tokens : ~Tells(t)
    BY <2>1 DEF Tells, Idle
  <2> QED BY <1>1, <2>1, <2>3, <2>4, UnchangedMoves, MoveSound, ElsewhereBacked
<1>2. CASE Check /\ Remember(FALSE)
  <2>1. /\ UNCHANGED <<world, request>> /\ eth' \in 0..EthTtl + 1 /\ errors' \in Nat
        /\ CheckerTyped' /\ AnswersMove
    BY <1>2, CheckFacts
  <2>2. Typed'
    BY <1>2, <2>1, RememberTyped, MoveTyped DEF Typed, WorldTyped, RequestsTyped, world
  <2>3. \A t \in Tokens : ~Tells(t)
    BY <2>1 DEF Tells, Idle
  <2> QED BY <1>2, <2>1, <2>2, <2>3, MoveSound, ElsewhereBacked
<1>3. ASSUME NEW v \in Visitors, Visit(v), Remember(FALSE) PROVE Inv'
  <2>1. UNCHANGED <<world, checker>> /\ eth' \in 0..EthTtl + 1 /\ errors' \in Nat /\ AnswersMove
    BY <1>3, VisitMarkets
  <2>2. Typed'
    BY <1>3, <2>1, RememberTyped, MoveTyped, VisitFacts DEF Typed, WorldTyped, CheckerTyped, world
  <2>3. \A t \in Tokens : Tells(t) => ~markets'[t].ok
    BY <1>3, ToldIsWritten
  <2> QED BY <1>3, <2>1, <2>2, <2>3, MoveSound, VisitBacked
<1>4. CASE Tick /\ Remember(TRUE)
  <2>1. Typed'
    BY <1>4, TickTyped, RememberTyped DEF Typed
  <2> QED BY <1>4, <2>1, TickSound, TickBacked
<1>5. CASE UNCHANGED vars
  BY <1>5 DEF vars, world, Typed, WorldTyped, MarketsTyped, CheckerTyped, RequestsTyped, HistoryTyped,
              AnswersSound, Sound, BuildsBacked, Backed
<1> QED BY <1>1, <1>2, <1>3, <1>4, <1>5 DEF Next

LEMMA Always == ASSUME TradeAssumption PROVE Spec => []Inv
<1>1. Init => Inv
  BY InitInv
<1>2. Inv /\ [Next]_vars => Inv'
  BY StepInv
<1> QED BY <1>1, <1>2, PTL DEF Spec

(* A token is offered on a check begun at most the age of an answer ago,   *)
(* and one begun after the last buyer was told that there is no market, or *)
(* under way then: refreshMarkets and quoteBuy write the same answer in    *)
(* any order, and judge withdraws an old one.                              *)
THEOREM OffersAreFresh == ASSUME TradeAssumption PROVE Spec => []OfferIsFresh
<1>1. Inv => OfferIsFresh
  <2> SUFFICES ASSUME Inv, NEW t \in Tokens, Active(t)
               PROVE  /\ markets[t].began <= MaxAge
                      /\ told[t] < 2 => markets[t].began <= told[t] + 1
    BY DEF OfferIsFresh
  <2>1. markets[t].ok /\ markets[t].age < MaxAge
    BY DEF Active, State, Judged
  <2>2. markets[t].age \in Nat /\ markets[t].began \in Nat
    BY ConstantsTyped DEF Inv, Typed, MarketsTyped, Market, Age
  <2> QED BY <2>1, <2>2, ConstantsTyped DEF Inv, AnswersSound, Sound
<1> QED BY <1>1, Always, PTL

(* Calldata of a buy is for a token that was on offer a minute before at   *)
(* most: build asks the gates again, and its two calls end within one.     *)
THEOREM SwapsAreOffered == ASSUME TradeAssumption PROVE Spec => SwapsWereOffered
<1>1. ASSUME Inv, NEW v \in Visitors, Issues(v), request[v].side = "buy"
      PROVE  offered[request[v].token] <= 1
  <2>1. request[v].step = "calldata"
    BY <1>1 DEF Issues
  <2>2. offered[request[v].token] \in 0..2 /\ request[v].late \in BOOLEAN
    BY <1>1, <2>1 DEF Inv, Typed, RequestsTyped, Request, HistoryTyped
  <2> QED BY <1>1, <2>1, <2>2 DEF Inv, BuildsBacked, Backed
<1>2. Inv /\ [Next]_vars =>
        [\A v \in Visitors : Issues(v) /\ request[v].side = "buy" => offered[request[v].token] <= 1]_vars
  BY <1>1
<1> QED BY <1>2, Always, PTL DEF Spec, SwapsWereOffered

-----------------------------------------------------------------------------
(* The session of the wallet (Wallet): connecting, disconnecting, changes  *)
(* of account, and restores that answer after whatever happened meanwhile. *)
Wallets(Ids, Addresses) == [id : Ids, address : Addresses]
Sessions(Ids, Addresses) ==
  [wallet : Wallets(Ids, Addresses) \cup {None}, watching : Ids \cup {None}, remembered : Ids \cup {None},
   tradesOf : Addresses \cup {None}, restoring : Seq(Ids)]

(* What may happen to a session, of a wallet in Ids that shares accounts   *)
(* in Addresses, or none, or fails.                                        *)
Happens(Ids, Addresses, s, t) ==
  \/ \E id \in Ids, answer \in Addresses \cup {Throws} : t = W!Connect(s, id, answer)
  \/ \E id \in Ids, accounts \in Seq(Addresses) : t = W!OnAccounts(s, id, accounts)
  \/ \E accounts \in Seq(Addresses) : t = W!RestoreEnds(s, accounts)
  \/ t = W!Disconnect(s) \/ t = W!RestoreBegins(s)

(* The page listens to the wallet it shows, and shows its account's trades.*)
Listens(s) ==
  IF s.wallet = None THEN s.watching = None /\ s.tradesOf = None
  ELSE s.watching = s.wallet.id /\ s.tradesOf = s.wallet.address
(* What waits for its wallet is what the tab remembers; so is what it      *)
(* shows.                                                                  *)
RestoresShown(s) ==
  /\ \A i \in DOMAIN s.restoring : s.restoring[i] = s.remembered
  /\ s.wallet # None => s.wallet.id = s.remembered
(* A step that leaves alone what restores under way will bring.            *)
LeavesRestores(s, t) == s.restoring # <<>> => t.remembered = s.remembered

(* Field by field, what a session has become.                              *)
Has(t, w, watching, remembered, tradesOf, restoring) ==
  /\ t.wallet = w /\ t.watching = watching /\ t.remembered = remembered
  /\ t.tradesOf = tradesOf /\ t.restoring = restoring

LEMMA SessionParts ==
  ASSUME NEW Ids, NEW Addresses, None \notin Wallets(Ids, Addresses), NEW s \in Sessions(Ids, Addresses)
  PROVE  /\ \A w \in Wallets(Ids, Addresses) :
              /\ W!SetWallet(s, w) \in Sessions(Ids, Addresses)
              /\ Has(W!SetWallet(s, w), w, s.watching, s.remembered, w.address, s.restoring)
         /\ \A id \in Ids, a \in Addresses : \E w \in Wallets(Ids, Addresses) :
              /\ w.id = id /\ w.address = a
              /\ W!Shown(s, id, a) \in Sessions(Ids, Addresses)
              /\ Has(W!Shown(s, id, a), w, id, s.remembered, a, s.restoring)
         /\ W!Disconnect(s) \in Sessions(Ids, Addresses) /\ Has(W!Disconnect(s), None, None, None, None, s.restoring)
<1>1. ASSUME NEW w \in Wallets(Ids, Addresses)
      PROVE  /\ W!SetWallet(s, w) \in Sessions(Ids, Addresses)
             /\ Has(W!SetWallet(s, w), w, s.watching, s.remembered, w.address, s.restoring)
  <2>1. w # None /\ w.address \in Addresses
    BY DEF Wallets
  <2>2. W!SetWallet(s, w) = [s EXCEPT !.wallet = w, !.tradesOf = w.address]
    BY <2>1 DEF W!SetWallet
  <2> QED BY <2>1, <2>2 DEF Sessions, Has
<1>2. ASSUME NEW id \in Ids, NEW a \in Addresses
      PROVE  \E w \in Wallets(Ids, Addresses) :
              /\ w.id = id /\ w.address = a
              /\ W!Shown(s, id, a) \in Sessions(Ids, Addresses)
              /\ Has(W!Shown(s, id, a), w, id, s.remembered, a, s.restoring)
  <2> DEFINE w == [id |-> id, address |-> a]
             u == W!SetWallet(s, w)
             v == W!Shown(s, id, a)
  <2>1. w \in Wallets(Ids, Addresses) /\ w.id = id /\ w.address = a
    BY DEF Wallets
  <2>2. v = [u EXCEPT !.watching = id]
    BY DEF W!Shown
  <2> HIDE DEF w
  <2>3. u \in Sessions(Ids, Addresses) /\ Has(u, w, s.watching, s.remembered, a, s.restoring)
    BY <1>1, <2>1
  <2> HIDE DEF u, v
  <2>4. v \in Sessions(Ids, Addresses) /\ Has(v, w, id, s.remembered, a, s.restoring)
    BY <2>2, <2>3 DEF Sessions, Has
  <2> QED BY <2>1, <2>4 DEF v
<1>3. W!Disconnect(s) = [[s EXCEPT !.wallet = None, !.tradesOf = None] EXCEPT !.watching = None, !.remembered = None]
  BY DEF W!Disconnect, W!SetWallet
<1>4. W!Disconnect(s) \in Sessions(Ids, Addresses) /\ Has(W!Disconnect(s), None, None, None, None, s.restoring)
  BY <1>3 DEF Sessions, Has
<1> QED BY <1>1, <1>2, <1>4

LEMMA SessionSteps ==
  ASSUME NEW Ids, NEW Addresses, None \notin Ids, None \notin Addresses, None \notin Wallets(Ids, Addresses),
         NEW s \in Sessions(Ids, Addresses), NEW t, Happens(Ids, Addresses, s, t)
  PROVE  /\ t \in Sessions(Ids, Addresses)
         /\ Listens(s) => Listens(t)
         /\ Listens(s) /\ RestoresShown(s) /\ LeavesRestores(s, t) => RestoresShown(t)
<1>0. /\ W!Disconnect(s) \in Sessions(Ids, Addresses) /\ Listens(W!Disconnect(s))
      /\ RestoresShown(s) /\ LeavesRestores(s, W!Disconnect(s)) => RestoresShown(W!Disconnect(s))
  BY SessionParts DEF Listens, RestoresShown, LeavesRestores, Has, Sessions
<1>1. CASE \E id \in Ids, answer \in Addresses \cup {Throws} : t = W!Connect(s, id, answer)
  <2>1. PICK id \in Ids, a \in Addresses \cup {Throws} : t = W!Connect(s, id, a)
    BY <1>1
  <2>2. CASE a = Throws
    BY <2>1, <2>2 DEF W!Connect
  <2>3. CASE a # Throws
    <3> DEFINE u == W!Shown(s, id, a)
    <3>1. t = [u EXCEPT !.remembered = id]
      BY <2>1, <2>3 DEF W!Connect
    <3>2. PICK w \in Wallets(Ids, Addresses) :
            w.id = id /\ w.address = a /\ u \in Sessions(Ids, Addresses) /\ Has(u, w, id, s.remembered, a, s.restoring)
      BY <2>3, SessionParts
    <3> HIDE DEF u
    <3>3. t \in Sessions(Ids, Addresses) /\ Has(t, w, id, id, a, s.restoring)
      BY <3>1, <3>2 DEF Sessions, Has
    <3> QED BY <3>2, <3>3 DEF Listens, RestoresShown, LeavesRestores, Has
  <2> QED BY <2>2, <2>3
<1>2. CASE \E id \in Ids, accounts \in Seq(Addresses) : t = W!OnAccounts(s, id, accounts)
  <2>1. PICK id \in Ids, accounts \in Seq(Addresses) : t = W!OnAccounts(s, id, accounts)
    BY <1>2
  <2>2. CASE t = s
    BY <2>2
  <2>3. CASE t = W!Disconnect(s)
    BY <1>0, <2>3
  <2>4. CASE /\ s.wallet # None /\ accounts # <<>>
             /\ t = W!SetWallet(s, [s.wallet EXCEPT !.address = accounts[1]])
    <3> DEFINE a == accounts[1]
               w == [s.wallet EXCEPT !.address = a]
    <3>1. s.wallet \in Wallets(Ids, Addresses) /\ a \in Addresses
      BY <2>4 DEF Sessions
    <3>2. w \in Wallets(Ids, Addresses) /\ w.id = s.wallet.id /\ w.address = a
      BY <3>1 DEF Wallets
    <3>3. t = W!SetWallet(s, w)
      BY <2>4
    <3> HIDE DEF a, w
    <3>4. t \in Sessions(Ids, Addresses) /\ Has(t, w, s.watching, s.remembered, a, s.restoring)
      BY <3>2, <3>3, SessionParts
    <3> QED BY <2>4, <3>2, <3>4 DEF Listens, RestoresShown, LeavesRestores, Has
  <2> QED BY <2>1, <2>2, <2>3, <2>4 DEF W!OnAccounts
<1>3. CASE \E accounts \in Seq(Addresses) : t = W!RestoreEnds(s, accounts)
  <2>1. PICK accounts \in Seq(Addresses) : t = W!RestoreEnds(s, accounts)
    BY <1>3
  <2>2. CASE s.restoring = <<>>
    BY <2>1, <2>2 DEF W!RestoreEnds
  <2>3. CASE s.restoring # <<>>
    <3> DEFINE rest == [s EXCEPT !.restoring = Tail(@)]
               left == Tail(s.restoring)
               id == s.restoring[1]
    <3>1. /\ id \in Ids /\ left \in Seq(Ids) /\ 1 \in DOMAIN s.restoring
          /\ \A i \in DOMAIN left : i + 1 \in DOMAIN s.restoring /\ left[i] = s.restoring[i + 1]
      BY <2>3 DEF Sessions
    <3>2. rest = [s EXCEPT !.restoring = left]
      OBVIOUS
    <3> HIDE DEF rest, left
    <3>3. rest \in Sessions(Ids, Addresses) /\ Has(rest, s.wallet, s.watching, s.remembered, s.tradesOf, left)
      BY <3>1, <3>2 DEF Sessions, Has
    <3>4. CASE accounts = <<>>
      <4>1. t = rest
        BY <2>1, <2>3, <3>4 DEF W!RestoreEnds, rest
      <4> QED BY <3>1, <3>3, <4>1 DEF Listens, RestoresShown, LeavesRestores, Has
    <3>5. CASE accounts # <<>>
      <4> DEFINE a == accounts[1]
      <4>1. a \in Addresses
        BY <3>5
      <4>2. t = W!Shown(rest, id, a)
        BY <2>1, <2>3, <3>5 DEF W!RestoreEnds, rest
      <4> HIDE DEF id, a
      <4>3. PICK w \in Wallets(Ids, Addresses) :
              w.id = id /\ w.address = a /\ t \in Sessions(Ids, Addresses) /\ Has(t, w, id, rest.remembered, a, rest.restoring)
        BY <3>1, <3>3, <4>1, <4>2, SessionParts
      <4> QED BY <2>3, <3>1, <3>3, <4>3 DEF Listens, RestoresShown, LeavesRestores, Has, id
    <3> QED BY <3>4, <3>5
  <2> QED BY <2>2, <2>3
<1>4. CASE t = W!RestoreBegins(s)
  <2>1. CASE s.remembered = None
    BY <1>4, <2>1 DEF W!RestoreBegins
  <2>2. CASE s.remembered # None
    <3> DEFINE more == Append(s.restoring, s.remembered)
    <3>1. t = [s EXCEPT !.restoring = more]
      BY <1>4, <2>2 DEF W!RestoreBegins
    <3>2. /\ more \in Seq(Ids)
          /\ \A i \in DOMAIN more : (i \in DOMAIN s.restoring /\ more[i] = s.restoring[i]) \/ more[i] = s.remembered
      BY <2>2 DEF Sessions
    <3> HIDE DEF more
    <3>3. t \in Sessions(Ids, Addresses) /\ Has(t, s.wallet, s.watching, s.remembered, s.tradesOf, more)
      BY <3>1, <3>2 DEF Sessions, Has
    <3> QED BY <3>2, <3>3 DEF Listens, RestoresShown, LeavesRestores, Has
  <2> QED BY <2>1, <2>2
<1>5. CASE t = W!Disconnect(s)
  BY <1>0, <1>5
<1> QED BY <1>1, <1>2, <1>3, <1>4, <1>5 DEF Happens

(* Of a set of numbers that is not empty, one is the least.                *)
LEMMA LeastExists ==
  ASSUME NEW S \in SUBSET Nat, S # {}
  PROVE  \E i \in S : \A j \in S : i <= j
<1>1. PICK i \in S : \A j \in S : ~ (<<j, i>> \in OpToRel(<, Nat))
  BY NatLessThanWellFounded, WFMin
<1>2. ASSUME NEW j \in S, j < i PROVE FALSE
  <2>1. <<j, i>> \in OpToRel(<, Nat)
    BY <1>2 DEF OpToRel
  <2> QED BY <1>1, <2>1, Zenon
<1> QED BY <1>2

(* Induction up to n: a set of numbers that holds 0 and, with a number     *)
(* below n, the next one, holds them all.                                  *)
LEMMA UpTo ==
  ASSUME NEW n \in Nat, NEW S, 0 \in S, \A k \in 0 .. n - 1 : k \in S => k + 1 \in S
  PROVE  \A k \in 0 .. n : k \in S
<1> SUFFICES ASSUME NEW c \in 0 .. n, c \notin S PROVE FALSE OBVIOUS
<1> DEFINE Out == {k \in 0 .. n : k \notin S}
<1>1. Out \in SUBSET Nat /\ c \in Out OBVIOUS
<1>2. PICK i \in Out : \A j \in Out : i <= j BY <1>1, LeastExists
<1>3. i \in 0 .. n /\ i \notin S OBVIOUS
<1>4. i # 0 BY <1>3
<1>5. i - 1 \in 0 .. n - 1 /\ i - 1 \in 0 .. n /\ i - 1 + 1 = i /\ ~(i <= i - 1) BY <1>3, <1>4
<1>6. i - 1 \in S BY <1>2, <1>5
<1> QED BY <1>3, <1>5, <1>6

(* However connecting, disconnecting, account changes and restores fall,   *)
(* the page listens to the wallet it shows and to no other, and the trades *)
(* shown are that account's.  It shows another wallet than the tab         *)
(* remembers only after a restore was under way while the user connected   *)
(* or disconnected: what it brings is shown all the same (restoreSession). *)
THEOREM ListensToItsWallet ==
  ASSUME NEW Ids, NEW Addresses, None \notin Ids, None \notin Addresses, None \notin Wallets(Ids, Addresses),
         NEW kept \in Ids \cup {None}, NEW n \in Nat, NEW s, s[0] = [W!NoSession EXCEPT !.remembered = kept],
         \A i \in 0 .. n - 1 : Happens(Ids, Addresses, s[i], s[i + 1])
  PROVE  /\ Listens(s[n])
         /\ (\A i \in 0 .. n - 1 : LeavesRestores(s[i], s[i + 1])) => (s[n].wallet # None => s[n].wallet.id = s[n].remembered)
<1> DEFINE calm == \A i \in 0 .. n - 1 : LeavesRestores(s[i], s[i + 1])
           Good(x) == x \in Sessions(Ids, Addresses) /\ Listens(x) /\ (calm => RestoresShown(x))
           S == {i \in 0 .. n : Good(s[i])}
<1>1. 0 \in S
  <2> DEFINE x == s[0]
             fresh == W!NoSession
  <2>1. x = [fresh EXCEPT !.remembered = kept]
    OBVIOUS
  <2>2. fresh \in Sessions(Ids, Addresses) /\ Has(fresh, None, None, None, None, <<>>)
    BY DEF W!NoSession, Sessions, Has
  <2> HIDE DEF x, fresh
  <2>3. x \in Sessions(Ids, Addresses) /\ Has(x, None, None, kept, None, <<>>)
    BY <2>1, <2>2 DEF Sessions, Has
  <2>4. Good(x) /\ 0 \in 0 .. n
    BY <2>3 DEF Has, Listens, RestoresShown
  <2> QED BY <2>4 DEF x
<1>2. ASSUME NEW i \in 0 .. n - 1, i \in S PROVE i + 1 \in S
  <2>1. s[i] \in Sessions(Ids, Addresses) /\ Listens(s[i]) /\ (calm => RestoresShown(s[i])) /\ Happens(Ids, Addresses, s[i], s[i + 1])
    BY <1>2
  <2>2. calm => LeavesRestores(s[i], s[i + 1])
    OBVIOUS
  <2> HIDE DEF calm
  <2>3. Good(s[i + 1])
    BY <2>1, <2>2, SessionSteps
  <2>4. i + 1 \in 0 .. n
    OBVIOUS
  <2> QED BY <2>3, <2>4
<1>3. n \in S
  <2> HIDE DEF S
  <2> QED BY <1>1, <1>2, UpTo
<1> QED BY <1>3 DEF RestoresShown
=============================================================================
