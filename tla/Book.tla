--------------------------------- MODULE Book ---------------------------------
(***************************************************************************)
(* What the trade pages compute from the recorded trades:                  *)
(* engine/portfolio.ts, components/trade/PortfolioTab.tsx and              *)
(* CalendarTab.tsx.                                                        *)
(*                                                                         *)
(* A trade is [id, kind, mint, at, usd, tokens] with at in hours and usd   *)
(* whole; the share of a cost that leaves with a sale, a float in the      *)
(* code, is rounded down.                                                  *)
(***************************************************************************)
EXTENDS Integers, Sequences, FiniteSets
LOCAL INSTANCE SequencesExt
LOCAL INSTANCE FiniteSetsExt
LOCAL INSTANCE Functions

CONSTANTS
  TakeProfit, StopLoss,   \* percent of the cost
  TimeStop,               \* hours
  DayHours,
  Unpriced, NoMarket      \* a value not asked yet, and the answer that nobody buys

Smaller(a, b) == IF a < b THEN a ELSE b
SumOf(s) == FoldLeft(LAMBDA a, b : a + b, 0, s)
Mints(trades) == {trades[i].mint : i \in DOMAIN trades}

(* In time order; equal times keep the order they were recorded in.        *)
InTimeOrder(trades) ==
  LET before(i, j) == trades[i].at < trades[j].at \/ (trades[i].at = trades[j].at /\ i < j)
      order == SetToSortSeq(DOMAIN trades, before) IN
  [i \in DOMAIN trades |-> trades[order[i]]]

(* A Map of the code: get, with what stands for a key it does not have,    *)
(* and set.                                                                *)
Got(map, key, fresh) == IF key \in DOMAIN map THEN map[key] ELSE fresh
Put(map, key, value) == [k \in DOMAIN map \cup {key} |-> IF k = key THEN value ELSE map[k]]

-----------------------------------------------------------------------------
(* positionsFrom: average cost, trade by trade.                            *)
Sold(held, t) == Smaller(t.tokens, held)
CostOut(held, cost, t) == IF held > 0 THEN (cost * Sold(held, t)) \div held ELSE 0

Opened(t) == [mint |-> t.mint, tokens |-> 0, cost |-> 0, invested |-> 0, realized |-> 0,
              entry |-> <<0, 1>>, openedAt |-> t.at, lastTradeAt |-> t.at, bought |-> t.id, open |-> TRUE]
Traded(p, t) ==
  IF t.kind = "buy"
  THEN [p EXCEPT !.openedAt = IF p.tokens = 0 THEN t.at ELSE @, !.tokens = @ + t.tokens,
                 !.cost = @ + t.usd, !.invested = @ + t.usd]
  ELSE LET out == CostOut(p.tokens, p.cost, t) IN
       [p EXCEPT !.realized = @ + t.usd - out, !.cost = @ - out, !.tokens = @ - Sold(p.tokens, t)]
AfterTrade(p, t) ==
  LET q == Traded(p, t) IN
  [q EXCEPT !.lastTradeAt = t.at, !.open = q.tokens > 0,
            !.entry = IF q.tokens > 0 THEN <<q.cost, q.tokens>> ELSE @]

(* byMint after each trade of a list in time order.                        *)
ByMint(by, t) == Put(by, t.mint, AfterTrade(Got(by, t.mint, Opened(t)), t))
Positions(trades) ==
  LET by[n \in 0 .. Len(trades)] == IF n = 0 THEN <<>> ELSE ByMint(by[n - 1], trades[n]) IN by

PositionOf(trades, m) == Positions(InTimeOrder(trades))[Len(trades)][m]
PositionsFrom(trades) == {PositionOf(trades, m) : m \in Mints(trades)}

(* exitAlerts, on a value quoted for the whole position.                   *)
ExitAlerts(p, value, now) ==
  IF ~p.open THEN {}
  ELSE {a \in {"take_profit"} : value # Unpriced /\ p.cost > 0 /\ 100 * (value - p.cost) >= TakeProfit * p.cost}
       \cup {a \in {"stop_loss"} : value # Unpriced /\ p.cost > 0 /\ 100 * (value - p.cost) <= -StopLoss * p.cost}
       \cup {a \in {"time_stop"} : now - p.openedAt >= TimeStop}

-----------------------------------------------------------------------------
(* dailyPnl: the same average cost again, booked by the day of the sale.   *)
DayOf(at) == at \div DayHours
NoDay == [pnl |-> 0, trades |-> 0, wins |-> 0, losses |-> 0, entries |-> <<>>]

NoHolding == [tokens |-> 0, cost |-> 0]

(* The days and the holdings after one trade more, and after each trade.   *)
Booked(b, t) ==
  LET day == Got(b.days, DayOf(t.at), NoDay)
      h == Got(b.held, t.mint, NoHolding)
      out == CostOut(h.tokens, h.cost, t)
      pnl == t.usd - out
      sale == [day EXCEPT !.trades = @ + 1, !.pnl = @ + pnl, !.wins = IF pnl > 0 THEN @ + 1 ELSE @,
                          !.losses = IF pnl < 0 THEN @ + 1 ELSE @, !.entries = Append(@, <<t.id, pnl>>)]
      buy == [day EXCEPT !.trades = @ + 1, !.entries = Append(@, <<t.id, "none">>)] IN
  IF t.kind = "buy"
  THEN [days |-> Put(b.days, DayOf(t.at), buy),
        held |-> Put(b.held, t.mint, [tokens |-> h.tokens + t.tokens, cost |-> h.cost + t.usd])]
  ELSE [days |-> Put(b.days, DayOf(t.at), sale),
        held |-> Put(b.held, t.mint, [tokens |-> h.tokens - Sold(h.tokens, t), cost |-> h.cost - out])]
Calendar(trades) ==
  LET upTo[n \in 0 .. Len(trades)] ==
        IF n = 0 THEN [days |-> <<>>, held |-> <<>>] ELSE Booked(upTo[n - 1], trades[n]) IN upTo
DailyPnl(trades) == Calendar(InTimeOrder(trades))[Len(trades)].days

(* streaks, over the results of the days in order: how many winning days   *)
(* were ever in a row, and the run of equal signs the last days make,      *)
(* looked at from the last day back until a day ends it.                   *)
WithResult(days) == {d \in DOMAIN days : days[d].wins + days[d].losses > 0}
Results(days) ==
  LET order == SetToSortSeq(WithResult(days), <) IN [i \in DOMAIN order |-> days[order[i]].pnl]

NoRun == [n |-> 0, best |-> 0]
Won(s, v) == LET n == IF v > 0 THEN s.n + 1 ELSE 0 IN [n |-> n, best |-> IF n > s.best THEN n ELSE s.best]
WinsAfter(pnls) ==
  LET upTo[n \in 0 .. Len(pnls)] == IF n = 0 THEN NoRun ELSE Won(upTo[n - 1], pnls[n]) IN upTo
BestStreak(pnls) == WinsAfter(pnls)[Len(pnls)].best

Sign(v) == IF v > 0 THEN 1 ELSE IF v < 0 THEN -1 ELSE 0
NoDays == [n |-> 0, done |-> FALSE]
Looked(s, v) ==
  IF s.done \/ Sign(v) = 0 \/ (s.n # 0 /\ Sign(s.n) # Sign(v)) THEN [s EXCEPT !.done = TRUE]
  ELSE [s EXCEPT !.n = @ + Sign(v)]
LookedBack(pnls) ==
  LET back[n \in 0 .. Len(pnls)] == IF n = 0 THEN NoDays ELSE Looked(back[n - 1], pnls[Len(pnls) + 1 - n]) IN back
CurrentStreak(pnls) == LookedBack(pnls)[Len(pnls)].n

-----------------------------------------------------------------------------
(* A row of the portfolio tab: its profit with the value last quoted; a    *)
(* position without a market is worth nothing, one not priced yet has no   *)
(* profit.                                                                 *)
Worth(value) == IF value = NoMarket THEN 0 ELSE value
RowOf(p, value, now) ==
  [p |-> p, value |-> IF p.open THEN value ELSE 0,
   pnl |-> IF ~p.open THEN p.realized
           ELSE IF value = Unpriced THEN Unpriced ELSE p.realized + Worth(value) - p.cost,
   alerts |-> ExitAlerts(p, IF value = Unpriced THEN Unpriced ELSE Worth(value), now)]

Sum(f(_), S) == MapThenSumSet(f, S)
Invested(rows) == Sum(LAMBDA r : r.p.invested, rows)
CurrentValue(rows) ==
  Sum(LAMBDA r : IF r.value = Unpriced THEN 0 ELSE Worth(r.value), {r \in rows : r.p.open})
Priced(rows) == {r \in rows : r.pnl # Unpriced}
TotalPnl(rows) == Sum(LAMBDA r : r.pnl, Priced(rows))
Winners(rows) == Cardinality({r \in Priced(rows) : r.pnl > 0})

(* The tab lists the rows of a filter by the chosen column, highest first; *)
(* the fourth column, a percentage, is left out.                           *)
Kept(rows, filter) ==
  {r \in rows : filter = "all" \/ r.p.open = (filter = "open")}
SortKey(r, column) ==
  CASE column = "date" -> r.p.lastTradeAt
    [] column = "cost" -> r.p.cost
    [] column = "value" -> IF r.value \in {Unpriced, NoMarket} THEN -1 ELSE r.value
Listed(rows, filter, column) ==
  {s \in SetToSeqs(Kept(rows, filter)) : \A i, j \in DOMAIN s : i < j => SortKey(s[i], column) >= SortKey(s[j], column)}

(* The calendar: a month in weeks of seven from Monday, blank before its   *)
(* first day and after its last, and the totals over its days.             *)
Weeks(lead, days) ==
  LET cell(i) == IF i \in lead + 1..lead + days THEN i - lead ELSE 0 IN
  [w \in 1..((lead + days + 6) \div 7) |-> [i \in 1..7 |-> cell(7 * (w - 1) + i)]]
MonthPnl(days, month) == Sum(LAMBDA d : days[d].pnl, month \cap DOMAIN days)
MonthTrades(days, month) == Sum(LAMBDA d : days[d].trades, month \cap DOMAIN days)
Bests(days, month) ==
  LET some == month \cap WithResult(days) IN {d \in some : \A e \in some : days[e].pnl <= days[d].pnl}
Tint(pnl, largest) ==
  IF pnl = 0 \/ largest <= 0 THEN 0
  ELSE Sign(pnl) * (1 + Smaller(3, (4 * (IF pnl < 0 THEN -pnl ELSE pnl)) \div largest))
HoldHours(positions) == [closed |-> Cardinality({p \in positions : ~p.open}),
                         hours |-> Sum(LAMBDA p : p.lastTradeAt - p.openedAt, {p \in positions : ~p.open})]
=============================================================================
