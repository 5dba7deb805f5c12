----------------------------- MODULE MCQuickBuy ------------------------------
(* QuickBuy for TLC: accounts, tokens and tabs as model values; and the    *)
(* pages' arithmetic (Book, WalletChecks) over every short list of trades. *)
EXTENDS QuickBuy, WalletChecks, TLC

CONSTANTS a, b, t, u, tab1, tab2, Unpriced, NoMarket

OneAccount == {a}
TwoAccounts == {a, b}
OneToken == {t}
TwoTokens == {t, u}
NoTokens == {}
LastToken == {u}
OneTab == {tab1}
TwoTabs == {tab1, tab2}
Pairs == {2}
OneOrTwo == {1, 2}
AnyTabOrAccount == Permutations(Tabs) \cup Permutations(Accounts)

(* A visit is one of two: all tabs, with one account and one token, or one *)
(* tab with all accounts and tokens.                                       *)
VARIABLE visit
Visit(tabs, accounts, tokens) == [tabs |-> tabs, accounts |-> accounts, tokens |-> tokens]
InitVisit ==
  /\ Init
  /\ visit \in {Visit(Tabs, {k}, {t}) : k \in Accounts} \cup {Visit({tab}, Accounts, Tokens) : tab \in Tabs}
Budget == IF visit.tabs = Tabs THEN MaxTx + MaxUpsets ELSE MaxTx + MaxUpsets - 1   \* bound
(* The actions of Next, by what the visit has of tabs, accounts and tokens.*)
NextVisit ==
  /\ \/ \E tab \in visit.tabs, k \in visit.tokens :
          \/ Buy(tab, k) \/ Sell(tab, k) \/ Confirmed(tab, k) \/ Reverted(tab, k)
          \/ Throws(tab, k) \/ AnswerLost(tab, k)
     \/ \E tab \in visit.tabs : \/ \E yes \in BOOLEAN : Answer(tab, yes)
                                \/ \E k \in visit.accounts \cup {NoAccount} : SetWallet(tab, k)
                                \/ Load(tab)
     \/ \E i \in DOMAIN txs : Mine(i)
  /\ Len(txs') + upsets' <= Budget /\ UNCHANGED visit
SpecVisit == InitVisit /\ [][NextVisit]_<<vars, visit>>

-----------------------------------------------------------------------------
B == INSTANCE Book WITH TakeProfit <- 200, StopLoss <- 40, TimeStop <- 48, DayHours <- 24

(* Trades 14 hours apart, so that two, but not three, fall on one day.     *)
Made(i, kind, m, tokens, usd) ==
  [id |-> i, kind |-> kind, mint |-> m, at |-> 14 * i, tokens |-> tokens, usd |-> usd]
Lists(n, mints) ==
  {[i \in 1..n |-> Made(i, k[i], m[i], q[i], 720 * d[i])] :
     k \in [1..n -> {"buy", "sell"}], m \in [1..n -> mints], q \in [1..n -> {1, 2}], d \in [1..n -> {1, 3}]}
Books == Lists(2, {"x", "y"}) \cup Lists(4, {"x"})

Whole(book, m) == B!PositionOf(book, m)
Took(book, m) == B!SumOf([i \in DOMAIN book |-> IF book[i].mint = m /\ book[i].kind = "sell" THEN book[i].usd ELSE 0])
Gone(book, m) == Whole(book, m).invested - Whole(book, m).cost

(* The positions and the calendar book the same profits, and what a        *)
(* position realized is what its sales took less the cost that left with   *)
(* them (positionsFrom, dailyPnl).                                         *)
ASSUME BooksAgree ==
  \A book \in Books :
    /\ B!Sum(LAMBDA m : Whole(book, m).realized, B!Mints(book))
         = LET days == B!DailyPnl(book) IN B!Sum(LAMBDA d : days[d].pnl, DOMAIN days)
    /\ \A m \in B!Mints(book) :
         /\ Whole(book, m).realized = Took(book, m) - Gone(book, m)
         /\ Whole(book, m).tokens = 0 => Whole(book, m).cost = 0

(* Every trade is on one day, and its order in the list does not matter.   *)
Backwards(book) == [i \in DOMAIN book |-> book[Len(book) + 1 - i]]
ASSUME DaysHoldTrades ==
  \A book \in Books :
    LET days == B!DailyPnl(book) IN
    /\ B!Sum(LAMBDA d : days[d].trades, DOMAIN days) = Len(book)
    /\ \A d \in DOMAIN days : Len(days[d].entries) = days[d].trades
    /\ B!DailyPnl(Backwards(book)) = days /\ B!PositionsFrom(Backwards(book)) = B!PositionsFrom(book)

(* streaks against their definition: the longest winning stretch, and the  *)
(* longest run of one sign up to the last day.                             *)
Pnls == UNION {[1..n -> {-2, 0, 1}] : n \in 0..5}
AllSign(pnls, i, j, s) == \A k \in i..j : B!Sign(pnls[k]) = s
ASSUME StreaksRight ==
  \A pnls \in Pnls :
    LET n == Len(pnls)
        longest == CHOOSE k \in 0..n : /\ k = 0 \/ (\E i \in 1..n : i + k - 1 <= n /\ AllSign(pnls, i, i + k - 1, 1))
                                       /\ \A i \in 1..n : i + k <= n => ~AllSign(pnls, i, i + k, 1)
        tail == CHOOSE k \in 0..n : IF n = 0 \/ pnls[n] = 0 THEN k = 0
                                    ELSE /\ k > 0 /\ AllSign(pnls, n - k + 1, n, B!Sign(pnls[n]))
                                         /\ k < n => B!Sign(pnls[n - k]) # B!Sign(pnls[n]) IN
    /\ B!BestStreak(pnls) = longest
    /\ B!CurrentStreak(pnls) = IF n = 0 THEN 0 ELSE tail * B!Sign(pnls[n])

(* The totals of the portfolio tab: once every open position is priced,    *)
(* the profit is what is held and was taken less what was spent; the rows  *)
(* of the three filters partition, and no row shows two verdicts on price. *)
Values == {0, 720, 5000, NoMarket, Unpriced}
ASSUME TotalsAddUp ==
  \A book \in Lists(2, {"x", "y"}), v \in [{"x", "y"} -> Values] :
    LET rows == {B!RowOf(Whole(book, m), v[m], 60) : m \in B!Mints(book)}
        took == B!Sum(LAMBDA m : Took(book, m), B!Mints(book)) IN
    /\ B!Priced(rows) = rows => B!TotalPnl(rows) = B!CurrentValue(rows) + took - B!Invested(rows)
    /\ B!Kept(rows, "open") \cup B!Kept(rows, "closed") = B!Kept(rows, "all")
    /\ \A r \in rows : ~({"take_profit", "stop_loss"} \subseteq r.alerts) /\ (~r.p.open => r.alerts = {})
    /\ \A c \in {"date", "cost", "value"} : \A s \in B!Listed(rows, "all", c) : Len(s) = Cardinality(rows)

(* A month fills whole weeks, each of its days once, in order.             *)
ASSUME WeeksHoldMonth ==
  \A lead \in 0..6, days \in 28..31 :
    LET weeks == B!Weeks(lead, days) IN
    \A d \in 1..days :
      Cardinality({c \in (DOMAIN weeks) \X (1..7) : weeks[c[1]][c[2]] = d}) = 1
=============================================================================
