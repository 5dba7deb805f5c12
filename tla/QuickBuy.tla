------------------------------- MODULE QuickBuy -------------------------------
(***************************************************************************)
(* Quick buy and sell in the browser: client/tradeActions.ts on top of     *)
(* client/wallet.ts and store/useTrade.ts.                                 *)
(*                                                                         *)
(* A trade is one promise chain: quote, the page's own dialog if the user  *)
(* wants one, an approval if a sale needs one, the wallet, the receipt, a  *)
(* reading of what it brought, and the record in localStorage.  busy keeps *)
(* one chain per token and tab; chains of different tokens run side by     *)
(* side, the wallet's account may change and the page may be left between  *)
(* any two awaits.  The steps of a chain here are its awaits that read or  *)
(* change shared state; an await that does neither (buildSwap,             *)
(* ensureChain) is part of the next.                                       *)
(*                                                                         *)
(* One unit of a token costs and returns one unit of ETH, gas not counted  *)
(* (the code takes a sale's own gas out again).                            *)
(***************************************************************************)
EXTENDS Integers, FiniteSets, Sequences

CONSTANTS
  Tabs,         \* open tabs; they share localStorage and nothing else
  Tokens, Accounts,
  NoAccount, NoToken,
  Silent,       \* tokens whose transfers leave no Transfer event
  Lots,         \* token units a buy may bring
  MaxOpen,      \* QUICK_BUY.maxOpenPositions
  MaxTx,        \* bound: transactions sent
  MaxUpsets     \* bound: accounts left, page loads, and failures of localStorage

ASSUME QuickBuyAssumption ==
  /\ NoAccount \notin Accounts /\ NoToken \notin Tokens
  /\ Silent \subseteq Tokens /\ Lots \subseteq Nat \ {0}
  /\ MaxOpen \in Nat /\ MaxTx \in Nat /\ MaxUpsets \in Nat

Sides == {"buy", "sell"}
Steps == {"idle", "quote", "balance", "confirm", "allowance", "approve", "approving",
          "before", "wallet", "pending", "after"}
Flow == [step : Steps, side : Sides, account : Accounts \cup {NoAccount},
         amount : Nat, tx : Nat, before : Int]
Idle == [step |-> "idle", side |-> "buy", account |-> NoAccount, amount |-> 0, tx |-> 0, before |-> 0]

(* External: what the chain has been sent, and what became of it.          *)
Tx == [kind : Sides \cup {"approve"}, account : Accounts, token : Tokens, amount : Nat,
       status : {"sent", "done", "failed"}]
TradeRecord == [tx : Nat, kind : Sides, token : Tokens, amount : Nat, eth : Int]

VARIABLES
  wallet,     \* the account each tab is connected to
  trades,     \* the records a tab has read or made, for its account
  stored,     \* the records in localStorage, by account
  flow,       \* the chain under way for a token in a tab (busy)
  dialog,     \* the token a tab's dialog asks about
  txs,        \* transactions, in the order they were sent
  balance, allowance, eth,
  upsets,
  orphaned    \* history: transactions no chain will record any more

page == <<wallet, trades, dialog>>
chain == <<txs, balance, allowance, eth>>
vars == <<page, stored, flow, chain, upsets, orphaned>>

Init ==
  /\ wallet = [b \in Tabs |-> NoAccount] /\ trades = [b \in Tabs |-> <<>>]
  /\ stored = [a \in Accounts |-> <<>>]
  /\ flow = [b \in Tabs |-> [t \in Tokens |-> Idle]] /\ dialog = [b \in Tabs |-> NoToken]
  /\ txs = <<>> /\ balance = [a \in Accounts |-> [t \in Tokens |-> 0]]
  /\ allowance = balance /\ eth = [a \in Accounts |-> 0]
  /\ upsets = 0 /\ orphaned = {}

-----------------------------------------------------------------------------
Lower(a, b) == IF a < b THEN a ELSE b
Ids(records) == {records[i].tx : i \in DOMAIN records}

(* positionsFrom: the units still held, by the records; in the mutant any  *)
(* sale closes the position.                                               *)
ClosedAfter(held, r) == IF r.kind = "buy" THEN held + r.amount ELSE 0
After(held, r) == IF r.kind = "buy" THEN held + r.amount ELSE held - Lower(r.amount, held)
Held(records, t) ==
  LET held[n \in 0 .. Len(records)] ==
        IF n = 0 THEN 0
        ELSE IF records[n].token = t THEN After(held[n - 1], records[n]) ELSE held[n - 1]
  IN held[Len(records)]
Open(records) == {t \in Tokens : Held(records, t) > 0}

(* A token's chain moves on in a tab.                                      *)
At(b, t, step) == flow[b][t].step = step
Becomes(b, t, f) == flow' = [flow EXCEPT ![b][t] = f]
Goes(b, t, step) == Becomes(b, t, [flow[b][t] EXCEPT !.step = step])

(* requestConfirm: a newer request replaces an open one, whose chain then  *)
(* ends; the mutant leaves it waiting.                                     *)
StillAsked(f) == f
Declined(f) == Idle
RequestConfirm(b, t) ==
  /\ dialog' = [dialog EXCEPT ![b] = t]
  /\ flow' = [flow EXCEPT ![b] =
       [s \in Tokens |-> IF s = t THEN [flow[b][t] EXCEPT !.step = "confirm"]
                         ELSE IF s = dialog[b] THEN Declined(flow[b][s]) ELSE flow[b][s]]]

(* sendTransaction: the wallet signs and sends for the chain's account.    *)
GoesOut(b, t, kind, amount) ==
  /\ Len(txs) < MaxTx
  /\ txs' = Append(txs, [kind |-> kind, account |-> flow[b][t].account, token |-> t,
                         amount |-> amount, status |-> "sent"])
Send(b, t, kind, amount, next) ==
  /\ GoesOut(b, t, kind, amount)
  /\ Becomes(b, t, [flow[b][t] EXCEPT !.step = next, !.tx = Len(txs) + 1, !.amount = amount])

(* An account is left, a page loaded, or localStorage throws.              *)
Upset == upsets < MaxUpsets /\ upsets' = upsets + 1

(* addTrade: under the account the tab is connected to now.  What another  *)
(* tab has stored since is overwritten.  A write that throws leaves the    *)
(* record in the tab's memory only.  The mutant keeps the new record only. *)
Replaced(records, r) == <<r>>
Added(records, r) == Append(records, r)
AddTrade(b, r) ==
  IF wallet[b] = NoAccount \/ r.tx \in Ids(trades[b])
  THEN UNCHANGED <<trades, stored, upsets>> /\ orphaned' = orphaned \cup {r.tx}
  ELSE /\ trades' = [trades EXCEPT ![b] = Added(@, r)]
       /\ \/ /\ stored' = [stored EXCEPT ![wallet[b]] = trades'[b]]
             /\ orphaned' = orphaned \cup (Ids(stored[wallet[b]]) \ Ids(trades[b]))
             /\ UNCHANGED upsets
          \/ Upset /\ UNCHANGED <<stored, orphaned>>

-----------------------------------------------------------------------------
(* quickBuy: connected, not busy, and within the limits.  The day's loss   *)
(* cap, the other limit, may refuse any buy: then nothing happens.         *)
BuyStart(b, t) ==
  /\ wallet[b] # NoAccount /\ At(b, t, "idle")
  /\ t \in Open(trades[b]) \/ Cardinality(Open(trades[b])) < MaxOpen
  /\ Becomes(b, t, [Idle EXCEPT !.step = "quote", !.account = wallet[b]])
  /\ UNCHANGED <<page, stored, chain, upsets, orphaned>>

BuyQuoted(b, t) ==
  /\ At(b, t, "quote") /\ flow[b][t].side = "buy"
  /\ \/ RequestConfirm(b, t)
     \/ Goes(b, t, "wallet") /\ UNCHANGED dialog
  /\ UNCHANGED <<wallet, trades, stored, chain, upsets, orphaned>>

(* The dialog: the user presses a button of it, or closes it.              *)
Answer(b, yes) ==
  /\ dialog[b] # NoToken
  /\ LET f == flow[b][dialog[b]] IN
     Becomes(b, dialog[b], IF ~yes THEN Idle
                           ELSE [f EXCEPT !.step = IF f.side = "buy" THEN "wallet" ELSE "allowance"])
  /\ dialog' = [dialog EXCEPT ![b] = NoToken]
  /\ UNCHANGED <<wallet, trades, stored, chain, upsets, orphaned>>

BuySend(b, t) ==
  /\ At(b, t, "wallet") /\ flow[b][t].side = "buy"
  /\ \E lot \in Lots : Send(b, t, "buy", lot, "pending")
  /\ UNCHANGED <<page, stored, balance, allowance, eth, upsets, orphaned>>

(* waitForReceipt: it failed on-chain...                                   *)
Reverted(b, t) ==
  /\ flow[b][t].step \in {"approving", "pending"} /\ txs[flow[b][t].tx].status = "failed"
  /\ Becomes(b, t, Idle)
  /\ UNCHANGED <<page, stored, chain, upsets, orphaned>>

(* ...or it went through, and what it brought is read next.                *)
Confirmed(b, t) ==
  /\ flow[b][t].step = "pending" /\ txs[flow[b][t].tx].status = "done"
  /\ Goes(b, t, "after")
  /\ UNCHANGED <<page, stored, chain, upsets, orphaned>>

(* tokensReceived, or the whole balance when there is no event, or nothing *)
(* when the balance cannot be read.                                        *)
BuyRecord(b, t) ==
  /\ At(b, t, "after") /\ flow[b][t].side = "buy"
  /\ \E n \in IF t \in Silent THEN {balance[flow[b][t].account][t], 0} ELSE {flow[b][t].amount} :
       AddTrade(b, [tx |-> flow[b][t].tx, kind |-> "buy", token |-> t, amount |-> n, eth |-> flow[b][t].amount])
  /\ Becomes(b, t, Idle)
  /\ UNCHANGED <<wallet, dialog, chain>>

-----------------------------------------------------------------------------
(* sell, of a position the page shows.                                     *)
SellStart(b, t) ==
  /\ wallet[b] # NoAccount /\ At(b, t, "idle") /\ t \in Open(trades[b])
  /\ Becomes(b, t, [Idle EXCEPT !.step = "balance", !.side = "sell", !.account = wallet[b]])
  /\ UNCHANGED <<page, stored, chain, upsets, orphaned>>

(* The share to sell is taken of the balance on-chain, not of the record.  *)
Share(b, t) == LET n == balance[flow[b][t].account][t] IN {n, n \div 2}
SellBalance(b, t) ==
  /\ At(b, t, "balance")
  /\ \E n \in Share(b, t) :
       Becomes(b, t, IF n = 0 THEN Idle ELSE [flow[b][t] EXCEPT !.step = "quote", !.amount = n])
  /\ UNCHANGED <<page, stored, chain, upsets, orphaned>>

SellQuoted(b, t) ==
  /\ At(b, t, "quote") /\ flow[b][t].side = "sell"
  /\ \/ RequestConfirm(b, t)
     \/ Goes(b, t, "allowance") /\ UNCHANGED dialog
  /\ UNCHANGED <<wallet, trades, stored, chain, upsets, orphaned>>

SellAllowance(b, t) ==
  /\ At(b, t, "allowance")
  /\ Goes(b, t, IF allowance[flow[b][t].account][t] < flow[b][t].amount THEN "approve" ELSE "before")
  /\ UNCHANGED <<page, stored, chain, upsets, orphaned>>

SellApprove(b, t) ==
  /\ At(b, t, "approve")
  /\ Send(b, t, "approve", flow[b][t].amount, "approving")
  /\ UNCHANGED <<page, stored, balance, allowance, eth, upsets, orphaned>>

SellApproved(b, t) ==
  /\ At(b, t, "approving") /\ txs[flow[b][t].tx].status = "done"
  /\ Goes(b, t, "before")
  /\ UNCHANGED <<page, stored, chain, upsets, orphaned>>

(* The ETH balance before the sale, and after it.                          *)
SellBefore(b, t) ==
  /\ At(b, t, "before")
  /\ Becomes(b, t, [flow[b][t] EXCEPT !.step = "wallet", !.before = eth[flow[b][t].account]])
  /\ UNCHANGED <<page, stored, chain, upsets, orphaned>>

SellSend(b, t) ==
  /\ At(b, t, "wallet") /\ flow[b][t].side = "sell"
  /\ Send(b, t, "sell", flow[b][t].amount, "pending")
  /\ UNCHANGED <<page, stored, balance, allowance, eth, upsets, orphaned>>

(* The difference of the two, or the quote if it is not positive.          *)
Received(f) == LET d == eth[f.account] - f.before IN IF d <= 0 THEN f.amount ELSE d
SellRecord(b, t) ==
  /\ At(b, t, "after") /\ flow[b][t].side = "sell"
  /\ AddTrade(b, [tx |-> flow[b][t].tx, kind |-> "sell", token |-> t,
                  amount |-> flow[b][t].amount, eth |-> Received(flow[b][t])])
  /\ Becomes(b, t, Idle)
  /\ UNCHANGED <<wallet, dialog, chain>>

(* An await throws: no quote, no route, declined in the wallet, no receipt *)
(* in three minutes, a balance that cannot be read.  catch tells the user, *)
(* finally frees the token; a transaction that is out is not followed any  *)
(* more.                                                                   *)
Throws(b, t) ==
  /\ flow[b][t].step \notin {"idle", "confirm"}
  /\ flow[b][t].step = "after" => flow[b][t].side = "sell"
  /\ Becomes(b, t, Idle)
  /\ orphaned' = orphaned \cup (IF flow[b][t].step \in {"pending", "after"} THEN {flow[b][t].tx} ELSE {})
  /\ UNCHANGED <<page, stored, chain, upsets>>

(* The wallet sent it, but its answer is lost or is no hash: the chain     *)
(* throws as if nothing were out.                                          *)
Amounts(f) == IF f.side = "buy" THEN Lots ELSE {f.amount}
AnswerLost(b, t) ==
  /\ flow[b][t].step \in {"approve", "wallet"}
  /\ LET f == flow[b][t] IN
     \E n \in Amounts(f) : GoesOut(b, t, IF f.step = "approve" THEN "approve" ELSE f.side, n)
  /\ Becomes(b, t, Idle) /\ orphaned' = orphaned \cup {Len(txs) + 1}
  /\ UNCHANGED <<page, stored, balance, allowance, eth, upsets>>

-----------------------------------------------------------------------------
(* What only the tab's memory still has.                                   *)
Unsaved(b) == Ids(trades[b]) \ UNION {Ids(stored[a]) : a \in Accounts}

(* setWallet: connect, restoreSession, accountsChanged, disconnectWallet.  *)
(* The records are read again, whatever is under way; a list that cannot   *)
(* be read is an empty one.                                                *)
Connects(b, a) == wallet[b] = NoAccount /\ a # NoAccount
SetWallet(b, a) ==
  /\ wallet' = [wallet EXCEPT ![b] = a] /\ orphaned' = orphaned \cup Unsaved(b)
  /\ \/ /\ trades' = [trades EXCEPT ![b] = IF a = NoAccount THEN <<>> ELSE stored[a]]
        /\ IF Connects(b, a) THEN UNCHANGED upsets ELSE Upset
     \/ a # NoAccount /\ trades' = [trades EXCEPT ![b] = <<>>] /\ Upset
  /\ UNCHANGED <<stored, flow, dialog, chain>>

(* The page is left or loaded again: what was under way is gone.           *)
InFlight(b) == {flow[b][t].tx : t \in {s \in Tokens : flow[b][s].step \in {"pending", "after"}}}
Load(b) ==
  /\ Upset
  /\ wallet' = [wallet EXCEPT ![b] = NoAccount] /\ trades' = [trades EXCEPT ![b] = <<>>]
  /\ flow' = [flow EXCEPT ![b] = [t \in Tokens |-> Idle]] /\ dialog' = [dialog EXCEPT ![b] = NoToken]
  /\ orphaned' = orphaned \cup InFlight(b) \cup Unsaved(b)
  /\ UNCHANGED <<stored, chain>>

(* External: a transaction is mined, those of one account in the order of  *)
(* their nonces, in which they were sent.  A sale needs tokens and         *)
(* allowance.                                                              *)
Settle(i, a, t, n) ==
  CASE txs[i].kind = "buy" ->
         /\ balance' = [balance EXCEPT ![a][t] = @ + n] /\ eth' = [eth EXCEPT ![a] = @ - n]
         /\ UNCHANGED allowance
    [] txs[i].kind = "sell" ->
         /\ n <= balance[a][t] /\ n <= allowance[a][t]
         /\ balance' = [balance EXCEPT ![a][t] = @ - n] /\ eth' = [eth EXCEPT ![a] = @ + n]
         /\ allowance' = [allowance EXCEPT ![a][t] = @ - n]
    [] txs[i].kind = "approve" ->
         allowance' = [allowance EXCEPT ![a][t] = n] /\ UNCHANGED <<balance, eth>>
Mine(i) ==
  /\ txs[i].status = "sent"
  /\ \A j \in 1 .. i - 1 : txs[j].account = txs[i].account => txs[j].status # "sent"
  /\ \/ Settle(i, txs[i].account, txs[i].token, txs[i].amount) /\ txs' = [txs EXCEPT ![i].status = "done"]
     \/ txs' = [txs EXCEPT ![i].status = "failed"] /\ UNCHANGED <<balance, allowance, eth>>
  /\ UNCHANGED <<page, stored, flow, upsets, orphaned>>

Buy(b, t) == BuyStart(b, t) \/ BuyQuoted(b, t) \/ BuySend(b, t) \/ BuyRecord(b, t)
Sell(b, t) == \/ SellStart(b, t) \/ SellBalance(b, t) \/ SellQuoted(b, t) \/ SellAllowance(b, t)
              \/ SellApprove(b, t) \/ SellApproved(b, t) \/ SellBefore(b, t) \/ SellSend(b, t)
              \/ SellRecord(b, t)
Next ==
  \/ \E b \in Tabs, t \in Tokens : \/ Buy(b, t) \/ Sell(b, t)
                                   \/ Confirmed(b, t) \/ Reverted(b, t)
                                   \/ Throws(b, t) \/ AnswerLost(b, t)
  \/ \E b \in Tabs : \/ \E yes \in BOOLEAN : Answer(b, yes)
                     \/ \E a \in Accounts \cup {NoAccount} : SetWallet(b, a)
                     \/ Load(b)
  \/ \E i \in DOMAIN txs : Mine(i)

Spec == Init /\ [][Next]_vars

-----------------------------------------------------------------------------
(* Every variable has its type.                                            *)
TypeOK ==
  /\ wallet \in [Tabs -> Accounts \cup {NoAccount}] /\ dialog \in [Tabs -> Tokens \cup {NoToken}]
  /\ trades \in [Tabs -> Seq(TradeRecord)] /\ stored \in [Accounts -> Seq(TradeRecord)]
  /\ flow \in [Tabs -> [Tokens -> Flow]] /\ txs \in Seq(Tx)
  /\ balance \in [Accounts -> [Tokens -> Nat]] /\ allowance \in [Accounts -> [Tokens -> Nat]]
  /\ eth \in [Accounts -> Int] /\ upsets \in Nat /\ orphaned \subseteq Nat

(* A chain that waits for the dialog is the one the dialog shows: none     *)
(* waits for ever for an answer that cannot come, with its token busy.     *)
DialogAnswersItsFlow ==
  \A b \in Tabs, t \in Tokens : At(b, t, "confirm") <=> dialog[b] = t

(* "record what the chain confirmed" (tradeActions.ts:1): a buy or a sale  *)
(* that went through is on record, in localStorage or, when that refused   *)
(* it, in a tab's memory, or its chain is about to record it; unless the   *)
(* chain threw, with the transaction known or its hash lost; the page or   *)
(* the account went away, with the chain or with what was in memory only;  *)
(* or a tab that had not read the record wrote over it.                    *)
Following(i) == \E b \in Tabs, t \in Tokens : flow[b][t].tx = i /\ flow[b][t].step \in {"pending", "after"}
OnRecord(i) == (\E a \in Accounts : i \in Ids(stored[a])) \/ \E b \in Tabs : i \in Ids(trades[b])
ConfirmedIsRecorded ==
  \A i \in DOMAIN txs : txs[i].kind \in Sides /\ txs[i].status = "done" =>
    Following(i) \/ OnRecord(i) \/ i \in orphaned

(* Position.tokens, "raw units still held, by the recorded trades": an     *)
(* account whose trades of a token are all on record, in the order they    *)
(* were sent, holds what they add up to, through partial sales, failed     *)
(* transactions, switched accounts and other tabs.                         *)
Settled(a, t) ==
  \A i \in DOMAIN txs : txs[i].account = a /\ txs[i].token = t /\ txs[i].kind \in Sides
                        /\ txs[i].status = "done" => i \in Ids(stored[a])
OwnTrades(a) == \A i \in Ids(stored[a]) : txs[i].account = a
InOrder(a) == \A i, j \in DOMAIN stored[a] : i < j => stored[a][i].tx < stored[a][j].tx
BooksMatchChain ==
  \A a \in Accounts, t \in Tokens \ Silent :
    Settled(a, t) /\ OwnTrades(a) /\ InOrder(a) => Held(stored[a], t) = balance[a][t]

(* TradeRecord.ethWei, "ETH sent (buy) or received (sell)".                *)
ProceedsAreTheSales ==
  \A a \in Accounts : \A i \in DOMAIN stored[a] :
    stored[a][i].eth = txs[stored[a][i].tx].amount
=============================================================================
