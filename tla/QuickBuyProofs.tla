---------------------------- MODULE QuickBuyProofs ----------------------------
(***************************************************************************)
(* Theorems about QuickBuy, for any tabs, tokens, accounts and bounds; and *)
(* about the accounts Book keeps of the recorded trades, and the streaks   *)
(* it counts, for any list.                                                *)
(***************************************************************************)
EXTENDS QuickBuy, SequenceTheorems, FiniteSetTheorems, WellFoundedInduction, TLAPS

CONSTANTS TakeProfit, StopLoss, TimeStop, DayHours, Unpriced, NoMarket
B == INSTANCE Book

(* The chain that is under way for no token.                               *)
LEMMA IdleFlow ==
  ASSUME QuickBuyAssumption
  PROVE  Idle \in Flow /\ Idle.step = "idle"
BY DEF QuickBuyAssumption, Idle, Flow, Steps, Sides

(* A chain that becomes another one keeps the type of flow.                *)
LEMMA FlowType ==
  ASSUME flow \in [Tabs -> [Tokens -> Flow]], NEW b \in Tabs, NEW t \in Tokens,
         NEW f \in Flow, Becomes(b, t, f)
  PROVE  flow' \in [Tabs -> [Tokens -> Flow]]
BY DEF Becomes

(* The same of a step of its own.                                          *)
LEMMA StepType ==
  ASSUME NEW f \in Flow, NEW s \in Steps
  PROVE  [f EXCEPT !.step = s] \in Flow
BY DEF Flow

LEMMA GoesType ==
  ASSUME flow \in [Tabs -> [Tokens -> Flow]], NEW b \in Tabs, NEW t \in Tokens,
         NEW s \in Steps, Goes(b, t, s)
  PROVE  flow' \in [Tabs -> [Tokens -> Flow]]
<1>1. flow[b][t] \in Flow OBVIOUS
<1>2. [flow[b][t] EXCEPT !.step = s] \in Flow BY <1>1, StepType
<1> QED BY <1>2, FlowType DEF Goes

LEMMA ConfirmType ==
  ASSUME QuickBuyAssumption, TypeOK, NEW b \in Tabs, NEW t \in Tokens, RequestConfirm(b, t)
  PROVE  /\ flow' \in [Tabs -> [Tokens -> Flow]]
         /\ dialog' \in [Tabs -> Tokens \cup {NoToken}]
<1>1. flow \in [Tabs -> [Tokens -> Flow]] /\ dialog \in [Tabs -> Tokens \cup {NoToken}] BY DEF TypeOK
<1>2. \A s \in Tokens : flow[b][s] \in Flow BY <1>1
<1>3. [flow[b][t] EXCEPT !.step = "confirm"] \in Flow BY <1>2, StepType DEF Steps
<1>4. [s \in Tokens |-> IF s = t THEN [flow[b][t] EXCEPT !.step = "confirm"]
                        ELSE IF s = dialog[b] THEN Declined(flow[b][s]) ELSE flow[b][s]]
        \in [Tokens -> Flow]
  BY <1>2, <1>3, IdleFlow DEF Declined
<1> QED BY <1>1, <1>4 DEF RequestConfirm

LEMMA OutType ==
  ASSUME TypeOK, NEW b \in Tabs, NEW t \in Tokens, NEW kind \in Sides \cup {"approve"},
         NEW n \in Nat, flow[b][t].account \in Accounts, GoesOut(b, t, kind, n)
  PROVE  txs' \in Seq(Tx)
<1>1. txs \in Seq(Tx) BY DEF TypeOK
<1>2. [kind |-> kind, account |-> flow[b][t].account, token |-> t, amount |-> n, status |-> "sent"] \in Tx
  BY DEF Tx
<1> QED BY <1>1, <1>2, AppendProperties DEF GoesOut

LEMMA SendType ==
  ASSUME TypeOK, NEW b \in Tabs, NEW t \in Tokens, NEW kind \in Sides \cup {"approve"},
         NEW n \in Nat, NEW s \in Steps, flow[b][t].account \in Accounts, Send(b, t, kind, n, s)
  PROVE  flow' \in [Tabs -> [Tokens -> Flow]] /\ txs' \in Seq(Tx)
<1>1. flow[b][t] \in Flow /\ txs \in Seq(Tx) /\ flow \in [Tabs -> [Tokens -> Flow]] BY DEF TypeOK
<1>2. Len(txs) + 1 \in Nat BY <1>1, LenProperties
<1>3. [flow[b][t] EXCEPT !.step = s, !.tx = Len(txs) + 1, !.amount = n] \in Flow
  BY <1>1, <1>2 DEF Flow
<1>4. txs' \in Seq(Tx) BY OutType DEF Send
<1> QED BY <1>1, <1>3, <1>4, FlowType DEF Send

LEMMA IdsType ==
  ASSUME NEW q \in Seq(TradeRecord)
  PROVE  Ids(q) \subseteq Nat
<1>1. \A i \in DOMAIN q : q[i] \in TradeRecord BY ElementOfSeq, LenProperties
<1> QED BY <1>1 DEF Ids, TradeRecord

(* What addTrade does to a record that is new: the tab's list grows by it, *)
(* and localStorage gets that list or stays.                               *)
LEMMA AddedTo ==
  ASSUME TypeOK, NEW b \in Tabs, NEW r \in TradeRecord, AddTrade(b, r),
         ~(wallet[b] = NoAccount \/ r.tx \in Ids(trades[b]))
  PROVE  /\ wallet[b] \in Accounts /\ trades[b] \in Seq(TradeRecord)
         /\ trades' = [trades EXCEPT ![b] = Append(trades[b], r)]
         /\ \/ /\ stored' = [stored EXCEPT ![wallet[b]] = Append(trades[b], r)]
               /\ orphaned' = orphaned \cup (Ids(stored[wallet[b]]) \ Ids(trades[b]))
               /\ upsets' = upsets
            \/ stored' = stored /\ orphaned' = orphaned /\ upsets' = upsets + 1
<1>1. trades \in [Tabs -> Seq(TradeRecord)] /\ wallet \in [Tabs -> Accounts \cup {NoAccount}]
  BY DEF TypeOK
<1>2. trades' = [trades EXCEPT ![b] = Append(trades[b], r)] BY DEF AddTrade, Added
<1>3. trades'[b] = Append(trades[b], r) BY <1>1, <1>2
<1> QED BY <1>1, <1>2, <1>3 DEF AddTrade, Upset

LEMMA AddType ==
  ASSUME TypeOK, NEW b \in Tabs, NEW r \in TradeRecord, AddTrade(b, r)
  PROVE  /\ trades' \in [Tabs -> Seq(TradeRecord)] /\ stored' \in [Accounts -> Seq(TradeRecord)]
         /\ orphaned' \subseteq Nat /\ upsets' \in Nat
<1>0. /\ trades \in [Tabs -> Seq(TradeRecord)] /\ stored \in [Accounts -> Seq(TradeRecord)]
      /\ orphaned \subseteq Nat /\ upsets \in Nat
  BY DEF TypeOK
<1>1. r.tx \in Nat BY DEF TradeRecord
<1>2. CASE wallet[b] = NoAccount \/ r.tx \in Ids(trades[b])
  BY <1>0, <1>1, <1>2 DEF AddTrade
<1>3. CASE ~(wallet[b] = NoAccount \/ r.tx \in Ids(trades[b]))
  <2>1. wallet[b] \in Accounts /\ trades[b] \in Seq(TradeRecord) BY <1>3, AddedTo
  <2>2. Append(trades[b], r) \in Seq(TradeRecord) BY <2>1, AppendProperties
  <2>3. trades' \in [Tabs -> Seq(TradeRecord)] BY <1>0, <1>3, <2>2, AddedTo
  <2>4. Ids(stored[wallet[b]]) \subseteq Nat BY <1>0, <2>1, IdsType
  <2>5. CASE stored' = stored /\ orphaned' = orphaned /\ upsets' = upsets + 1
    BY <1>0, <2>3, <2>5
  <2>6. CASE /\ stored' = [stored EXCEPT ![wallet[b]] = Append(trades[b], r)]
             /\ orphaned' = orphaned \cup (Ids(stored[wallet[b]]) \ Ids(trades[b]))
             /\ upsets' = upsets
    BY <1>0, <2>2, <2>3, <2>4, <2>6
  <2> QED BY <1>3, <2>5, <2>6, AddedTo
<1> QED BY <1>2, <1>3

-----------------------------------------------------------------------------
(* A chain that is under way has an account.                               *)
FlowInv == \A b \in Tabs, t \in Tokens : flow[b][t].step # "idle" => flow[b][t].account \in Accounts
TypeInv == TypeOK /\ FlowInv

LEMMA TypeInit == QuickBuyAssumption /\ Init => TypeInv
<1> SUFFICES ASSUME QuickBuyAssumption, Init PROVE TypeInv OBVIOUS
<1>1. flow \in [Tabs -> [Tokens -> Flow]] BY IdleFlow DEF Init
<1>2. \A b \in Tabs, t \in Tokens : flow[b][t] = Idle BY DEF Init
<1>3. FlowInv BY <1>2, IdleFlow DEF FlowInv
<1>4. txs \in Seq(Tx) /\ trades \in [Tabs -> Seq(TradeRecord)] /\ stored \in [Accounts -> Seq(TradeRecord)]
  BY EmptySeq DEF Init
<1> QED BY <1>1, <1>3, <1>4 DEF Init, TypeInv, TypeOK

(* The accounts of the chains, when one of them becomes f.                 *)
LEMMA FlowKept ==
  ASSUME TypeInv, NEW b \in Tabs, NEW t \in Tokens, NEW f \in Flow, Becomes(b, t, f),
         f.step # "idle" => f.account \in Accounts
  PROVE  FlowInv' /\ flow' \in [Tabs -> [Tokens -> Flow]]
<1>1. flow \in [Tabs -> [Tokens -> Flow]] BY DEF TypeInv, TypeOK
<1>2. flow' \in [Tabs -> [Tokens -> Flow]] BY <1>1, FlowType
<1>3. \A c \in Tabs, s \in Tokens : flow'[c][s] = IF c = b /\ s = t THEN f ELSE flow[c][s]
  BY <1>1 DEF Becomes
<1> QED BY <1>2, <1>3 DEF TypeInv, FlowInv

(* A step that changes nothing but one chain.                              *)
LEMMA OneChain ==
  ASSUME TypeInv, NEW b \in Tabs, NEW t \in Tokens, NEW f \in Flow, Becomes(b, t, f),
         f.step # "idle" => f.account \in Accounts,
         UNCHANGED <<page, stored, chain, upsets, orphaned>>
  PROVE  TypeInv'
<1>1. FlowInv' /\ flow' \in [Tabs -> [Tokens -> Flow]] BY FlowKept
<1> QED BY <1>1 DEF TypeInv, TypeOK, page, chain

(* The same of a chain that moves on to another step.                      *)
LEMMA OneStep ==
  ASSUME TypeInv, NEW b \in Tabs, NEW t \in Tokens, NEW s \in Steps, Goes(b, t, s),
         flow[b][t].step # "idle",
         UNCHANGED <<page, stored, chain, upsets, orphaned>>
  PROVE  TypeInv'
<1>1. flow[b][t] \in Flow BY DEF TypeInv, TypeOK
<1>2. [flow[b][t] EXCEPT !.step = s] \in Flow BY <1>1, StepType
<1>3. [flow[b][t] EXCEPT !.step = s].account \in Accounts BY <1>1 DEF Flow, TypeInv, FlowInv
<1> QED BY <1>2, <1>3, OneChain DEF Goes

(* A chain that ends.                                                      *)
LEMMA OneEnds ==
  ASSUME QuickBuyAssumption, TypeInv, NEW b \in Tabs, NEW t \in Tokens, Becomes(b, t, Idle),
         UNCHANGED <<page, stored, chain, upsets, orphaned>>
  PROVE  TypeInv'
BY IdleFlow, OneChain

(* The dialog's three steps: opened, passed over, answered.                *)
LEMMA Quoted ==
  ASSUME QuickBuyAssumption, TypeInv, NEW b \in Tabs, NEW t \in Tokens, NEW s \in Steps,
         flow[b][t].step # "idle",
         RequestConfirm(b, t) \/ (Goes(b, t, s) /\ UNCHANGED dialog),
         UNCHANGED <<wallet, trades, stored, chain, upsets, orphaned>>
  PROVE  TypeInv'
<1>1. CASE RequestConfirm(b, t)
  <2>1. flow' \in [Tabs -> [Tokens -> Flow]] /\ dialog' \in [Tabs -> Tokens \cup {NoToken}]
    BY <1>1, ConfirmType DEF TypeInv
  <2>2. flow \in [Tabs -> [Tokens -> Flow]] BY DEF TypeInv, TypeOK
  <2>3. [flow[b][t] EXCEPT !.step = "confirm"].account = flow[b][t].account BY <2>2 DEF Flow
  <2>4. FlowInv'
    <3> SUFFICES ASSUME NEW c \in Tabs, NEW u \in Tokens, flow'[c][u].step # "idle"
                 PROVE  flow'[c][u].account \in Accounts
      BY DEF FlowInv
    <3>1. CASE c = b /\ u = t
      <4>1. flow'[c][u] = [flow[b][t] EXCEPT !.step = "confirm"] BY <1>1, <2>2, <3>1 DEF RequestConfirm
      <4> QED BY <4>1, <2>3 DEF TypeInv, FlowInv
    <3>2. CASE ~(c = b /\ u = t)
      <4>1. flow'[c][u] \in {Idle, flow[c][u]} BY <1>1, <2>2, <3>2 DEF RequestConfirm, Declined
      <4> QED BY <4>1, IdleFlow DEF TypeInv, FlowInv
    <3> QED BY <3>1, <3>2
  <2> QED BY <2>1, <2>4 DEF TypeInv, TypeOK, chain
<1>2. CASE Goes(b, t, s) /\ UNCHANGED dialog
  BY <1>2, OneStep DEF page
<1> QED BY <1>1, <1>2

LEMMA Answered ==
  ASSUME QuickBuyAssumption, TypeInv, NEW b \in Tabs, NEW yes \in BOOLEAN, Answer(b, yes),
         flow[b][dialog[b]].step # "idle"
  PROVE  TypeInv'
<1> DEFINE t == dialog[b]
           f == IF ~yes THEN Idle
                ELSE [flow[b][t] EXCEPT !.step = IF flow[b][t].side = "buy" THEN "wallet" ELSE "allowance"]
<1>1. t \in Tokens BY DEF TypeInv, TypeOK, Answer
<1>2. flow[b][t] \in Flow BY <1>1 DEF TypeInv, TypeOK
<1>3. f \in Flow BY <1>2, IdleFlow, StepType DEF Steps
<1>4. f.step # "idle" => f.account \in Accounts BY <1>1, <1>2, IdleFlow DEF TypeInv, FlowInv, Flow
<1>5. Becomes(b, t, f) BY DEF Answer
<1>6. FlowInv' /\ flow' \in [Tabs -> [Tokens -> Flow]] BY <1>1, <1>3, <1>4, <1>5, FlowKept
<1>7. dialog' \in [Tabs -> Tokens \cup {NoToken}] BY DEF Answer, TypeInv, TypeOK
<1> QED BY <1>6, <1>7 DEF Answer, TypeInv, TypeOK, chain

LEMMA Sent ==
  ASSUME TypeInv, NEW b \in Tabs, NEW t \in Tokens, NEW kind \in Sides \cup {"approve"},
         NEW n \in Nat, NEW s \in Steps, Send(b, t, kind, n, s), flow[b][t].step # "idle",
         UNCHANGED <<page, stored, balance, allowance, eth, upsets, orphaned>>
  PROVE  TypeInv'
<1>1. flow[b][t].account \in Accounts BY DEF TypeInv, FlowInv
<1>2. flow' \in [Tabs -> [Tokens -> Flow]] /\ txs' \in Seq(Tx) BY <1>1, SendType DEF TypeInv
<1>3. flow \in [Tabs -> [Tokens -> Flow]] BY DEF TypeInv, TypeOK
<1>4. flow'[b][t].account = flow[b][t].account
  BY <1>3 DEF Send, Becomes, Flow
<1>5. \A c \in Tabs, u \in Tokens : c # b \/ u # t => flow'[c][u] = flow[c][u]
  BY <1>3 DEF Send, Becomes
<1>6. FlowInv' BY <1>1, <1>4, <1>5 DEF TypeInv, FlowInv
<1> QED BY <1>2, <1>6 DEF TypeInv, TypeOK, page

LEMMA Recorded ==
  ASSUME QuickBuyAssumption, TypeInv, NEW b \in Tabs, NEW t \in Tokens, NEW r \in TradeRecord,
         AddTrade(b, r), Becomes(b, t, Idle), UNCHANGED <<wallet, dialog, chain>>
  PROVE  TypeInv'
<1>1. FlowInv' /\ flow' \in [Tabs -> [Tokens -> Flow]] BY IdleFlow, FlowKept
<1>2. /\ trades' \in [Tabs -> Seq(TradeRecord)] /\ stored' \in [Accounts -> Seq(TradeRecord)]
      /\ orphaned' \subseteq Nat /\ upsets' \in Nat
  BY AddType DEF TypeInv
<1> QED BY <1>1, <1>2 DEF TypeInv, TypeOK, chain

(* What a sale can read of the balance, and what it records.               *)
LEMMA ShareType ==
  ASSUME TypeInv, NEW b \in Tabs, NEW t \in Tokens, flow[b][t].step # "idle",
         NEW n \in Share(b, t)
  PROVE  n \in Nat
<1>1. flow[b][t].account \in Accounts BY DEF TypeInv, FlowInv
<1>2. balance[flow[b][t].account][t] \in Nat BY <1>1 DEF TypeInv, TypeOK
<1>3. \A m \in Nat : m \div 2 \in Nat OBVIOUS
<1> QED BY <1>2, <1>3 DEF Share

LEMMA MineType ==
  ASSUME TypeInv, NEW i \in DOMAIN txs, Mine(i)
  PROVE  TypeInv'
<1>1. /\ txs \in Seq(Tx) /\ balance \in [Accounts -> [Tokens -> Nat]]
      /\ allowance \in [Accounts -> [Tokens -> Nat]] /\ eth \in [Accounts -> Int]
  BY DEF TypeInv, TypeOK
<1>2. txs[i] \in Tx BY <1>1, ElementOfSeq, LenProperties
<1> DEFINE a == txs[i].account  t == txs[i].token  n == txs[i].amount
<1>3. a \in Accounts /\ t \in Tokens /\ n \in Nat BY <1>2 DEF Tx
<1> HIDE DEF a, t, n
<1>4. \A st \in {"done", "failed"} : [txs EXCEPT ![i].status = st] \in Seq(Tx)
  <2> SUFFICES ASSUME NEW st \in {"done", "failed"} PROVE [txs EXCEPT ![i].status = st] \in Seq(Tx)
    OBVIOUS
  <2>1. [txs[i] EXCEPT !.status = st] \in Tx BY <1>2 DEF Tx
  <2> QED BY <1>1, <2>1, ExceptSeq
<1>5. txs' \in Seq(Tx) BY <1>4 DEF Mine
<1>6. CASE UNCHANGED <<balance, allowance, eth>>
  BY <1>5, <1>6 DEF Mine, TypeInv, TypeOK, FlowInv, page
<1>7. CASE Settle(i, a, t, n)
  <2>1. balance[a][t] \in Nat /\ allowance[a][t] \in Nat /\ eth[a] \in Int BY <1>1, <1>3
  <2>2. txs[i].kind \in {"buy", "sell", "approve"} BY <1>2 DEF Tx, Sides
  <2>3. CASE txs[i].kind = "buy"
    <3>1. /\ balance' = [balance EXCEPT ![a][t] = @ + n] /\ eth' = [eth EXCEPT ![a] = @ - n]
          /\ allowance' = allowance
      BY <1>7, <2>3 DEF Settle
    <3>2. balance[a][t] + n \in Nat /\ eth[a] - n \in Int BY <1>3, <2>1
    <3>3. balance' \in [Accounts -> [Tokens -> Nat]] /\ eth' \in [Accounts -> Int]
      BY <1>1, <1>3, <3>1, <3>2
    <3> QED BY <1>1, <1>5, <3>1, <3>3 DEF Mine, TypeInv, TypeOK, FlowInv, page
  <2>4. CASE txs[i].kind = "sell"
    <3>1. /\ n <= balance[a][t] /\ n <= allowance[a][t]
          /\ balance' = [balance EXCEPT ![a][t] = @ - n] /\ eth' = [eth EXCEPT ![a] = @ + n]
          /\ allowance' = [allowance EXCEPT ![a][t] = @ - n]
      BY <1>7, <2>4 DEF Settle
    <3>2. balance[a][t] - n \in Nat /\ allowance[a][t] - n \in Nat /\ eth[a] + n \in Int
      BY <1>3, <2>1, <3>1
    <3>3. /\ balance' \in [Accounts -> [Tokens -> Nat]] /\ eth' \in [Accounts -> Int]
          /\ allowance' \in [Accounts -> [Tokens -> Nat]]
      BY <1>1, <1>3, <3>1, <3>2
    <3> QED BY <1>5, <3>3 DEF Mine, TypeInv, TypeOK, FlowInv, page
  <2>5. CASE txs[i].kind = "approve"
    <3>1. allowance' = [allowance EXCEPT ![a][t] = n] /\ UNCHANGED <<balance, eth>>
      BY <1>7, <2>5 DEF Settle
    <3>2. allowance' \in [Accounts -> [Tokens -> Nat]] BY <1>1, <1>3, <3>1
    <3> QED BY <1>1, <1>5, <3>1, <3>2 DEF Mine, TypeInv, TypeOK, FlowInv, page
  <2> QED BY <2>2, <2>3, <2>4, <2>5
<1> QED BY <1>6, <1>7 DEF Mine, a, t, n

(* Every step of one chain keeps the types.                                *)
LEMMA BuyType ==
  ASSUME QuickBuyAssumption, TypeInv, NEW b \in Tabs, NEW t \in Tokens, Buy(b, t)
  PROVE  TypeInv'
<1>1. flow[b][t] \in Flow /\ wallet[b] \in Accounts \cup {NoAccount} BY DEF TypeInv, TypeOK
<1>2. CASE BuyStart(b, t)
  <2>1. [Idle EXCEPT !.step = "quote", !.account = wallet[b]] \in Flow
    BY <1>1, IdleFlow DEF Flow, Steps
  <2>2. [Idle EXCEPT !.step = "quote", !.account = wallet[b]].account \in Accounts
    BY <1>1, <1>2 DEF BuyStart, Idle
  <2> QED BY <1>2, <2>1, <2>2, OneChain DEF BuyStart
<1>3. CASE BuyQuoted(b, t)
  BY <1>3, Quoted DEF BuyQuoted, At, Steps
<1>4. CASE BuySend(b, t)
  <2>1. PICK lot \in Lots : Send(b, t, "buy", lot, "pending") BY <1>4 DEF BuySend
  <2>2. lot \in Nat BY DEF QuickBuyAssumption
  <2> QED BY <1>4, <2>1, <2>2, Sent DEF BuySend, At, Steps, Sides
<1>5. CASE BuyRecord(b, t)
  <2>1. PICK n \in (IF t \in Silent THEN {balance[flow[b][t].account][t], 0} ELSE {flow[b][t].amount}) :
          AddTrade(b, [tx |-> flow[b][t].tx, kind |-> "buy", token |-> t, amount |-> n, eth |-> flow[b][t].amount])
    BY <1>5 DEF BuyRecord
  <2>2. flow[b][t].account \in Accounts BY <1>5 DEF BuyRecord, At, TypeInv, FlowInv
  <2>3. n \in Nat BY <1>1, <2>1, <2>2 DEF TypeInv, TypeOK, Flow
  <2>4. [tx |-> flow[b][t].tx, kind |-> "buy", token |-> t, amount |-> n, eth |-> flow[b][t].amount] \in TradeRecord
    BY <1>1, <2>3 DEF TradeRecord, Flow, Sides
  <2> QED BY <1>5, <2>1, <2>4, Recorded DEF BuyRecord
<1> QED BY <1>2, <1>3, <1>4, <1>5 DEF Buy

LEMMA SellType ==
  ASSUME QuickBuyAssumption, TypeInv, NEW b \in Tabs, NEW t \in Tokens, Sell(b, t)
  PROVE  TypeInv'
<1>1. flow[b][t] \in Flow /\ wallet[b] \in Accounts \cup {NoAccount} BY DEF TypeInv, TypeOK
<1>2. flow[b][t].step # "idle" => flow[b][t].account \in Accounts BY DEF TypeInv, FlowInv
<1>3. CASE SellStart(b, t)
  <2>1. [Idle EXCEPT !.step = "balance", !.side = "sell", !.account = wallet[b]] \in Flow
    BY <1>1, IdleFlow DEF Flow, Steps, Sides
  <2>2. [Idle EXCEPT !.step = "balance", !.side = "sell", !.account = wallet[b]].account \in Accounts
    BY <1>1, <1>3 DEF SellStart, Idle
  <2> QED BY <1>3, <2>1, <2>2, OneChain DEF SellStart
<1>4. CASE SellBalance(b, t)
  <2>1. PICK n \in Share(b, t) :
          Becomes(b, t, IF n = 0 THEN Idle ELSE [flow[b][t] EXCEPT !.step = "quote", !.amount = n])
    BY <1>4 DEF SellBalance
  <2>2. n \in Nat /\ flow[b][t].account \in Accounts
    BY <1>2, <1>4, <2>1, ShareType DEF SellBalance, At
  <2>3. [flow[b][t] EXCEPT !.step = "quote", !.amount = n] \in Flow BY <1>1, <2>2 DEF Flow, Steps
  <2>4. [flow[b][t] EXCEPT !.step = "quote", !.amount = n].account \in Accounts BY <1>1, <2>2 DEF Flow
  <2>5. CASE n = 0 BY <1>4, <2>1, <2>5, OneEnds DEF SellBalance
  <2>6. CASE n # 0 BY <1>4, <2>1, <2>3, <2>4, <2>6, OneChain DEF SellBalance
  <2> QED BY <2>5, <2>6
<1>5. CASE SellQuoted(b, t)
  BY <1>5, Quoted DEF SellQuoted, At, Steps
<1>6. CASE SellAllowance(b, t)
  <2>1. PICK s \in {"approve", "before"} : Goes(b, t, s) BY <1>6 DEF SellAllowance
  <2> QED BY <1>6, <2>1, OneStep DEF SellAllowance, At, Steps
<1>7. CASE SellApprove(b, t)
  BY <1>1, <1>7, Sent DEF SellApprove, At, Steps, Flow
<1>8. CASE SellApproved(b, t)
  BY <1>8, OneStep DEF SellApproved, At, Steps
<1>9. CASE SellBefore(b, t)
  <2>1. flow[b][t].account \in Accounts /\ eth[flow[b][t].account] \in Int
    BY <1>2, <1>9 DEF SellBefore, At, TypeInv, TypeOK
  <2>2. [flow[b][t] EXCEPT !.step = "wallet", !.before = eth[flow[b][t].account]] \in Flow
    BY <1>1, <2>1 DEF Flow, Steps
  <2>3. [flow[b][t] EXCEPT !.step = "wallet", !.before = eth[flow[b][t].account]].account \in Accounts
    BY <1>1, <2>1 DEF Flow
  <2> QED BY <1>9, <2>2, <2>3, OneChain DEF SellBefore
<1>10. CASE SellSend(b, t)
  BY <1>1, <1>10, Sent DEF SellSend, At, Steps, Sides, Flow
<1>11. CASE SellRecord(b, t)
  <2>1. flow[b][t].account \in Accounts /\ eth[flow[b][t].account] \in Int
    BY <1>2, <1>11 DEF SellRecord, At, TypeInv, TypeOK
  <2>2. Received(flow[b][t]) \in Int BY <1>1, <2>1 DEF Received, Flow
  <2>3. [tx |-> flow[b][t].tx, kind |-> "sell", token |-> t, amount |-> flow[b][t].amount,
         eth |-> Received(flow[b][t])] \in TradeRecord
    BY <1>1, <2>2 DEF TradeRecord, Flow, Sides
  <2> QED BY <1>11, <2>3, Recorded DEF SellRecord
<1> QED BY <1>3, <1>4, <1>5, <1>6, <1>7, <1>8, <1>9, <1>10, <1>11 DEF Sell

LEMMA OtherType ==
  ASSUME QuickBuyAssumption, TypeInv, NEW b \in Tabs, NEW t \in Tokens,
         Confirmed(b, t) \/ Reverted(b, t) \/ Throws(b, t) \/ AnswerLost(b, t)
  PROVE  TypeInv'
<1>1. flow[b][t] \in Flow BY DEF TypeInv, TypeOK
<1>2. CASE Confirmed(b, t) BY <1>2, OneStep DEF Confirmed, Steps
<1>3. CASE Reverted(b, t) BY <1>3, OneEnds DEF Reverted
<1>4. CASE Throws(b, t)
  <2>1. FlowInv' /\ flow' \in [Tabs -> [Tokens -> Flow]] BY <1>4, IdleFlow, FlowKept DEF Throws
  <2>2. orphaned' \subseteq Nat BY <1>1, <1>4 DEF Throws, Flow, TypeInv, TypeOK
  <2> QED BY <1>4, <2>1, <2>2 DEF Throws, TypeInv, TypeOK, page, chain
<1>5. CASE AnswerLost(b, t)
  <2>1. PICK kind \in Sides \cup {"approve"}, n \in Nat : GoesOut(b, t, kind, n)
    <3>1. Amounts(flow[b][t]) \subseteq Nat BY <1>1 DEF Amounts, Flow, QuickBuyAssumption
    <3> QED BY <1>1, <1>5, <3>1 DEF AnswerLost, Flow
  <2>2. flow[b][t].account \in Accounts BY <1>5 DEF AnswerLost, TypeInv, FlowInv
  <2>3. txs' \in Seq(Tx) BY <2>1, <2>2, OutType DEF TypeInv
  <2>4. FlowInv' /\ flow' \in [Tabs -> [Tokens -> Flow]] BY <1>5, IdleFlow, FlowKept DEF AnswerLost
  <2>5. Len(txs) + 1 \in Nat BY LenProperties DEF TypeInv, TypeOK
  <2>6. orphaned' \subseteq Nat BY <1>5, <2>5 DEF AnswerLost, TypeInv, TypeOK
  <2> QED BY <1>5, <2>3, <2>4, <2>6 DEF AnswerLost, TypeInv, TypeOK, page
<1> QED BY <1>2, <1>3, <1>4, <1>5

LEMMA PageType ==
  ASSUME QuickBuyAssumption, TypeInv, NEW b \in Tabs,
         Load(b) \/ \E a \in Accounts \cup {NoAccount} : SetWallet(b, a)
  PROVE  TypeInv'
<1>0. /\ trades \in [Tabs -> Seq(TradeRecord)] /\ stored \in [Accounts -> Seq(TradeRecord)]
      /\ wallet \in [Tabs -> Accounts \cup {NoAccount}] /\ orphaned \subseteq Nat /\ upsets \in Nat
      /\ flow \in [Tabs -> [Tokens -> Flow]] /\ dialog \in [Tabs -> Tokens \cup {NoToken}]
  BY DEF TypeInv, TypeOK
<1>1. <<>> \in Seq(TradeRecord) BY EmptySeq
<1>2. Unsaved(b) \subseteq Nat BY <1>0, IdsType DEF Unsaved
<1>3. CASE Load(b)
  <2>1. trades' \in [Tabs -> Seq(TradeRecord)] BY <1>0, <1>1, <1>3 DEF Load
  <2>2. flow' = [flow EXCEPT ![b] = [t \in Tokens |-> Idle]] BY <1>3 DEF Load
  <2>3. [t \in Tokens |-> Idle] \in [Tokens -> Flow] BY IdleFlow
  <2>4. flow' \in [Tabs -> [Tokens -> Flow]] BY <1>0, <2>2, <2>3
  <2>5. \A c \in Tabs, t \in Tokens : flow'[c][t] = IF c = b THEN Idle ELSE flow[c][t]
    BY <1>0, <2>2
  <2>6. FlowInv' BY <2>5, IdleFlow DEF FlowInv, TypeInv
  <2>7. \A t \in Tokens : flow[b][t].tx \in Nat BY <1>0 DEF Flow
  <2>8. orphaned' \subseteq Nat
    <3>1. InFlight(b) \subseteq Nat BY <2>7 DEF InFlight
    <3> QED BY <1>0, <1>3, <1>2, <3>1 DEF Load
  <2>9. wallet' \in [Tabs -> Accounts \cup {NoAccount}] /\ dialog' \in [Tabs -> Tokens \cup {NoToken}]
        /\ upsets' \in Nat
    BY <1>0, <1>3 DEF Load, Upset
  <2> QED BY <1>3, <2>1, <2>4, <2>6, <2>8, <2>9 DEF Load, TypeInv, TypeOK, chain
<1>4. CASE \E a \in Accounts \cup {NoAccount} : SetWallet(b, a)
  <2>1. PICK a \in Accounts \cup {NoAccount} : SetWallet(b, a) BY <1>4
  <2>2. (IF a = NoAccount THEN <<>> ELSE stored[a]) \in Seq(TradeRecord) BY <1>0, <1>1
  <2>3. trades' \in [Tabs -> Seq(TradeRecord)] BY <1>0, <1>1, <2>1, <2>2 DEF SetWallet
  <2>4. wallet' \in [Tabs -> Accounts \cup {NoAccount}] BY <1>0, <2>1 DEF SetWallet
  <2>5. upsets' \in Nat BY <1>0, <2>1 DEF SetWallet, Upset
  <2>6. orphaned' \subseteq Nat BY <1>0, <1>2, <2>1 DEF SetWallet
  <2> QED BY <2>1, <2>3, <2>4, <2>5, <2>6 DEF SetWallet, TypeInv, TypeOK, FlowInv, chain
<1> QED BY <1>3, <1>4

-----------------------------------------------------------------------------
(* The dialog.  A chain waits for it exactly when the dialog shows it:     *)
(* opening it ends the one that was waiting, answering it or leaving the   *)
(* page ends the wait, and no other step enters or leaves it.              *)

(* A chain that neither waits for the dialog nor begins to.                *)
LEMMA DialogOneChain ==
  ASSUME TypeInv, DialogAnswersItsFlow, NEW b \in Tabs, NEW t \in Tokens, NEW f,
         Becomes(b, t, f), f.step # "confirm", flow[b][t].step # "confirm", UNCHANGED dialog
  PROVE  DialogAnswersItsFlow'
<1>1. flow \in [Tabs -> [Tokens -> Flow]] BY DEF TypeInv, TypeOK
<1>2. \A c \in Tabs, s \in Tokens : flow'[c][s] = IF c = b /\ s = t THEN f ELSE flow[c][s]
  BY <1>1 DEF Becomes
<1> QED BY <1>2 DEF DialogAnswersItsFlow, At

LEMMA DialogOneStep ==
  ASSUME TypeInv, DialogAnswersItsFlow, NEW b \in Tabs, NEW t \in Tokens, NEW s \in Steps,
         Goes(b, t, s), s # "confirm", flow[b][t].step # "confirm", UNCHANGED dialog
  PROVE  DialogAnswersItsFlow'
<1>1. [flow[b][t] EXCEPT !.step = s].step = s BY DEF TypeInv, TypeOK, Flow
<1> QED BY <1>1, DialogOneChain DEF Goes

LEMMA DialogQuoted ==
  ASSUME QuickBuyAssumption, TypeInv, DialogAnswersItsFlow, NEW b \in Tabs, NEW t \in Tokens,
         NEW s \in Steps, s # "confirm", flow[b][t].step = "quote",
         RequestConfirm(b, t) \/ (Goes(b, t, s) /\ UNCHANGED dialog)
  PROVE  DialogAnswersItsFlow'
<1>1. flow \in [Tabs -> [Tokens -> Flow]] /\ dialog \in [Tabs -> Tokens \cup {NoToken}] BY DEF TypeInv, TypeOK
<1>2. CASE Goes(b, t, s) /\ UNCHANGED dialog BY <1>2, DialogOneStep
<1>3. CASE RequestConfirm(b, t)
  <2>1. dialog' = [dialog EXCEPT ![b] = t] BY <1>3 DEF RequestConfirm
  <2> SUFFICES ASSUME NEW c \in Tabs, NEW u \in Tokens
               PROVE  flow'[c][u].step = "confirm" <=> dialog'[c] = u
    BY DEF DialogAnswersItsFlow, At
  <2>2. CASE c # b
    <3>1. flow'[c] = flow[c] /\ dialog'[c] = dialog[c] BY <1>1, <1>3, <2>1, <2>2 DEF RequestConfirm
    <3> QED BY <3>1 DEF DialogAnswersItsFlow, At
  <2>3. CASE c = b /\ u = t
    <3>1. flow'[c][u] = [flow[b][t] EXCEPT !.step = "confirm"] BY <1>1, <1>3, <2>3 DEF RequestConfirm
    <3> QED BY <1>1, <2>1, <2>3, <3>1 DEF Flow
  <2>4. CASE c = b /\ u # t
    <3>1. flow'[c][u] = IF u = dialog[b] THEN Idle ELSE flow[b][u]
      BY <1>1, <1>3, <2>4 DEF RequestConfirm, Declined
    <3>2. flow'[c][u].step # "confirm"
      BY <3>1, IdleFlow DEF DialogAnswersItsFlow, At
    <3> QED BY <1>1, <2>1, <2>4, <3>2
  <2> QED BY <2>2, <2>3, <2>4
<1> QED BY <1>2, <1>3

LEMMA DialogAnswered ==
  ASSUME QuickBuyAssumption, TypeInv, DialogAnswersItsFlow, NEW b \in Tabs,
         NEW yes \in BOOLEAN, Answer(b, yes)
  PROVE  DialogAnswersItsFlow'
<1> DEFINE t == dialog[b]
           f == IF ~yes THEN Idle
                ELSE [flow[b][t] EXCEPT !.step = IF flow[b][t].side = "buy" THEN "wallet" ELSE "allowance"]
<1>1. /\ flow \in [Tabs -> [Tokens -> Flow]] /\ dialog \in [Tabs -> Tokens \cup {NoToken}]
      /\ t \in Tokens
  BY DEF TypeInv, TypeOK, Answer
<1>2. f.step # "confirm" BY <1>1, IdleFlow DEF Flow
<1>3. \A c \in Tabs, s \in Tokens : flow'[c][s] = IF c = b /\ s = t THEN f ELSE flow[c][s]
  BY <1>1 DEF Becomes, Answer
<1>4. \A c \in Tabs : dialog'[c] = IF c = b THEN NoToken ELSE dialog[c] BY <1>1 DEF Answer
<1> HIDE DEF f
<1> SUFFICES ASSUME NEW c \in Tabs, NEW s \in Tokens
             PROVE  flow'[c][s].step = "confirm" <=> dialog'[c] = s
  BY DEF DialogAnswersItsFlow, At
<1>5. CASE c = b BY <1>2, <1>3, <1>4, <1>5 DEF DialogAnswersItsFlow, At, QuickBuyAssumption
<1>6. CASE c # b BY <1>3, <1>4, <1>6 DEF DialogAnswersItsFlow, At
<1> QED BY <1>5, <1>6

LEMMA DialogRecorded ==
  ASSUME QuickBuyAssumption, TypeInv, DialogAnswersItsFlow, NEW b \in Tabs, NEW t \in Tokens,
         Becomes(b, t, Idle), flow[b][t].step # "confirm", UNCHANGED dialog
  PROVE  DialogAnswersItsFlow'
BY IdleFlow, DialogOneChain

LEMMA DialogSent ==
  ASSUME TypeInv, DialogAnswersItsFlow, NEW b \in Tabs, NEW t \in Tokens, NEW kind, NEW n,
         NEW s \in Steps \ {"confirm"}, Send(b, t, kind, n, s), flow[b][t].step # "confirm",
         UNCHANGED dialog
  PROVE  DialogAnswersItsFlow'
<1> DEFINE f == [flow[b][t] EXCEPT !.step = s, !.tx = Len(txs) + 1, !.amount = n]
<1>1. f.step = s BY DEF TypeInv, TypeOK, Flow
<1>2. Becomes(b, t, f) BY DEF Send
<1> HIDE DEF f
<1> QED BY <1>1, <1>2, DialogOneChain

LEMMA DialogBuy ==
  ASSUME QuickBuyAssumption, TypeInv, DialogAnswersItsFlow, NEW b \in Tabs, NEW t \in Tokens, Buy(b, t)
  PROVE  DialogAnswersItsFlow'
<1>1. CASE BuyStart(b, t)
  <2>1. [Idle EXCEPT !.step = "quote", !.account = wallet[b]].step # "confirm" BY DEF Idle
  <2> QED BY <1>1, <2>1, DialogOneChain DEF BuyStart, At, page
<1>2. CASE BuyQuoted(b, t) BY <1>2, DialogQuoted DEF BuyQuoted, At, Steps
<1>3. CASE BuySend(b, t) BY <1>3, DialogSent DEF BuySend, At, Steps, page
<1>4. CASE BuyRecord(b, t) BY <1>4, DialogRecorded DEF BuyRecord, At
<1> QED BY <1>1, <1>2, <1>3, <1>4 DEF Buy

LEMMA DialogSell ==
  ASSUME QuickBuyAssumption, TypeInv, DialogAnswersItsFlow, NEW b \in Tabs, NEW t \in Tokens, Sell(b, t)
  PROVE  DialogAnswersItsFlow'
<1>0. flow[b][t] \in Flow BY DEF TypeInv, TypeOK
<1>1. CASE SellStart(b, t)
  <2>1. [Idle EXCEPT !.step = "balance", !.side = "sell", !.account = wallet[b]].step # "confirm" BY DEF Idle
  <2> QED BY <1>1, <2>1, DialogOneChain DEF SellStart, At, page
<1>2. CASE SellBalance(b, t)
  <2>1. PICK n : Becomes(b, t, IF n = 0 THEN Idle ELSE [flow[b][t] EXCEPT !.step = "quote", !.amount = n])
    BY <1>2 DEF SellBalance
  <2>2. [flow[b][t] EXCEPT !.step = "quote", !.amount = n].step # "confirm" BY <1>0 DEF Flow
  <2>3. CASE n = 0 BY <1>2, <2>1, <2>3, DialogRecorded DEF SellBalance, At, page
  <2>4. CASE n # 0 BY <1>2, <2>1, <2>2, <2>4, DialogOneChain DEF SellBalance, At, page
  <2> QED BY <2>3, <2>4
<1>3. CASE SellQuoted(b, t) BY <1>3, DialogQuoted DEF SellQuoted, At, Steps
<1>4. CASE SellAllowance(b, t)
  <2>1. PICK s \in {"approve", "before"} : Goes(b, t, s) BY <1>4 DEF SellAllowance
  <2> QED BY <1>4, <2>1, DialogOneStep DEF SellAllowance, At, Steps, page
<1>5. CASE SellApprove(b, t) BY <1>5, DialogSent DEF SellApprove, At, Steps, page
<1>6. CASE SellApproved(b, t) BY <1>6, DialogOneStep DEF SellApproved, At, Steps, page
<1>7. CASE SellBefore(b, t)
  <2>1. [flow[b][t] EXCEPT !.step = "wallet", !.before = eth[flow[b][t].account]].step # "confirm"
    BY <1>0 DEF Flow
  <2> QED BY <1>7, <2>1, DialogOneChain DEF SellBefore, At, page
<1>8. CASE SellSend(b, t) BY <1>8, DialogSent DEF SellSend, At, Steps, page
<1>9. CASE SellRecord(b, t) BY <1>9, DialogRecorded DEF SellRecord, At
<1> QED BY <1>1, <1>2, <1>3, <1>4, <1>5, <1>6, <1>7, <1>8, <1>9 DEF Sell

(* Every step keeps the types and the dialog with its chain.               *)
LEMMA PairStep == QuickBuyAssumption /\ TypeInv /\ DialogAnswersItsFlow /\ [Next]_vars
                  => TypeInv' /\ DialogAnswersItsFlow'
<1> SUFFICES ASSUME QuickBuyAssumption, TypeInv, DialogAnswersItsFlow, [Next]_vars
             PROVE  TypeInv' /\ DialogAnswersItsFlow'
  OBVIOUS
<1>1. ASSUME NEW b \in Tabs, NEW t \in Tokens, Buy(b, t) PROVE TypeInv' /\ DialogAnswersItsFlow'
  BY <1>1, BuyType, DialogBuy
<1>2. ASSUME NEW b \in Tabs, NEW t \in Tokens, Sell(b, t) PROVE TypeInv' /\ DialogAnswersItsFlow'
  BY <1>2, SellType, DialogSell
<1>3. ASSUME NEW b \in Tabs, NEW t \in Tokens,
             Confirmed(b, t) \/ Reverted(b, t) \/ Throws(b, t) \/ AnswerLost(b, t)
      PROVE  TypeInv' /\ DialogAnswersItsFlow'
  <2>1. TypeInv' BY <1>3, OtherType
  <2>2. CASE Confirmed(b, t) BY <2>1, <2>2, DialogOneStep DEF Confirmed, Steps, page
  <2>3. CASE Reverted(b, t) BY <2>1, <2>3, DialogRecorded DEF Reverted, page
  <2>4. CASE Throws(b, t) BY <2>1, <2>4, DialogRecorded DEF Throws, page
  <2>5. CASE AnswerLost(b, t) BY <2>1, <2>5, DialogRecorded DEF AnswerLost, page
  <2> QED BY <1>3, <2>1, <2>2, <2>3, <2>4, <2>5
<1>4. ASSUME NEW b \in Tabs, NEW yes \in BOOLEAN, Answer(b, yes) PROVE TypeInv' /\ DialogAnswersItsFlow'
  <2>1. dialog[b] \in Tokens BY <1>4 DEF Answer, TypeInv, TypeOK
  <2>2. flow[b][dialog[b]].step = "confirm" BY <2>1 DEF DialogAnswersItsFlow, At
  <2> QED BY <1>4, <2>2, Answered, DialogAnswered
<1>5. ASSUME NEW b \in Tabs, NEW a \in Accounts \cup {NoAccount}, SetWallet(b, a)
      PROVE  TypeInv' /\ DialogAnswersItsFlow'
  BY <1>5, PageType DEF SetWallet, DialogAnswersItsFlow, At
<1>6. ASSUME NEW b \in Tabs, Load(b) PROVE TypeInv' /\ DialogAnswersItsFlow'
  <2>1. TypeInv' BY <1>6, PageType
  <2>2. flow \in [Tabs -> [Tokens -> Flow]] /\ dialog \in [Tabs -> Tokens \cup {NoToken}]
    BY DEF TypeInv, TypeOK
  <2>3. \A c \in Tabs, t \in Tokens : flow'[c][t] = IF c = b THEN Idle ELSE flow[c][t]
    BY <1>6, <2>2 DEF Load
  <2>4. \A c \in Tabs : dialog'[c] = IF c = b THEN NoToken ELSE dialog[c] BY <1>6, <2>2 DEF Load
  <2>5. DialogAnswersItsFlow'
    BY <2>3, <2>4, IdleFlow DEF DialogAnswersItsFlow, At, QuickBuyAssumption
  <2> QED BY <2>1, <2>5
<1>7. ASSUME NEW i \in DOMAIN txs, Mine(i) PROVE TypeInv' /\ DialogAnswersItsFlow'
  BY <1>7, MineType DEF Mine, DialogAnswersItsFlow, At, page
<1>8. CASE UNCHANGED vars
  BY <1>8 DEF vars, page, chain, TypeInv, TypeOK, FlowInv, DialogAnswersItsFlow, At
<1> QED BY <1>1, <1>2, <1>3, <1>4, <1>5, <1>6, <1>7, <1>8 DEF Next

LEMMA PairInit == QuickBuyAssumption /\ Init => TypeInv /\ DialogAnswersItsFlow
<1> SUFFICES ASSUME QuickBuyAssumption, Init PROVE DialogAnswersItsFlow BY TypeInit
<1>1. \A b \in Tabs, t \in Tokens : flow[b][t] = Idle /\ dialog[b] = NoToken BY DEF Init
<1> QED BY <1>1, IdleFlow DEF DialogAnswersItsFlow, At, QuickBuyAssumption

LEMMA PairAlways == Spec => [](TypeInv /\ DialogAnswersItsFlow)
<1>1. Init => TypeInv /\ DialogAnswersItsFlow BY PairInit, QuickBuyAssumption
<1>2. TypeInv /\ DialogAnswersItsFlow /\ [Next]_vars => TypeInv' /\ DialogAnswersItsFlow'
  BY PairStep, QuickBuyAssumption
<1> QED BY <1>1, <1>2, PTL DEF Spec

(* Every variable of the page, of localStorage and of the chain has its    *)
(* type in every state: no transaction is recorded with an amount that is  *)
(* none, and no balance is sold below zero.                                *)
THEOREM TypeCorrect == Spec => []TypeOK
BY PairAlways, PTL DEF TypeInv

(* However trades of several tokens open, replace and close the one dialog *)
(* of a tab, a chain waits for it exactly when the dialog asks about its   *)
(* token: requestConfirm leaves nobody waiting.                            *)
THEOREM DialogShown == Spec => []DialogAnswersItsFlow
BY PairAlways, PTL

-----------------------------------------------------------------------------
(* Confirmed trades.  What the property says of a transaction that went    *)
(* through holds of every buy or sale from the moment it is sent until it  *)
(* fails: before it is mined its chain follows it, unless it was orphaned. *)
Covered(i) == Following(i) \/ OnRecord(i) \/ i \in orphaned
Kept == \A i \in DOMAIN txs : txs[i].kind \in Sides /\ txs[i].status # "failed" => Covered(i)

(* A chain that follows no transaction becomes another one.                *)
LEMMA KeptOneChain ==
  ASSUME TypeInv, Kept, NEW b \in Tabs, NEW t \in Tokens, NEW f, Becomes(b, t, f),
         flow[b][t].step \notin {"pending", "after"}, UNCHANGED <<trades, stored, txs, orphaned>>
  PROVE  Kept'
<1>1. flow \in [Tabs -> [Tokens -> Flow]] BY DEF TypeInv, TypeOK
<1>2. \A c \in Tabs, s \in Tokens : flow'[c][s] = IF c = b /\ s = t THEN f ELSE flow[c][s]
  BY <1>1 DEF Becomes
<1>3. \A i : Following(i) => Following(i)'
  <2> SUFFICES ASSUME NEW i, Following(i) PROVE Following(i)' OBVIOUS
  <2>1. PICK c \in Tabs, s \in Tokens : flow[c][s].tx = i /\ flow[c][s].step \in {"pending", "after"}
    BY DEF Following
  <2>2. flow'[c][s] = flow[c][s] BY <1>2, <2>1
  <2> QED BY <2>1, <2>2 DEF Following
<1>4. \A i : OnRecord(i) => OnRecord(i)' BY DEF OnRecord
<1> QED BY <1>3, <1>4 DEF Kept, Covered

LEMMA KeptOneStep ==
  ASSUME TypeInv, Kept, NEW b \in Tabs, NEW t \in Tokens, NEW s, Goes(b, t, s),
         flow[b][t].step \notin {"pending", "after"}, UNCHANGED <<trades, stored, txs, orphaned>>
  PROVE  Kept'
BY KeptOneChain DEF Goes

(* A chain ends that followed a transaction: it is the only one that may   *)
(* be left without a follower.                                             *)
LEMMA OthersFollowed ==
  ASSUME TypeInv, NEW b \in Tabs, NEW t \in Tokens, Becomes(b, t, Idle),
         NEW i, Following(i), i # flow[b][t].tx
  PROVE  Following(i)'
<1>1. flow \in [Tabs -> [Tokens -> Flow]] BY DEF TypeInv, TypeOK
<1>2. \A c \in Tabs, s \in Tokens : flow'[c][s] = IF c = b /\ s = t THEN Idle ELSE flow[c][s]
  BY <1>1 DEF Becomes
<1>3. PICK c \in Tabs, s \in Tokens : flow[c][s].tx = i /\ flow[c][s].step \in {"pending", "after"}
  BY DEF Following
<1>4. flow'[c][s] = flow[c][s] BY <1>2, <1>3
<1> QED BY <1>3, <1>4 DEF Following

LEMMA KeptQuoted ==
  ASSUME TypeInv, DialogAnswersItsFlow, Kept, NEW b \in Tabs, NEW t \in Tokens, NEW s,
         flow[b][t].step = "quote",
         RequestConfirm(b, t) \/ (Goes(b, t, s) /\ UNCHANGED dialog),
         UNCHANGED <<trades, stored, txs, orphaned>>
  PROVE  Kept'
<1>1. CASE Goes(b, t, s) BY <1>1, KeptOneStep
<1>2. CASE RequestConfirm(b, t)
  <2>1. flow \in [Tabs -> [Tokens -> Flow]] BY DEF TypeInv, TypeOK
  <2>2. \A c \in Tabs, u \in Tokens :
          c # b \/ (u # t /\ u # dialog[b]) => flow'[c][u] = flow[c][u]
    BY <1>2, <2>1 DEF RequestConfirm
  <2>3. \A u \in Tokens : u = dialog[b] => flow[b][u].step = "confirm" BY DEF DialogAnswersItsFlow, At
  <2>4. \A i : Following(i) => Following(i)'
    <3> SUFFICES ASSUME NEW i, Following(i) PROVE Following(i)' OBVIOUS
    <3>1. PICK c \in Tabs, u \in Tokens : flow[c][u].tx = i /\ flow[c][u].step \in {"pending", "after"}
      BY DEF Following
    <3>2. c # b \/ (u # t /\ u # dialog[b]) BY <2>3, <3>1
    <3>3. flow'[c][u] = flow[c][u] BY <2>2, <3>2
    <3> QED BY <3>1, <3>3 DEF Following
  <2>5. \A i : OnRecord(i) => OnRecord(i)' BY DEF OnRecord
  <2> QED BY <2>4, <2>5 DEF Kept, Covered
<1> QED BY <1>1, <1>2

(* The transactions, when one goes out.                                    *)
LEMMA OneMore ==
  ASSUME TypeInv, NEW b \in Tabs, NEW t \in Tokens, NEW kind, NEW n, GoesOut(b, t, kind, n)
  PROVE  /\ Len(txs) \in Nat /\ DOMAIN txs = 1 .. Len(txs)
         /\ Len(txs') = Len(txs) + 1 /\ DOMAIN txs' = 1 .. (Len(txs) + 1)
         /\ txs'[Len(txs) + 1] = [kind |-> kind, account |-> flow[b][t].account, token |-> t,
                                  amount |-> n, status |-> "sent"]
         /\ \A i \in 1 .. Len(txs) : txs'[i] = txs[i]
         /\ \A i \in DOMAIN txs' : i # Len(txs) + 1 => i \in DOMAIN txs /\ txs'[i] = txs[i]
<1> DEFINE x == [kind |-> kind, account |-> flow[b][t].account, token |-> t,
                 amount |-> n, status |-> "sent"]
<1>1. txs \in Seq(Tx) BY DEF TypeInv, TypeOK
<1>2. Len(txs) \in Nat /\ DOMAIN txs = 1 .. Len(txs) BY <1>1, LenProperties
<1>3. txs' = Append(txs, x) BY DEF GoesOut
<1> HIDE DEF x
<1>4. /\ DOMAIN txs' = 1 .. (Len(txs) + 1) /\ Len(txs') = Len(txs) + 1 /\ txs'[Len(txs) + 1] = x
      /\ \A i \in 1 .. Len(txs) : txs'[i] = txs[i]
  BY <1>1, <1>2, <1>3
<1> QED BY <1>2, <1>4 DEF x

(* A new transaction is followed by the chain that sent it; an approval    *)
(* needs no record.                                                        *)
LEMMA KeptSent ==
  ASSUME TypeInv, Kept, NEW b \in Tabs, NEW t \in Tokens, NEW kind, NEW n, NEW s,
         Send(b, t, kind, n, s), flow[b][t].step \notin {"pending", "after"},
         kind \in Sides => s = "pending", UNCHANGED <<trades, stored, orphaned>>
  PROVE  Kept'
<1> DEFINE f == [flow[b][t] EXCEPT !.step = s, !.tx = Len(txs) + 1, !.amount = n]
<1>1. flow \in [Tabs -> [Tokens -> Flow]] BY DEF TypeInv, TypeOK
<1>2. f.step = s /\ f.tx = Len(txs) + 1 BY <1>1 DEF Flow
<1>3. Becomes(b, t, f) BY DEF Send
<1>4. \A c \in Tabs, u \in Tokens : flow'[c][u] = IF c = b /\ u = t THEN f ELSE flow[c][u]
  BY <1>1, <1>3 DEF Becomes
<1> HIDE DEF f
<1>5. GoesOut(b, t, kind, n) BY DEF Send
<1>6. /\ txs'[Len(txs) + 1].kind = kind
      /\ \A i \in DOMAIN txs' : i # Len(txs) + 1 => i \in DOMAIN txs /\ txs'[i] = txs[i]
  <2>1. txs'[Len(txs) + 1] = [kind |-> kind, account |-> flow[b][t].account, token |-> t,
                              amount |-> n, status |-> "sent"]
    BY <1>5, OneMore
  <2>2. \A i \in DOMAIN txs' : i # Len(txs) + 1 => i \in DOMAIN txs /\ txs'[i] = txs[i]
    BY <1>5, OneMore
  <2> QED BY <2>1, <2>2
<1> SUFFICES ASSUME NEW i \in DOMAIN txs', txs'[i].kind \in Sides, txs'[i].status # "failed"
             PROVE  Covered(i)'
  BY DEF Kept
<1>7. CASE i = Len(txs) + 1
  <2>1. s = "pending" BY <1>6, <1>7
  <2>2. flow'[b][t].tx = i /\ flow'[b][t].step = "pending" BY <1>2, <1>4, <1>7, <2>1
  <2>3. Following(i)' BY <2>2 DEF Following
  <2> QED BY <2>3 DEF Covered
<1>8. CASE i # Len(txs) + 1
  <2>1. i \in DOMAIN txs /\ txs'[i] = txs[i] BY <1>6, <1>8
  <2>2. Covered(i) BY <2>1 DEF Kept
  <2>3. CASE Following(i)
    <3>1. PICK c \in Tabs, u \in Tokens : flow[c][u].tx = i /\ flow[c][u].step \in {"pending", "after"}
      BY <2>3 DEF Following
    <3>2. flow'[c][u] = flow[c][u] BY <1>4, <3>1
    <3> QED BY <3>1, <3>2 DEF Following, Covered
  <2>4. CASE OnRecord(i) BY <2>4 DEF OnRecord, Covered
  <2>5. CASE i \in orphaned BY <2>5 DEF Covered
  <2> QED BY <2>2, <2>3, <2>4, <2>5 DEF Covered
<1> QED BY <1>7, <1>8

(* addTrade puts the new record in localStorage, and drops another one     *)
(* only when another tab has written it.                                   *)
LEMMA IdsAppend ==
  ASSUME NEW q \in Seq(TradeRecord), NEW r \in TradeRecord
  PROVE  Ids(Append(q, r)) = Ids(q) \cup {r.tx}
<1>1. /\ Len(q) \in Nat /\ DOMAIN q = 1 .. Len(q) /\ DOMAIN Append(q, r) = 1 .. (Len(q) + 1)
      /\ Append(q, r)[Len(q) + 1] = r /\ \A i \in 1 .. Len(q) : Append(q, r)[i] = q[i]
  BY LenProperties
<1>2. \A i : i \in 1 .. (Len(q) + 1) <=> i \in 1 .. Len(q) \/ i = Len(q) + 1 BY <1>1
<1> HIDE DEF Ids
<1>3. Ids(Append(q, r)) \subseteq Ids(q) \cup {r.tx} BY <1>1, <1>2 DEF Ids
<1>4. Ids(q) \subseteq Ids(Append(q, r))
  <2> SUFFICES ASSUME NEW i \in DOMAIN q PROVE q[i].tx \in Ids(Append(q, r)) BY DEF Ids
  <2>1. i \in DOMAIN Append(q, r) /\ Append(q, r)[i] = q[i] BY <1>1, <1>2
  <2> QED BY <2>1 DEF Ids
<1>5. r.tx \in Ids(Append(q, r))
  <2>1. Len(q) + 1 \in DOMAIN Append(q, r) BY <1>1
  <2> QED BY <1>1, <2>1 DEF Ids
<1> QED BY <1>3, <1>4, <1>5

LEMMA AddCovers ==
  ASSUME TypeInv, NEW b \in Tabs, NEW r \in TradeRecord, AddTrade(b, r)
  PROVE  /\ OnRecord(r.tx)' \/ r.tx \in orphaned'
         /\ \A i : OnRecord(i) \/ i \in orphaned => OnRecord(i)' \/ i \in orphaned'
<1>0. trades \in [Tabs -> Seq(TradeRecord)] /\ stored \in [Accounts -> Seq(TradeRecord)]
  BY DEF TypeInv, TypeOK
<1>1. CASE wallet[b] = NoAccount \/ r.tx \in Ids(trades[b])
  BY <1>1 DEF AddTrade, OnRecord
<1>2. CASE ~(wallet[b] = NoAccount \/ r.tx \in Ids(trades[b]))
  <2>1. /\ wallet[b] \in Accounts /\ trades[b] \in Seq(TradeRecord)
        /\ trades' = [trades EXCEPT ![b] = Append(trades[b], r)]
        /\ \/ /\ stored' = [stored EXCEPT ![wallet[b]] = Append(trades[b], r)]
              /\ orphaned' = orphaned \cup (Ids(stored[wallet[b]]) \ Ids(trades[b]))
           \/ stored' = stored /\ orphaned' = orphaned
    BY <1>2, AddedTo DEF TypeInv
  <2>2. Ids(Append(trades[b], r)) = Ids(trades[b]) \cup {r.tx} BY <2>1, IdsAppend
  <2>3. trades'[b] = Append(trades[b], r) /\ \A c \in Tabs : c # b => trades'[c] = trades[c]
    BY <1>0, <2>1
  <2>4. \A c \in Tabs : Ids(trades[c]) \subseteq Ids(trades'[c]) BY <2>2, <2>3
  <2>5. \A i : OnRecord(i)' <=> (\E a \in Accounts : i \in Ids(stored'[a])) \/ \E c \in Tabs : i \in Ids(trades'[c])
    BY DEF OnRecord, Ids
  <2>6. OnRecord(r.tx)' BY <2>2, <2>3, <2>5
  <2>7. ASSUME NEW i, OnRecord(i) PROVE OnRecord(i)' \/ i \in orphaned'
    <3>1. CASE \E c \in Tabs : i \in Ids(trades[c]) BY <2>4, <2>5, <3>1
    <3>2. CASE \E a \in Accounts : i \in Ids(stored[a])
      <4>1. PICK a \in Accounts : i \in Ids(stored[a]) BY <3>2
      <4>2. CASE stored'[a] = stored[a] BY <2>5, <4>1, <4>2
      <4>3. CASE stored'[a] # stored[a]
        <5>1. a = wallet[b] /\ orphaned' = orphaned \cup (Ids(stored[a]) \ Ids(trades[b]))
          BY <1>0, <2>1, <4>3
        <5> QED BY <2>4, <2>5, <4>1, <5>1
      <4> QED BY <4>2, <4>3
    <3> QED BY <2>7, <3>1, <3>2 DEF OnRecord
  <2>8. orphaned \subseteq orphaned' BY <2>1
  <2> QED BY <2>6, <2>7, <2>8
<1> QED BY <1>1, <1>2

LEMMA KeptRecorded ==
  ASSUME TypeInv, Kept, NEW b \in Tabs, NEW t \in Tokens, NEW r \in TradeRecord,
         r.tx = flow[b][t].tx, AddTrade(b, r), Becomes(b, t, Idle), UNCHANGED txs
  PROVE  Kept'
<1> SUFFICES ASSUME NEW i \in DOMAIN txs, Covered(i) PROVE Covered(i)' BY DEF Kept
<1>1. CASE i = flow[b][t].tx BY <1>1, AddCovers DEF Covered
<1>2. CASE i # flow[b][t].tx /\ Following(i) BY <1>2, OthersFollowed DEF Covered
<1>3. CASE OnRecord(i) \/ i \in orphaned BY <1>3, AddCovers DEF Covered
<1> QED BY <1>1, <1>2, <1>3 DEF Covered

LEMMA KeptBuy ==
  ASSUME TypeInv, DialogAnswersItsFlow, QuickBuyAssumption, Kept, NEW b \in Tabs, NEW t \in Tokens, Buy(b, t)
  PROVE  Kept'
<1>1. CASE BuyStart(b, t) BY <1>1, KeptOneChain DEF BuyStart, At, page, chain
<1>2. CASE BuyQuoted(b, t) BY <1>2, KeptQuoted DEF BuyQuoted, At, chain
<1>3. CASE BuySend(b, t) BY <1>3, KeptSent DEF BuySend, At, page, Sides
<1>4. CASE BuyRecord(b, t)
  <2>1. PICK n \in (IF t \in Silent THEN {balance[flow[b][t].account][t], 0} ELSE {flow[b][t].amount}) :
          AddTrade(b, [tx |-> flow[b][t].tx, kind |-> "buy", token |-> t, amount |-> n, eth |-> flow[b][t].amount])
    BY <1>4 DEF BuyRecord
  <2>2. flow[b][t] \in Flow /\ flow[b][t].account \in Accounts
    BY <1>4 DEF BuyRecord, At, TypeInv, TypeOK, FlowInv
  <2>3. n \in Nat BY <2>1, <2>2 DEF TypeInv, TypeOK, Flow
  <2>4. [tx |-> flow[b][t].tx, kind |-> "buy", token |-> t, amount |-> n, eth |-> flow[b][t].amount] \in TradeRecord
    BY <2>2, <2>3 DEF TradeRecord, Flow, Sides
  <2> QED BY <1>4, <2>1, <2>4, KeptRecorded DEF BuyRecord, chain
<1> QED BY <1>1, <1>2, <1>3, <1>4 DEF Buy

LEMMA KeptSell ==
  ASSUME TypeInv, DialogAnswersItsFlow, QuickBuyAssumption, Kept, NEW b \in Tabs, NEW t \in Tokens, Sell(b, t)
  PROVE  Kept'
<1>1. CASE SellStart(b, t) BY <1>1, KeptOneChain DEF SellStart, At, page, chain
<1>2. CASE SellBalance(b, t) BY <1>2, KeptOneChain DEF SellBalance, At, page, chain
<1>3. CASE SellQuoted(b, t) BY <1>3, KeptQuoted DEF SellQuoted, At, chain
<1>4. CASE SellAllowance(b, t) BY <1>4, KeptOneStep DEF SellAllowance, At, page, chain
<1>5. CASE SellApprove(b, t) BY <1>5, KeptSent DEF SellApprove, At, page, Sides
<1>6. CASE SellApproved(b, t) BY <1>6, KeptOneStep DEF SellApproved, At, page, chain
<1>7. CASE SellBefore(b, t) BY <1>7, KeptOneChain DEF SellBefore, At, page, chain
<1>8. CASE SellSend(b, t) BY <1>8, KeptSent DEF SellSend, At, page, Sides
<1>9. CASE SellRecord(b, t)
  <2>1. flow[b][t] \in Flow /\ flow[b][t].account \in Accounts /\ eth[flow[b][t].account] \in Int
    BY <1>9 DEF SellRecord, At, TypeInv, TypeOK, FlowInv
  <2>2. Received(flow[b][t]) \in Int BY <2>1 DEF Received, Flow
  <2>3. [tx |-> flow[b][t].tx, kind |-> "sell", token |-> t, amount |-> flow[b][t].amount,
         eth |-> Received(flow[b][t])] \in TradeRecord
    BY <2>1, <2>2 DEF TradeRecord, Flow, Sides
  <2> QED BY <1>9, <2>3, KeptRecorded DEF SellRecord, chain
<1> QED BY <1>1, <1>2, <1>3, <1>4, <1>5, <1>6, <1>7, <1>8, <1>9 DEF Sell

(* The receipt: a chain that goes on from a confirmed transaction follows  *)
(* it still; one that ends with a failed transaction leaves none behind.   *)
LEMMA KeptOther ==
  ASSUME QuickBuyAssumption, TypeInv, Kept, NEW b \in Tabs, NEW t \in Tokens,
         Confirmed(b, t) \/ Reverted(b, t) \/ Throws(b, t) \/ AnswerLost(b, t)
  PROVE  Kept'
<1>0. flow \in [Tabs -> [Tokens -> Flow]] BY DEF TypeInv, TypeOK
<1>1. CASE Confirmed(b, t)
  <2> DEFINE f == [flow[b][t] EXCEPT !.step = "after"]
  <2>1. f.step = "after" /\ f.tx = flow[b][t].tx BY <1>0 DEF Flow
  <2>2. \A c \in Tabs, u \in Tokens : flow'[c][u] = IF c = b /\ u = t THEN f ELSE flow[c][u]
    BY <1>0, <1>1 DEF Confirmed, Goes, Becomes
  <2> HIDE DEF f
  <2>3. ASSUME NEW i, Following(i) PROVE Following(i)'
    <3>1. PICK c \in Tabs, u \in Tokens : flow[c][u].tx = i /\ flow[c][u].step \in {"pending", "after"}
      BY <2>3 DEF Following
    <3>2. flow'[c][u].tx = i /\ flow'[c][u].step \in {"pending", "after"} BY <2>1, <2>2, <3>1
    <3> QED BY <3>2 DEF Following
  <2>4. trades' = trades /\ stored' = stored /\ txs' = txs /\ orphaned' = orphaned
    BY <1>1 DEF Confirmed, page, chain
  <2>5. \A i : OnRecord(i) => OnRecord(i)' BY <2>4 DEF OnRecord
  <2> QED BY <2>3, <2>4, <2>5 DEF Kept, Covered
<1>2. CASE Reverted(b, t)
  <2>1. trades' = trades /\ stored' = stored /\ txs' = txs /\ orphaned' = orphaned
    BY <1>2 DEF Reverted, page, chain
  <2>2. \A i : OnRecord(i) => OnRecord(i)' BY <2>1 DEF OnRecord
  <2>3. txs[flow[b][t].tx].status = "failed" BY <1>2 DEF Reverted
  <2> SUFFICES ASSUME NEW i \in DOMAIN txs, txs[i].status # "failed", Covered(i) PROVE Covered(i)'
    BY <2>1 DEF Kept
  <2>4. i # flow[b][t].tx BY <2>3
  <2>5. Following(i) => Following(i)' BY <1>2, <2>4, OthersFollowed DEF Reverted
  <2> QED BY <2>1, <2>2, <2>5 DEF Covered
<1>3. CASE Throws(b, t)
  <2>1. trades' = trades /\ stored' = stored /\ txs' = txs
        /\ orphaned' = orphaned \cup (IF flow[b][t].step \in {"pending", "after"} THEN {flow[b][t].tx} ELSE {})
    BY <1>3 DEF Throws, page, chain
  <2>2. \A i : OnRecord(i) => OnRecord(i)' BY <2>1 DEF OnRecord
  <2>3. CASE flow[b][t].step \notin {"pending", "after"}
    BY <1>3, <2>1, <2>3, KeptOneChain DEF Throws
  <2>4. CASE flow[b][t].step \in {"pending", "after"}
    <3> SUFFICES ASSUME NEW i \in DOMAIN txs, Covered(i) PROVE Covered(i)' BY <2>1 DEF Kept
    <3>1. CASE i = flow[b][t].tx BY <2>1, <2>4, <3>1 DEF Covered
    <3>2. CASE i # flow[b][t].tx
      <4>1. Following(i) => Following(i)' BY <1>3, <3>2, OthersFollowed DEF Throws
      <4> QED BY <2>1, <2>2, <4>1 DEF Covered
    <3> QED BY <3>1, <3>2
  <2> QED BY <2>3, <2>4
<1>4. CASE AnswerLost(b, t)
  <2>1. PICK kind, n : GoesOut(b, t, kind, n) BY <1>4 DEF AnswerLost
  <2>2. \A i \in DOMAIN txs' : i # Len(txs) + 1 => i \in DOMAIN txs /\ txs'[i] = txs[i]
    BY <2>1, OneMore
  <2>3. /\ trades' = trades /\ stored' = stored /\ orphaned' = orphaned \cup {Len(txs) + 1}
        /\ Becomes(b, t, Idle) /\ flow[b][t].step \notin {"pending", "after"}
    BY <1>4 DEF AnswerLost, page
  <2>4. \A i : OnRecord(i) => OnRecord(i)' BY <2>3 DEF OnRecord
  <2>5. \A c \in Tabs, u \in Tokens : flow'[c][u] = IF c = b /\ u = t THEN Idle ELSE flow[c][u]
    BY <1>0, <2>3 DEF Becomes
  <2>6. ASSUME NEW i, Following(i) PROVE Following(i)'
    <3>1. PICK c \in Tabs, u \in Tokens : flow[c][u].tx = i /\ flow[c][u].step \in {"pending", "after"}
      BY <2>6 DEF Following
    <3>2. flow'[c][u] = flow[c][u] BY <2>3, <2>5, <3>1
    <3> QED BY <3>1, <3>2 DEF Following
  <2> SUFFICES ASSUME NEW i \in DOMAIN txs', txs'[i].kind \in Sides, txs'[i].status # "failed"
               PROVE  Covered(i)'
    BY DEF Kept
  <2>7. CASE i = Len(txs) + 1 BY <2>3, <2>7 DEF Covered
  <2>8. CASE i # Len(txs) + 1
    <3>1. Covered(i) BY <2>2, <2>8 DEF Kept
    <3> QED BY <2>3, <2>4, <2>6, <3>1 DEF Covered
  <2> QED BY <2>7, <2>8
<1> QED BY <1>1, <1>2, <1>3, <1>4

(* The records of a tab go, with its page or its account: those that       *)
(* localStorage has too stay, the others are orphaned.                     *)
LEMMA RecordsGo ==
  ASSUME TypeInv, NEW b \in Tabs, UNCHANGED stored, \A c \in Tabs : c # b => trades'[c] = trades[c],
         Unsaved(b) \subseteq orphaned', NEW i, OnRecord(i)
  PROVE  OnRecord(i)' \/ i \in orphaned'
<1>1. OnRecord(i)' <=> (\E a \in Accounts : i \in Ids(stored[a])) \/ \E c \in Tabs : i \in Ids(trades'[c])
  BY DEF OnRecord, Ids
<1>2. CASE \E a \in Accounts : i \in Ids(stored[a]) BY <1>1, <1>2
<1>3. CASE (\E c \in Tabs : i \in Ids(trades[c])) /\ ~\E a \in Accounts : i \in Ids(stored[a])
  <2>1. PICK c \in Tabs : i \in Ids(trades[c]) BY <1>3
  <2>2. CASE c # b BY <1>1, <2>1, <2>2
  <2>3. CASE c = b BY <1>3, <2>1, <2>3 DEF Unsaved
  <2> QED BY <2>2, <2>3
<1> QED BY <1>2, <1>3 DEF OnRecord

LEMMA KeptPage ==
  ASSUME TypeInv, Kept, NEW b \in Tabs,
         Load(b) \/ \E a \in Accounts \cup {NoAccount} : SetWallet(b, a)
  PROVE  Kept'
<1>0. flow \in [Tabs -> [Tokens -> Flow]] /\ trades \in [Tabs -> Seq(TradeRecord)]
  BY DEF TypeInv, TypeOK
<1>1. /\ stored' = stored /\ txs' = txs /\ orphaned \subseteq orphaned' /\ Unsaved(b) \subseteq orphaned'
      /\ flow' = flow \/ InFlight(b) \subseteq orphaned'
  BY DEF Load, SetWallet, chain
<1>2. \A c \in Tabs : c # b => flow'[c] = flow[c] /\ trades'[c] = trades[c]
  BY <1>0 DEF Load, SetWallet
<1>3. \A i : OnRecord(i) => OnRecord(i)' \/ i \in orphaned' BY <1>1, <1>2, RecordsGo
<1>4. ASSUME NEW i, Following(i) PROVE Following(i)' \/ i \in orphaned'
  <2>1. PICK c \in Tabs, u \in Tokens : flow[c][u].tx = i /\ flow[c][u].step \in {"pending", "after"}
    BY <1>4 DEF Following
  <2>2. CASE flow'[c] = flow[c] BY <2>1, <2>2 DEF Following
  <2>3. CASE flow'[c] # flow[c]
    <3>1. c = b /\ InFlight(b) \subseteq orphaned' BY <1>1, <1>2, <2>3
    <3>2. i \in InFlight(b) BY <2>1, <3>1 DEF InFlight
    <3> QED BY <3>1, <3>2
  <2> QED BY <2>2, <2>3
<1> QED BY <1>1, <1>3, <1>4 DEF Kept, Covered

LEMMA KeptMined ==
  ASSUME TypeInv, Kept, NEW j \in DOMAIN txs, Mine(j)
  PROVE  Kept'
<1>1. txs \in Seq(Tx) BY DEF TypeInv, TypeOK
<1>2. PICK st \in {"done", "failed"} : txs' = [txs EXCEPT ![j].status = st] BY DEF Mine
<1>3. txs[j] \in Tx BY <1>1, ElementOfSeq, LenProperties
<1>4. [txs[j] EXCEPT !.status = st].kind = txs[j].kind BY <1>3 DEF Tx
<1>5. \A i \in DOMAIN txs : txs'[i].kind = txs[i].kind /\ (i # j => txs'[i] = txs[i])
  BY <1>2, <1>4
<1>6. DOMAIN txs' = DOMAIN txs BY <1>2
<1>7. txs[j].status = "sent" BY DEF Mine
<1>8. \A i \in DOMAIN txs : txs'[i].status # "failed" => txs[i].status # "failed"
  BY <1>5, <1>7
<1>9. flow' = flow /\ trades' = trades /\ stored' = stored /\ orphaned' = orphaned
  BY DEF Mine, page
<1>10. \A i : Covered(i) => Covered(i)' BY <1>9 DEF Covered, Following, OnRecord
<1> QED BY <1>5, <1>6, <1>8, <1>10 DEF Kept

LEMMA KeptStep == QuickBuyAssumption /\ TypeInv /\ DialogAnswersItsFlow /\ Kept /\ [Next]_vars => Kept'
<1> SUFFICES ASSUME QuickBuyAssumption, TypeInv, DialogAnswersItsFlow, Kept, [Next]_vars PROVE Kept'
  OBVIOUS
<1>1. ASSUME NEW b \in Tabs, NEW t \in Tokens, Buy(b, t) PROVE Kept' BY <1>1, KeptBuy
<1>2. ASSUME NEW b \in Tabs, NEW t \in Tokens, Sell(b, t) PROVE Kept' BY <1>2, KeptSell
<1>3. ASSUME NEW b \in Tabs, NEW t \in Tokens,
             Confirmed(b, t) \/ Reverted(b, t) \/ Throws(b, t) \/ AnswerLost(b, t)
      PROVE  Kept'
  BY <1>3, KeptOther
<1>4. ASSUME NEW b \in Tabs, NEW yes \in BOOLEAN, Answer(b, yes) PROVE Kept'
  <2>1. dialog[b] \in Tokens BY <1>4 DEF Answer, TypeInv, TypeOK
  <2>2. flow[b][dialog[b]].step = "confirm" BY <2>1 DEF DialogAnswersItsFlow, At
  <2>3. trades' = trades /\ stored' = stored /\ txs' = txs /\ orphaned' = orphaned
    BY <1>4 DEF Answer, chain
  <2>4. PICK f : Becomes(b, dialog[b], f) BY <1>4 DEF Answer
  <2> QED BY <2>1, <2>2, <2>3, <2>4, KeptOneChain
<1>5. ASSUME NEW b \in Tabs, NEW a \in Accounts \cup {NoAccount}, SetWallet(b, a) PROVE Kept'
  BY <1>5, KeptPage
<1>6. ASSUME NEW b \in Tabs, Load(b) PROVE Kept' BY <1>6, KeptPage
<1>7. ASSUME NEW i \in DOMAIN txs, Mine(i) PROVE Kept' BY <1>7, KeptMined
<1>8. CASE UNCHANGED vars
  BY <1>8 DEF vars, page, chain, Kept, Covered, Following, OnRecord
<1> QED BY <1>1, <1>2, <1>3, <1>4, <1>5, <1>6, <1>7, <1>8 DEF Next

(* "record what the chain confirmed": whatever the tabs, the accounts and  *)
(* the chain do between two awaits, and whenever localStorage throws, a    *)
(* buy or a sale that went through is on record, about to be recorded, or  *)
(* lost in one of the ways the model names: its chain threw, with the      *)
(* transaction known or the wallet's answer lost; the page or the account  *)
(* went, with the chain or with a record that localStorage had refused; a  *)
(* chain that ended under another account found its hash there already or  *)
(* no account at all; or a tab that had not read the record, or could not, *)
(* wrote over it.  No other step loses one.                                *)
THEOREM TradesKept == Spec => []ConfirmedIsRecorded
<1>1. Init => Kept BY DEF Init, Kept
<1>2. TypeInv /\ DialogAnswersItsFlow /\ Kept /\ [Next]_vars => Kept' BY KeptStep, QuickBuyAssumption
<1>3. Kept => ConfirmedIsRecorded BY DEF Kept, Covered, ConfirmedIsRecorded
<1> QED BY <1>1, <1>2, <1>3, PairAlways, PTL DEF Spec

-----------------------------------------------------------------------------
(* What a list of trades adds up to (Held).  Induction over a list goes by *)
(* the least number that is not in a set.                                  *)

(* Of a set of numbers that is not empty, one is the least.                *)
LEMMA LeastExists ==
  ASSUME NEW S \in SUBSET Nat, S # {}
  PROVE  \E i \in S : \A j \in S : i <= j
<1>1. PICK i \in S : \A j \in S : ~ (<<j, i>> \in OpToRel(<, Nat))
  BY NatLessThanWellFounded, WFMin
<1>2. ASSUME NEW j \in S, j < i PROVE FALSE
  <2>1. <<j, i>> \in OpToRel(<, Nat)
    BY <1>2 DEF OpToRel
  <2> QED BY <1>1, <2>1, Zenon
<1> QED BY <1>2

(* Induction up to n: a set of numbers that holds 0 and, with a number     *)
(* below n, the next one, holds them all.                                  *)
LEMMA UpTo ==
  ASSUME NEW n \in Nat, NEW S, 0 \in S, \A k \in 0 .. n - 1 : k \in S => k + 1 \in S
  PROVE  \A k \in 0 .. n : k \in S
<1> SUFFICES ASSUME NEW c \in 0 .. n, c \notin S PROVE FALSE OBVIOUS
<1> DEFINE Out == {k \in 0 .. n : k \notin S}
<1>1. Out \in SUBSET Nat /\ c \in Out OBVIOUS
<1>2. PICK i \in Out : \A j \in Out : i <= j BY <1>1, LeastExists
<1>3. i \in 0 .. n /\ i \notin S OBVIOUS
<1>4. i # 0 BY <1>3
<1>5. i - 1 \in 0 .. n - 1 /\ i - 1 \in 0 .. n /\ i - 1 + 1 = i /\ ~(i <= i - 1) BY <1>3, <1>4
<1>6. i - 1 \in S BY <1>2, <1>5
<1> QED BY <1>3, <1>5, <1>6

(* What the entries I of a list of trades or transactions add up to: the   *)
(* units held after each prefix.                                           *)
Adds(h, s, I) ==
  h = [n \in 0 .. Len(s) |-> IF n = 0 THEN 0 ELSE IF n \in I THEN After(h[n - 1], s[n]) ELSE h[n - 1]]

LEMMA AddsValues ==
  ASSUME NEW h, NEW s, NEW I, Len(s) \in Nat, Adds(h, s, I)
  PROVE  /\ h[0] = 0
         /\ \A n \in 1 .. Len(s) : h[n] = IF n \in I THEN After(h[n - 1], s[n]) ELSE h[n - 1]
<1>1. \A n \in 0 .. Len(s) : h[n] = IF n = 0 THEN 0 ELSE IF n \in I THEN After(h[n - 1], s[n]) ELSE h[n - 1]
  BY Zenon DEF Adds
<1>2. 0 \in 0 .. Len(s) /\ \A n \in 1 .. Len(s) : n \in 0 .. Len(s) /\ n # 0 OBVIOUS
<1>3. h[0] = 0 BY <1>1, <1>2
<1>4. ASSUME NEW n \in 1 .. Len(s)
      PROVE  h[n] = IF n \in I THEN After(h[n - 1], s[n]) ELSE h[n - 1]
  BY <1>1, <1>2, Zenon
<1> QED BY <1>3, <1>4, Zenon

LEMMA AddsExists ==
  ASSUME NEW s, NEW I, Len(s) \in Nat
  PROVE  \E h : Adds(h, s, I)
<1> DEFINE Part(h, m) ==
             h = [n \in 0 .. m |-> IF n = 0 THEN 0 ELSE IF n \in I THEN After(h[n - 1], s[n]) ELSE h[n - 1]]
           S == {m \in 0 .. Len(s) : \E h : Part(h, m)}
<1>1. 0 \in S
  <2> DEFINE h == [n \in 0 .. 0 |-> 0]
  <2>1. \A n \in 0 .. 0 : n = 0 OBVIOUS
  <2>2. \A n \in 0 .. 0 : 0 = IF n = 0 THEN 0 ELSE IF n \in I THEN After(h[n - 1], s[n]) ELSE h[n - 1]
    BY <2>1, Zenon
  <2>3. Part(h, 0) BY <2>2, Zenon
  <2>4. 0 \in 0 .. Len(s) OBVIOUS
  <2> HIDE DEF Part
  <2> QED BY <2>3, <2>4
<1>2. ASSUME NEW m \in 0 .. Len(s) - 1, m \in S PROVE m + 1 \in S
  <2>1. PICK g : Part(g, m) BY <1>2
  <2> DEFINE h == [n \in 0 .. m + 1 |-> IF n = m + 1 THEN IF m + 1 \in I THEN After(g[m], s[m + 1]) ELSE g[m] ELSE g[n]]
  <2>2. \A n \in 0 .. m : g[n] = IF n = 0 THEN 0 ELSE IF n \in I THEN After(g[n - 1], s[n]) ELSE g[n - 1]
    BY <2>1, Zenon
  <2>3. \A n \in 0 .. m : h[n] = g[n] OBVIOUS
  <2>4. h[m + 1] = IF m + 1 \in I THEN After(h[m], s[m + 1]) ELSE h[m] BY <2>3
  <2>5. \A n \in 1 .. m : n - 1 \in 0 .. m OBVIOUS
  <2>6. \A n \in 0 .. m + 1 :
          h[n] = IF n = 0 THEN 0 ELSE IF n \in I THEN After(h[n - 1], s[n]) ELSE h[n - 1]
    <3> HIDE DEF h
    <3> SUFFICES ASSUME NEW n \in 0 .. m + 1
                 PROVE  h[n] = IF n = 0 THEN 0 ELSE IF n \in I THEN After(h[n - 1], s[n]) ELSE h[n - 1]
      OBVIOUS
    <3>1. CASE n = m + 1
      <4>1. n - 1 = m /\ n # 0 BY <3>1
      <4> QED BY <2>4, <3>1, <4>1, Zenon
    <3>2. CASE n = 0 BY <2>2, <2>3, <3>2
    <3>3. CASE n \in 1 .. m
      <4>1. n \in 0 .. m /\ n - 1 \in 0 .. m /\ n # 0 BY <3>3
      <4> QED BY <2>2, <2>3, <4>1, Zenon
    <3> QED BY <3>1, <3>2, <3>3
  <2>7. h = [n \in 0 .. m + 1 |-> h[n]] OBVIOUS
  <2>8. Part(h, m + 1)
    <3> HIDE DEF h
    <3> QED BY <2>6, <2>7, Zenon
  <2>9. m + 1 \in 0 .. Len(s) OBVIOUS
  <2> HIDE DEF Part
  <2> QED BY <2>8, <2>9
<1> HIDE DEF S
<1>3. \A m \in 0 .. Len(s) - 1 : m \in S => m + 1 \in S BY <1>2, Zenon
<1>4. \A m \in 0 .. Len(s) : m \in S BY <1>1, <1>3, UpTo, Zenon
<1>5. Len(s) \in S BY <1>4
<1> QED BY <1>5 DEF S, Adds

(* Entries that are left out change nothing.                               *)
LEMMA AddsGap ==
  ASSUME NEW h, NEW s, NEW I, Len(s) \in Nat, Adds(h, s, I),
         NEW p \in 0 .. Len(s), NEW q \in p .. Len(s), \A n \in p + 1 .. q : n \notin I
  PROVE  h[q] = h[p]
<1> DEFINE S == {k \in 0 .. q - p : h[p + k] = h[p]}
<1>1. 0 \in S OBVIOUS
<1>2. ASSUME NEW k \in 0 .. (q - p) - 1, k \in S PROVE k + 1 \in S
  <2>1. p + k + 1 \in 1 .. Len(s) /\ p + k + 1 \in p + 1 .. q /\ (p + k + 1) - 1 = p + k OBVIOUS
  <2>2. h[p + k + 1] = h[p + k] BY <2>1, AddsValues
  <2> QED BY <1>2, <2>2
<1>3. q - p \in Nat /\ q - p \in 0 .. q - p /\ p + (q - p) = q OBVIOUS
<1> HIDE DEF S
<1>4. q - p \in S BY <1>1, <1>2, <1>3, UpTo
<1> QED BY <1>3, <1>4 DEF S

(* Two lists that agree up to an entry add up to the same there.           *)
LEMMA AddsAgree ==
  ASSUME NEW h, NEW s, NEW I, Len(s) \in Nat, Adds(h, s, I),
         NEW g, NEW r, NEW J, Len(r) \in Nat, Adds(g, r, J),
         NEW n \in Nat, n <= Len(s), n <= Len(r),
         \A k \in 1 .. n : (k \in I <=> k \in J) /\ (k \in I => \A v : After(v, s[k]) = After(v, r[k]))
  PROVE  h[n] = g[n]
<1> DEFINE S == {k \in 0 .. n : h[k] = g[k]}
<1>1. 0 \in S BY AddsValues
<1>2. ASSUME NEW k \in 0 .. n - 1, k \in S PROVE k + 1 \in S
  <2>1. k + 1 \in 1 .. Len(s) /\ k + 1 \in 1 .. Len(r) /\ k + 1 \in 1 .. n /\ (k + 1) - 1 = k OBVIOUS
  <2>2. h[k + 1] = IF k + 1 \in I THEN After(h[k], s[k + 1]) ELSE h[k] BY <2>1, AddsValues
  <2>3. g[k + 1] = IF k + 1 \in J THEN After(g[k], r[k + 1]) ELSE g[k] BY <2>1, AddsValues
  <2>4. h[k] = g[k] BY <1>2
  <2>5. h[k + 1] = g[k + 1] BY <2>1, <2>2, <2>3, <2>4
  <2> QED BY <2>1, <2>5
<1> HIDE DEF S
<1>3. \A k \in 0 .. n - 1 : k \in S => k + 1 \in S BY <1>2, Zenon
<1>4. \A k \in 0 .. n : k \in S BY <1>1, <1>3, UpTo, Zenon
<1>5. n \in S BY <1>4
<1> QED BY <1>5 DEF S

(* Held, in these terms.                                                   *)
LEMMA HeldAdds ==
  ASSUME NEW s, NEW t, Len(s) \in Nat
  PROVE  \E h : Adds(h, s, {n \in 1 .. Len(s) : s[n].token = t}) /\ h[Len(s)] = Held(s, t)
<1> DEFINE I == {n \in 1 .. Len(s) : s[n].token = t}
           Is(h) == h = [n \in 0 .. Len(s) |->
                           IF n = 0 THEN 0
                           ELSE IF s[n].token = t THEN After(h[n - 1], s[n]) ELSE h[n - 1]]
<1>1. \A h : Is(h) <=> Adds(h, s, I)
  BY DEF Adds
<1>2. \E h : Is(h) BY <1>1, AddsExists
<1>3. Is(CHOOSE h : Is(h)) BY <1>2, Zenon
<1>4. Held(s, t) = (CHOOSE h : Is(h))[Len(s)] BY Zenon DEF Held
<1> HIDE DEF Is
<1> QED BY <1>1, <1>3, <1>4

(* A list of records that name, in order, the entries I of another list    *)
(* and nothing else of it that counts, adds up to what that list does.     *)
LEMMA RecordsAddUp ==
  ASSUME NEW g, NEW r, NEW J, Len(r) \in Nat, Adds(g, r, J),
         NEW h, NEW s, NEW I, Len(s) \in Nat, Adds(h, s, I),
         \A j \in 1 .. Len(r) : r[j].tx \in 1 .. Len(s),
         \A j, k \in 1 .. Len(r) : j < k => r[j].tx < r[k].tx,
         \A j \in 1 .. Len(r) : j \in J <=> r[j].tx \in I,
         \A j \in 1 .. Len(r) : j \in J => \A v : After(v, r[j]) = After(v, s[r[j].tx]),
         \A i \in I : \E j \in 1 .. Len(r) : r[j].tx = i
  PROVE  g[Len(r)] = h[Len(s)]
<1> DEFINE m == Len(r)
           N == Len(s)
           pos(j) == IF j = 0 THEN 0 ELSE r[j].tx
           S == {j \in 0 .. m : g[j] = h[pos(j)]}
<1>0. g[0] = 0 /\ h[0] = 0 BY AddsValues
<1>1. 0 \in S BY <1>0
<1>2. ASSUME NEW j \in 0 .. m - 1, j \in S PROVE j + 1 \in S
  <2>1. j + 1 \in 1 .. m /\ (j + 1) - 1 = j /\ j + 1 # 0 OBVIOUS
  <2>2. pos(j + 1) = r[j + 1].tx /\ pos(j + 1) \in 1 .. N BY <2>1
  <2>3. pos(j) \in 0 .. N /\ pos(j) < pos(j + 1)
    <3>1. CASE j = 0 BY <2>2, <3>1
    <3>2. CASE j \in 1 .. m BY <2>1, <2>2, <3>2
    <3> QED BY <3>1, <3>2
  <2> DEFINE p == pos(j)
             q == r[j + 1].tx
  <2>4. \A i \in p + 1 .. q - 1 : i \notin I
    <3> SUFFICES ASSUME NEW i \in p + 1 .. q - 1, i \in I PROVE FALSE OBVIOUS
    <3>1. PICK k \in 1 .. m : r[k].tx = i OBVIOUS
    <3>2. p < i /\ i < q BY <2>2, <2>3
    <3>3. CASE k <= j
      <4>1. j \in 1 .. m /\ p = r[j].tx BY <3>3
      <4>2. k = j \/ k < j BY <3>3, <4>1
      <4>3. i <= p BY <3>1, <4>1, <4>2
      <4> QED BY <3>2, <4>3, <2>3
    <3>4. CASE k > j
      <4>1. k = j + 1 \/ j + 1 < k BY <3>4
      <4>2. q <= i BY <2>1, <2>2, <3>1, <4>1
      <4> QED BY <2>2, <3>2, <4>2
    <3> QED BY <3>3, <3>4
  <2>5. q \in 1 .. N /\ p \in 0 .. N /\ q - 1 \in 0 .. N /\ q - 1 \in p .. N BY <2>2, <2>3
  <2>6. h[q - 1] = h[p]
    <3> HIDE DEF p, q
    <3> QED BY <2>4, <2>5, AddsGap
  <2>7. h[q] = IF q \in I THEN After(h[p], s[q]) ELSE h[p] BY <2>5, <2>6, AddsValues
  <2>8. g[j + 1] = IF j + 1 \in J THEN After(g[j], r[j + 1]) ELSE g[j] BY <2>1, AddsValues
  <2>9. g[j] = h[p] BY <1>2
  <2>10. j + 1 \in J <=> q \in I BY <2>1
  <2>11. j + 1 \in J => After(g[j], r[j + 1]) = After(g[j], s[q]) BY <2>1
  <2>12. g[j + 1] = h[q] BY <2>7, <2>8, <2>9, <2>10, <2>11
  <2> QED BY <2>1, <2>2, <2>12
<1> HIDE DEF S
<1>3. \A j \in 0 .. m - 1 : j \in S => j + 1 \in S BY <1>2, Zenon
<1>4. m \in Nat OBVIOUS
<1>5. \A j \in 0 .. m : j \in S BY <1>1, <1>3, <1>4, UpTo, Zenon
<1>6. g[m] = h[pos(m)] BY <1>4, <1>5 DEF S
<1>7. pos(m) \in 0 .. N
  <2>1. CASE m = 0 BY <2>1
  <2>2. CASE m # 0
    <3>1. m \in 1 .. m BY <1>4, <2>2
    <3> QED BY <2>2, <3>1
  <2> QED BY <2>1, <2>2
<1> DEFINE p == pos(m)
<1>8. \A i \in p + 1 .. N : i \notin I
  <2> SUFFICES ASSUME NEW i \in p + 1 .. N, i \in I PROVE FALSE OBVIOUS
  <2>1. PICK k \in 1 .. m : r[k].tx = i OBVIOUS
  <2>2. m \in 1 .. m /\ p = r[m].tx /\ (k = m \/ k < m) BY <1>4
  <2>3. i <= p BY <2>1, <2>2
  <2> QED BY <1>7, <2>3
<1>9. h[N] = h[p]
  <2>1. N \in p .. Len(s) /\ p \in 0 .. Len(s) BY <1>7
  <2> HIDE DEF p
  <2> QED BY <1>8, <2>1, AddsGap
<1> QED BY <1>6, <1>9

(* One entry more, after all the others.                                   *)
LEMMA AddsOneMore ==
  ASSUME NEW h, NEW s, NEW I, Len(s) \in Nat, Adds(h, s, I),
         NEW g, NEW r, NEW J, Len(r) = Len(s), Adds(g, r, J),
         NEW j \in 1 .. Len(s), j \in J, \A k \in j .. Len(s) : k \notin I,
         \A k \in 1 .. Len(s) : k # j => (k \in J <=> k \in I) /\ r[k] = s[k]
  PROVE  g[Len(r)] = After(h[Len(s)], r[j])
<1>1. PICK m \in Nat : m = j - 1 OBVIOUS
<1>2. PICK N \in Nat : N = Len(s) OBVIOUS
<1>3. /\ m \in 0 .. Len(s) /\ j \in 0 .. Len(s) /\ N \in m .. Len(s) /\ N \in j .. Len(s)
      /\ m <= Len(s) /\ m <= Len(r) /\ Len(r) \in Nat /\ j \in 1 .. Len(r) /\ m + 1 = j
      /\ \A k \in m + 1 .. N : k \in j .. Len(s)
  BY <1>1, <1>2
<1>4. \A k \in 1 .. m : k \in 1 .. Len(s) /\ k # j BY <1>1, <1>3
<1>5. \A k \in 1 .. m : (k \in J <=> k \in I) /\ (k \in J => \A v : After(v, r[k]) = After(v, s[k]))
  BY <1>4
<1>6. g[m] = h[m] BY <1>3, <1>5, AddsAgree
<1>7. h[N] = h[m]
  <2>1. \A k \in m + 1 .. N : k \notin I BY <1>3
  <2> QED BY <1>3, <2>1, AddsGap
<1>8. g[j] = After(g[m], r[j])
  <2>1. g[j] = IF j \in J THEN After(g[j - 1], r[j]) ELSE g[j - 1] BY <1>3, AddsValues
  <2> QED BY <1>1, <2>1
<1>9. g[N] = g[j]
  <2>1. \A k \in j + 1 .. N : k \notin J BY <1>2
  <2> QED BY <1>2, <1>3, <2>1, AddsGap
<1> QED BY <1>2, <1>6, <1>7, <1>8, <1>9

-----------------------------------------------------------------------------
(* The books.  BooksMatchChain is not inductive: it speaks of localStorage *)
(* and the balance, which meet only when a transaction is recorded.  What  *)
(* is: every record, in localStorage or in a tab, and every chain that     *)
(* waits for a receipt or has one, tells the truth about its transaction;  *)
(* an account's transactions are mined in the order they were sent; and a  *)
(* balance is what the mined trades of the account add up to.              *)
Truthful(r) ==
  /\ r.tx \in DOMAIN txs /\ txs[r.tx].status = "done"
  /\ txs[r.tx].kind = r.kind /\ txs[r.tx].token = r.token
  /\ r.token \notin Silent => txs[r.tx].amount = r.amount
AllTrue(records) == \A i \in DOMAIN records : Truthful(records[i])
RecordsTrue == (\A a \in Accounts : AllTrue(stored[a])) /\ (\A b \in Tabs : AllTrue(trades[b]))

Awaiting(f) == f.step \in {"pending", "after"}
Faithful(f, t) ==
  /\ f.tx \in DOMAIN txs /\ txs[f.tx].kind = f.side
  /\ txs[f.tx].token = t /\ txs[f.tx].amount = f.amount
  /\ f.step = "after" => txs[f.tx].status = "done"
FlowsTrue == \A b \in Tabs, t \in Tokens : Awaiting(flow[b][t]) => Faithful(flow[b][t], t)

NonceOrder ==
  \A i, j \in DOMAIN txs :
    i < j /\ txs[i].account = txs[j].account /\ txs[i].status = "sent" => txs[j].status = "sent"

Mined(a, t) == {i \in DOMAIN txs : /\ txs[i].account = a /\ txs[i].token = t
                                   /\ txs[i].kind \in Sides /\ txs[i].status = "done"}
ChainAdds ==
  \A a \in Accounts, t \in Tokens : \E h : Adds(h, txs, Mined(a, t)) /\ h[Len(txs)] = balance[a][t]

BooksInv == RecordsTrue /\ FlowsTrue /\ NonceOrder /\ ChainAdds

(* Transactions are only added, and settled once.                          *)
TxsGrow ==
  /\ DOMAIN txs \subseteq DOMAIN txs'
  /\ \A i \in DOMAIN txs : /\ txs'[i].kind = txs[i].kind /\ txs'[i].token = txs[i].token
                           /\ txs'[i].account = txs[i].account /\ txs'[i].amount = txs[i].amount
                           /\ txs[i].status = "done" => txs'[i].status = "done"

LEMMA TrueStays ==
  ASSUME TxsGrow, NEW r, Truthful(r)
  PROVE  Truthful(r)'
BY DEF TxsGrow, Truthful

LEMMA AllTrueStays ==
  ASSUME TxsGrow, NEW records, AllTrue(records)
  PROVE  AllTrue(records)'
BY TrueStays DEF AllTrue

LEMMA FaithfulStays ==
  ASSUME TxsGrow, NEW f, NEW t, Faithful(f, t)
  PROVE  Faithful(f, t)'
BY DEF TxsGrow, Faithful

LEMMA SameTxs ==
  ASSUME UNCHANGED txs
  PROVE  TxsGrow
BY DEF TxsGrow

(* The records, when none is added.                                        *)
LEMMA RecordsStay ==
  ASSUME TxsGrow, RecordsTrue, UNCHANGED <<stored, trades>>
  PROVE  RecordsTrue'
<1>1. ASSUME NEW a \in Accounts PROVE AllTrue(stored[a])'
  <2>1. stored[a]' = stored[a] OBVIOUS
  <2>2. AllTrue(stored[a]) BY DEF RecordsTrue
  <2> QED BY <2>1, <2>2 DEF AllTrue, Truthful, TxsGrow
<1>2. ASSUME NEW b \in Tabs PROVE AllTrue(trades[b])'
  <2>1. trades[b]' = trades[b] OBVIOUS
  <2>2. AllTrue(trades[b]) BY DEF RecordsTrue
  <2> QED BY <2>1, <2>2 DEF AllTrue, Truthful, TxsGrow
<1> QED BY <1>1, <1>2 DEF RecordsTrue

(* The chains, when those that await a receipt did so before, unchanged.   *)
LEMMA FlowsStay ==
  ASSUME TxsGrow, FlowsTrue,
         \A b \in Tabs, t \in Tokens : Awaiting(flow'[b][t]) => flow'[b][t] = flow[b][t]
  PROVE  FlowsTrue'
<1> SUFFICES ASSUME NEW b \in Tabs, NEW t \in Tokens, Awaiting(flow'[b][t])
             PROVE  Faithful(flow[b][t], t)'
  BY DEF FlowsTrue, Awaiting
<1>1. flow'[b][t] = flow[b][t] OBVIOUS
<1>2. Faithful(flow[b][t], t) BY <1>1 DEF FlowsTrue
<1> QED BY <1>1, <1>2 DEF Faithful, TxsGrow

(* Nothing is sent, mined or recorded, and one chain goes on.              *)
LEMMA BooksOneChain ==
  ASSUME TypeInv, BooksInv, NEW b \in Tabs, NEW t \in Tokens, NEW f, Becomes(b, t, f),
         ~Awaiting(f), UNCHANGED <<stored, trades, txs, balance>>
  PROVE  BooksInv'
<1>1. flow \in [Tabs -> [Tokens -> Flow]] BY DEF TypeInv, TypeOK
<1>2. \A c \in Tabs, s \in Tokens : flow'[c][s] = IF c = b /\ s = t THEN f ELSE flow[c][s]
  BY <1>1 DEF Becomes
<1>3. \A c \in Tabs, s \in Tokens : Awaiting(flow'[c][s]) => flow'[c][s] = flow[c][s]
  BY <1>2
<1>4. TxsGrow BY SameTxs
<1>5. FlowsTrue' BY <1>3, <1>4, FlowsStay DEF BooksInv
<1>6. RecordsTrue' BY <1>4, RecordsStay DEF BooksInv
<1>7. NonceOrder' BY DEF BooksInv, NonceOrder
<1>8. ChainAdds' BY DEF BooksInv, ChainAdds, Mined
<1> QED BY <1>5, <1>6, <1>7, <1>8 DEF BooksInv

LEMMA BooksOneStep ==
  ASSUME TypeInv, BooksInv, NEW b \in Tabs, NEW t \in Tokens, NEW s, Goes(b, t, s),
         s \notin {"pending", "after"}, UNCHANGED <<stored, trades, txs, balance>>
  PROVE  BooksInv'
<1>1. flow[b][t] \in Flow BY DEF TypeInv, TypeOK
<1>2. [flow[b][t] EXCEPT !.step = s].step = s BY <1>1 DEF Flow
<1>3. ~Awaiting([flow[b][t] EXCEPT !.step = s]) BY <1>2 DEF Awaiting
<1> QED BY <1>3, BooksOneChain DEF Goes

LEMMA BooksQuoted ==
  ASSUME QuickBuyAssumption, TypeInv, BooksInv, NEW b \in Tabs, NEW t \in Tokens, NEW s,
         s \notin {"pending", "after"},
         RequestConfirm(b, t) \/ (Goes(b, t, s) /\ UNCHANGED dialog),
         UNCHANGED <<stored, trades, txs, balance>>
  PROVE  BooksInv'
<1>1. CASE Goes(b, t, s) BY <1>1, BooksOneStep
<1>2. CASE RequestConfirm(b, t)
  <2>1. flow \in [Tabs -> [Tokens -> Flow]] BY DEF TypeInv, TypeOK
  <2>2. [flow[b][t] EXCEPT !.step = "confirm"].step = "confirm" BY <2>1 DEF Flow
  <2>3. \A c \in Tabs, u \in Tokens : \/ flow'[c][u] = flow[c][u]
                                      \/ flow'[c][u] = [flow[b][t] EXCEPT !.step = "confirm"]
                                      \/ flow'[c][u] = Idle
    BY <1>2, <2>1 DEF RequestConfirm, Declined
  <2>4. \A c \in Tabs, u \in Tokens : Awaiting(flow'[c][u]) => flow'[c][u] = flow[c][u]
    BY <2>2, <2>3, IdleFlow DEF Awaiting
  <2>5. TxsGrow BY SameTxs
  <2>6. FlowsTrue' BY <2>4, <2>5, FlowsStay DEF BooksInv
  <2>7. RecordsTrue' BY <2>5, RecordsStay DEF BooksInv
  <2>8. NonceOrder' BY DEF BooksInv, NonceOrder
  <2>9. ChainAdds' BY DEF BooksInv, ChainAdds, Mined
  <2> QED BY <2>6, <2>7, <2>8, <2>9 DEF BooksInv
<1> QED BY <1>1, <1>2

(* A transaction goes out: nothing of it is mined yet.                     *)
LEMMA BooksOut ==
  ASSUME TypeInv, BooksInv, NEW b \in Tabs, NEW t \in Tokens, NEW kind, NEW n,
         GoesOut(b, t, kind, n), UNCHANGED <<stored, trades, balance>>
  PROVE  TxsGrow /\ RecordsTrue' /\ NonceOrder' /\ ChainAdds'
<1> DEFINE x == [kind |-> kind, account |-> flow[b][t].account, token |-> t,
                 amount |-> n, status |-> "sent"]
           N == Len(txs)
<1>1. x.status = "sent" OBVIOUS
<1>2. /\ N \in Nat /\ DOMAIN txs = 1 .. N
      /\ DOMAIN txs' = 1 .. (N + 1) /\ Len(txs') = N + 1 /\ txs'[N + 1] = x
      /\ \A i \in 1 .. N : txs'[i] = txs[i]
  BY OneMore
<1> HIDE DEF x, N
<1>3. TxsGrow BY <1>2 DEF TxsGrow
<1>4. RecordsTrue' BY <1>3, RecordsStay DEF BooksInv
<1>5. NonceOrder'
  <2> SUFFICES ASSUME NEW i \in DOMAIN txs', NEW j \in DOMAIN txs', i < j,
                      txs'[i].account = txs'[j].account, txs'[i].status = "sent"
               PROVE  txs'[j].status = "sent"
    BY DEF NonceOrder
  <2>1. CASE j = N + 1 BY <1>1, <1>2, <2>1
  <2>2. CASE j # N + 1
    <3>1. i \in 1 .. N /\ j \in 1 .. N BY <1>2, <2>2
    <3> QED BY <1>2, <3>1 DEF BooksInv, NonceOrder
  <2> QED BY <2>1, <2>2
<1>6. ChainAdds'
  <2> SUFFICES ASSUME NEW a \in Accounts, NEW u \in Tokens
               PROVE  \E h : Adds(h, txs', Mined(a, u)') /\ h[Len(txs')] = balance[a][u]
    BY DEF ChainAdds, Adds
  <2> DEFINE I == Mined(a, u)
             I2 == Mined(a, u)'
  <2>1. I2 = I BY <1>1, <1>2 DEF Mined
  <2>2. PICK h : Adds(h, txs, I) /\ h[N] = balance[a][u] BY DEF BooksInv, ChainAdds, N
  <2>4. N + 1 \notin I /\ I \subseteq 1 .. N BY <1>2 DEF Mined
  <2> HIDE DEF I, I2
  <2>0. Len(txs') \in Nat BY <1>2
  <2>3. PICK g : Adds(g, txs', I2) BY <2>0, AddsExists
  <2>5. g[N] = h[N]
    <3>1. N <= Len(txs) /\ N <= Len(txs') /\ Len(txs) \in Nat /\ Len(txs') \in Nat BY <1>2 DEF N
    <3>2. \A k \in 1 .. N : (k \in I2 <=> k \in I) /\ (k \in I2 => \A v : After(v, txs'[k]) = After(v, txs[k]))
      BY <1>2, <2>1
    <3> QED BY <1>2, <2>2, <2>3, <3>1, <3>2, AddsAgree
  <2>6. g[N + 1] = g[N]
    <3>1. N + 1 \in 1 .. Len(txs') /\ (N + 1) - 1 = N /\ Len(txs') \in Nat BY <1>2
    <3> QED BY <2>1, <2>3, <2>4, <3>1, AddsValues
  <2> QED BY <1>2, <2>2, <2>3, <2>5, <2>6 DEF I2
<1> QED BY <1>3, <1>4, <1>5, <1>6

(* Its chain waits for the receipt...                                      *)
LEMMA BooksSent ==
  ASSUME TypeInv, BooksInv, NEW b \in Tabs, NEW t \in Tokens, NEW kind, NEW n, NEW s,
         Send(b, t, kind, n, s), s = "approving" \/ (s = "pending" /\ kind = flow[b][t].side),
         UNCHANGED <<stored, trades, balance>>
  PROVE  BooksInv'
<1> DEFINE f == [flow[b][t] EXCEPT !.step = s, !.tx = Len(txs) + 1, !.amount = n]
           x == [kind |-> kind, account |-> flow[b][t].account, token |-> t,
                 amount |-> n, status |-> "sent"]
<1>1. flow \in [Tabs -> [Tokens -> Flow]] BY DEF TypeInv, TypeOK
<1>2. f.step = s /\ f.tx = Len(txs) + 1 /\ f.amount = n /\ f.side = flow[b][t].side BY <1>1 DEF Flow
<1>3. Becomes(b, t, f) /\ GoesOut(b, t, kind, n) BY DEF Send
<1>4. \A c \in Tabs, u \in Tokens : flow'[c][u] = IF c = b /\ u = t THEN f ELSE flow[c][u]
  BY <1>1, <1>3 DEF Becomes
<1>5. x.kind = kind /\ x.token = t /\ x.amount = n OBVIOUS
<1>6. Len(txs) + 1 \in DOMAIN txs' /\ txs'[Len(txs) + 1] = x BY <1>3, OneMore
<1> HIDE DEF f, x
<1>7. TxsGrow /\ RecordsTrue' /\ NonceOrder' /\ ChainAdds' BY <1>3, BooksOut
<1>8. FlowsTrue'
  <2> SUFFICES ASSUME NEW c \in Tabs, NEW u \in Tokens, Awaiting(flow'[c][u])
               PROVE  Faithful(flow[c][u], u)'
    BY DEF FlowsTrue, Awaiting
  <2>1. CASE c = b /\ u = t
    <3>1. flow'[c][u] = f BY <1>4, <2>1
    <3>2. s = "pending" BY <1>2, <2>1, <3>1 DEF Awaiting
    <3> QED BY <1>2, <1>5, <1>6, <2>1, <3>1, <3>2 DEF Faithful
  <2>2. CASE ~(c = b /\ u = t)
    <3>1. flow'[c][u] = flow[c][u] BY <1>4, <2>2
    <3>2. Faithful(flow[c][u], u) BY <3>1 DEF BooksInv, FlowsTrue
    <3> QED BY <1>7, <3>1, <3>2 DEF Faithful, TxsGrow
  <2> QED BY <2>1, <2>2
<1> QED BY <1>7, <1>8 DEF BooksInv

(* ...or ends at once, because it never learns of the transaction.         *)
LEMMA BooksLost ==
  ASSUME QuickBuyAssumption, TypeInv, BooksInv, NEW b \in Tabs, NEW t \in Tokens, AnswerLost(b, t)
  PROVE  BooksInv'
<1>1. flow \in [Tabs -> [Tokens -> Flow]] BY DEF TypeInv, TypeOK
<1>2. PICK kind, n : GoesOut(b, t, kind, n) BY DEF AnswerLost
<1>3. UNCHANGED <<stored, trades, balance>> /\ Becomes(b, t, Idle) BY DEF AnswerLost, page
<1>4. TxsGrow /\ RecordsTrue' /\ NonceOrder' /\ ChainAdds' BY <1>2, <1>3, BooksOut
<1>5. \A c \in Tabs, u \in Tokens : Awaiting(flow'[c][u]) => flow'[c][u] = flow[c][u]
  BY <1>1, <1>3, IdleFlow DEF Becomes, Awaiting
<1>6. FlowsTrue' BY <1>4, <1>5, FlowsStay DEF BooksInv
<1> QED BY <1>4, <1>6 DEF BooksInv

(* The receipt is there.                                                   *)
LEMMA BooksConfirmed ==
  ASSUME TypeInv, BooksInv, NEW b \in Tabs, NEW t \in Tokens, Confirmed(b, t)
  PROVE  BooksInv'
<1> DEFINE f == [flow[b][t] EXCEPT !.step = "after"]
<1>1. flow \in [Tabs -> [Tokens -> Flow]] BY DEF TypeInv, TypeOK
<1>2. f.step = "after" /\ f.tx = flow[b][t].tx /\ f.side = flow[b][t].side /\ f.amount = flow[b][t].amount
  BY <1>1 DEF Flow
<1>3. \A c \in Tabs, u \in Tokens : flow'[c][u] = IF c = b /\ u = t THEN f ELSE flow[c][u]
  BY <1>1 DEF Confirmed, Goes, Becomes
<1> HIDE DEF f
<1>4. txs' = txs /\ stored' = stored /\ trades' = trades /\ balance' = balance
  BY DEF Confirmed, page, chain
<1>5. FlowsTrue'
  <2> SUFFICES ASSUME NEW c \in Tabs, NEW u \in Tokens, Awaiting(flow'[c][u])
               PROVE  Faithful(flow[c][u], u)'
    BY DEF FlowsTrue, Awaiting
  <2>1. CASE c = b /\ u = t
    <3>1. flow'[c][u] = f BY <1>3, <2>1
    <3>2. Faithful(flow[b][t], t) BY DEF BooksInv, FlowsTrue, Confirmed, Awaiting
    <3>3. txs[flow[b][t].tx].status = "done" BY DEF Confirmed
    <3> QED BY <1>2, <1>4, <2>1, <3>1, <3>2, <3>3 DEF Faithful
  <2>2. CASE ~(c = b /\ u = t)
    <3>1. flow'[c][u] = flow[c][u] BY <1>3, <2>2
    <3>2. Faithful(flow[c][u], u) BY <3>1 DEF BooksInv, FlowsTrue
    <3> QED BY <1>4, <3>1, <3>2 DEF Faithful
  <2> QED BY <2>1, <2>2
<1>6. TxsGrow BY <1>4, SameTxs
<1>7. RecordsTrue' BY <1>4, <1>6, RecordsStay DEF BooksInv
<1>8. NonceOrder' BY <1>4 DEF BooksInv, NonceOrder
<1>9. ChainAdds' BY <1>4 DEF BooksInv, ChainAdds, Mined
<1> QED BY <1>5, <1>7, <1>8, <1>9 DEF BooksInv

(* A record is made of a chain that has its receipt.                       *)
LEMMA TrueAppend ==
  ASSUME NEW q \in Seq(TradeRecord), NEW r \in TradeRecord, AllTrue(q), Truthful(r)
  PROVE  AllTrue(Append(q, r))
<1>1. /\ Len(q) \in Nat /\ DOMAIN q = 1 .. Len(q) /\ DOMAIN Append(q, r) = 1 .. (Len(q) + 1)
      /\ Append(q, r)[Len(q) + 1] = r /\ \A i \in 1 .. Len(q) : Append(q, r)[i] = q[i]
  BY LenProperties
<1>2. \A i : i \in 1 .. (Len(q) + 1) <=> i \in 1 .. Len(q) \/ i = Len(q) + 1 BY <1>1
<1> QED BY <1>1, <1>2 DEF AllTrue

LEMMA BooksRecorded ==
  ASSUME QuickBuyAssumption, TypeInv, BooksInv, NEW b \in Tabs, NEW t \in Tokens,
         NEW r \in TradeRecord, Truthful(r), AddTrade(b, r), Becomes(b, t, Idle), UNCHANGED <<txs, balance>>
  PROVE  BooksInv'
<1>0. /\ trades \in [Tabs -> Seq(TradeRecord)] /\ stored \in [Accounts -> Seq(TradeRecord)]
      /\ flow \in [Tabs -> [Tokens -> Flow]]
  BY DEF TypeInv, TypeOK
<1>1. \A c \in Tabs, s \in Tokens : flow'[c][s] = IF c = b /\ s = t THEN Idle ELSE flow[c][s]
  BY <1>0 DEF Becomes
<1>2. TxsGrow BY SameTxs
<1>3. \A c \in Tabs, s \in Tokens : Awaiting(flow'[c][s]) => flow'[c][s] = flow[c][s]
  BY <1>1, IdleFlow DEF Awaiting
<1>4. FlowsTrue' BY <1>2, <1>3, FlowsStay DEF BooksInv
<1>5. RecordsTrue'
  <2>1. CASE wallet[b] = NoAccount \/ r.tx \in Ids(trades[b])
    <3>1. UNCHANGED <<stored, trades>> BY <2>1 DEF AddTrade
    <3> QED BY <1>2, <3>1, RecordsStay DEF BooksInv
  <2>2. CASE ~(wallet[b] = NoAccount \/ r.tx \in Ids(trades[b]))
    <3>1. wallet[b] \in Accounts /\ trades[b] \in Seq(TradeRecord) BY <2>2, AddedTo DEF TypeInv
    <3>2. /\ trades' = [trades EXCEPT ![b] = Append(trades[b], r)]
          /\ stored' \in {[stored EXCEPT ![wallet[b]] = Append(trades[b], r)], stored}
      BY <2>2, AddedTo DEF TypeInv
    <3>3. AllTrue(trades[b]) BY DEF BooksInv, RecordsTrue
    <3>4. AllTrue(Append(trades[b], r)) BY <3>1, <3>3, TrueAppend
    <3>5. \A c \in Tabs : trades'[c] = trades[c] \/ trades'[c] = Append(trades[b], r) BY <1>0, <3>2
    <3>6. \A a \in Accounts : stored'[a] = stored[a] \/ stored'[a] = Append(trades[b], r)
      BY <1>0, <3>1, <3>2
    <3>7. /\ \A c \in Tabs : AllTrue(trades'[c])
          /\ \A a \in Accounts : AllTrue(stored'[a])
      BY <3>4, <3>5, <3>6 DEF BooksInv, RecordsTrue
    <3> QED BY <3>7, SMTT(30) DEF RecordsTrue, AllTrue, Truthful
  <2> QED BY <2>1, <2>2
<1>6. NonceOrder' BY DEF BooksInv, NonceOrder
<1>7. ChainAdds' BY SMTT(30) DEF BooksInv, ChainAdds, Mined
<1> QED BY <1>4, <1>5, <1>6, <1>7 DEF BooksInv

(* The page is loaded again, or its account changes.                       *)
LEMMA BooksPage ==
  ASSUME QuickBuyAssumption, TypeInv, BooksInv, NEW b \in Tabs,
         Load(b) \/ \E a \in Accounts \cup {NoAccount} : SetWallet(b, a)
  PROVE  BooksInv'
<1>0. trades \in [Tabs -> Seq(TradeRecord)] /\ flow \in [Tabs -> [Tokens -> Flow]]
  BY DEF TypeInv, TypeOK
<1>1. stored' = stored /\ txs' = txs /\ balance' = balance BY DEF Load, SetWallet, chain
<1>2. TxsGrow BY <1>1, SameTxs
<1>3. \A c \in Tabs, s \in Tokens : flow'[c][s] = flow[c][s] \/ flow'[c][s] = Idle
  <2>1. CASE Load(b)
    <3>1. flow' = [flow EXCEPT ![b] = [s \in Tokens |-> Idle]] BY <2>1 DEF Load
    <3> QED BY <1>0, <3>1
  <2>2. CASE flow' = flow BY <2>2
  <2> QED BY <2>1, <2>2 DEF SetWallet
<1>4. FlowsTrue' BY <1>2, <1>3, IdleFlow, FlowsStay DEF BooksInv, Awaiting
<1>5. \A c \in Tabs : trades'[c] = trades[c] \/ trades'[c] = <<>> \/ \E a \in Accounts : trades'[c] = stored[a]
  BY <1>0 DEF Load, SetWallet
<1>6. AllTrue(<<>>) BY DEF AllTrue
<1>7. \A c \in Tabs : AllTrue(trades'[c]) BY <1>5, <1>6 DEF BooksInv, RecordsTrue
<1>8. RecordsTrue' BY <1>1, <1>7 DEF BooksInv, RecordsTrue, AllTrue, Truthful
<1>9. NonceOrder' BY <1>1 DEF BooksInv, NonceOrder
<1>10. ChainAdds' BY <1>1 DEF BooksInv, ChainAdds, Mined
<1> QED BY <1>4, <1>8, <1>9, <1>10 DEF BooksInv

(* A transaction is mined after all that its account sent before it: the   *)
(* balance is what it was when nothing after it is mined.                  *)
LEMMA BooksMined ==
  ASSUME TypeInv, BooksInv, NEW j \in DOMAIN txs, Mine(j)
  PROVE  BooksInv'
<1> DEFINE N == Len(txs)
           x == txs[j]
<1>1. txs \in Seq(Tx) /\ balance \in [Accounts -> [Tokens -> Nat]] BY DEF TypeInv, TypeOK
<1>2. x \in Tx BY <1>1, ElementOfSeq, LenProperties
<1>3. PICK st \in {"done", "failed"} :
        /\ txs' = [txs EXCEPT ![j].status = st]
        /\ IF st = "done" THEN Settle(j, x.account, x.token, x.amount) ELSE UNCHANGED balance
  <2>1. CASE Settle(j, x.account, x.token, x.amount) /\ txs' = [txs EXCEPT ![j].status = "done"]
    BY <2>1
  <2>2. CASE txs' = [txs EXCEPT ![j].status = "failed"] /\ UNCHANGED balance BY <2>2
  <2> QED BY <2>1, <2>2 DEF Mine
<1>4. /\ x.status = "sent" /\ flow' = flow /\ stored' = stored /\ trades' = trades
      /\ \A i \in 1 .. j - 1 : txs[i].account = x.account => txs[i].status # "sent"
  BY DEF Mine, page
<1>5. N \in Nat /\ DOMAIN txs = 1 .. N /\ j \in 1 .. N BY <1>1, LenProperties
<1>6. DOMAIN txs' = DOMAIN txs /\ Len(txs') = N /\ \A i \in 1 .. N : i # j => txs'[i] = txs[i]
  <2>1. [txs[j] EXCEPT !.status = st] \in Tx BY <1>2, <1>3 DEF Tx
  <2>2. txs' \in Seq(Tx) BY <1>1, <1>3, <2>1, ExceptSeq
  <2>3. DOMAIN txs' = DOMAIN txs BY <1>3
  <2>4. Len(txs') \in Nat /\ DOMAIN txs' = 1 .. Len(txs') BY <2>2, LenProperties
  <2>5. Len(txs') = N BY <1>5, <2>3, <2>4
  <2> QED BY <1>3, <1>5, <2>3, <2>5
<1>7. /\ txs'[j].status = st /\ txs'[j].kind = x.kind /\ txs'[j].token = x.token
      /\ txs'[j].account = x.account /\ txs'[j].amount = x.amount
  <2>1. txs'[j] = [txs[j] EXCEPT !.status = st] BY <1>3
  <2> QED BY <1>2, <2>1 DEF Tx
<1> HIDE DEF N, x
<1>8. TxsGrow BY <1>4, <1>5, <1>6, <1>7 DEF TxsGrow, x
<1>9. RecordsTrue' BY <1>4, <1>8, RecordsStay DEF BooksInv
<1>10. FlowsTrue' BY <1>4, <1>8, FlowsStay DEF BooksInv
<1>11. \A k \in j + 1 .. N : txs[k].account = x.account => txs[k].status = "sent"
  BY <1>4, <1>5 DEF BooksInv, NonceOrder, x
<1>12. NonceOrder'
  <2> SUFFICES ASSUME NEW i \in 1 .. N, NEW k \in 1 .. N, i < k,
                      txs'[i].account = txs'[k].account, txs'[i].status = "sent"
               PROVE  txs'[k].status = "sent"
    BY <1>5, <1>6 DEF NonceOrder
  <2>1. i # j BY <1>3, <1>7
  <2>2. CASE k = j
    <3>1. txs[i].account = x.account /\ txs[i].status = "sent" /\ i \in 1 .. j - 1
      BY <1>6, <1>7, <2>1, <2>2
    <3> QED BY <1>4, <3>1
  <2>3. CASE k # j
    <3>1. txs'[i] = txs[i] /\ txs'[k] = txs[k] BY <1>6, <2>1, <2>3
    <3> QED BY <1>5, <3>1 DEF BooksInv, NonceOrder
  <2> QED BY <2>2, <2>3
<1>13. ChainAdds'
  <2> SUFFICES ASSUME NEW a \in Accounts, NEW t \in Tokens
               PROVE  \E h : Adds(h, txs', Mined(a, t)') /\ h[Len(txs')] = balance'[a][t]
    BY DEF ChainAdds, Adds
  <2> DEFINE I == Mined(a, t)
             I2 == Mined(a, t)'
             counts == st = "done" /\ x.account = a /\ x.token = t /\ x.kind \in Sides
  <2>1. PICK h : Adds(h, txs, I) /\ h[N] = balance[a][t] BY DEF BooksInv, ChainAdds, N
  <2>2. I2 = IF counts THEN I \cup {j} ELSE I
    BY <1>3, <1>4, <1>5, <1>6, <1>7 DEF Mined, x
  <2>3. j \notin I BY <1>4 DEF Mined, x
  <2>4. \A k \in 1 .. N : (k \in I => k # j) /\ (k # j => txs'[k] = txs[k]) BY <1>6, <2>3
  <2>5. counts => \A k \in j .. N : k \notin I
    <3> SUFFICES ASSUME counts, NEW k \in j .. N, k \in I PROVE FALSE OBVIOUS
    <3>1. k # j BY <2>3
    <3>2. k \in j + 1 .. N BY <1>5, <3>1
    <3>3. txs[k].account = x.account /\ txs[k].status = "done" BY DEF Mined
    <3> QED BY <1>11, <3>2, <3>3
  <2> HIDE DEF I, I2
  <2>6. Len(txs) \in Nat /\ Len(txs') \in Nat /\ Len(txs) = N BY <1>5, <1>6 DEF N
  <2>7. PICK g : Adds(g, txs', I2) BY <2>6, AddsExists
  <2>8. CASE ~counts
    <3>1. g[N] = h[N]
      <4>1. \A k \in 1 .. N : (k \in I2 <=> k \in I) /\ (k \in I2 => \A v : After(v, txs'[k]) = After(v, txs[k]))
        BY <2>2, <2>4, <2>8
      <4>2. N \in Nat /\ N <= Len(txs) /\ N <= Len(txs') BY <1>5, <1>6, <2>6
      <4> HIDE DEF counts
      <4> QED BY <2>1, <2>6, <2>7, <4>1, <4>2, AddsAgree
    <3>2. balance'[a][t] = balance[a][t]
      <4>1. CASE st = "failed" BY <1>3, <4>1
      <4>2. CASE st = "done" /\ x.kind = "approve"
        <5>1. Settle(j, x.account, x.token, x.amount) BY <1>3, <4>2
        <5>2. txs[j].kind # "buy" /\ txs[j].kind # "sell" /\ txs[j].kind = "approve" BY <4>2 DEF x
        <5>3. balance' = balance BY <5>1, <5>2 DEF Settle
        <5> QED BY <5>3
      <4>3. CASE st = "done" /\ x.kind \in Sides /\ ~(x.account = a /\ x.token = t)
        <5>1. x.account \in Accounts /\ x.token \in Tokens BY <1>2 DEF Tx
        <5>3. Settle(j, x.account, x.token, x.amount) BY <1>3, <4>3
        <5>4. CASE x.kind = "buy"
          <6>1. txs[j].kind = "buy" BY <5>4 DEF x
          <6>2. balance' = [balance EXCEPT ![x.account][x.token] = @ + x.amount] BY <5>3, <6>1 DEF Settle
          <6> QED BY <1>1, <4>3, <5>1, <6>2
        <5>5. CASE x.kind = "sell"
          <6>1. txs[j].kind = "sell" BY <5>5 DEF x
          <6>2. balance' = [balance EXCEPT ![x.account][x.token] = @ - x.amount] BY <5>3, <6>1 DEF Settle
          <6> QED BY <1>1, <4>3, <5>1, <6>2
        <5> QED BY <4>3, <5>4, <5>5 DEF Sides
      <4> QED BY <1>2, <1>3, <2>8, <4>1, <4>2, <4>3 DEF Tx
    <3> QED BY <1>6, <2>1, <2>7, <3>1, <3>2 DEF I2
  <2>9. CASE counts
    <3>0. x.account = a /\ x.token = t /\ x.kind \in Sides /\ st = "done" /\ x.amount \in Nat
      BY <1>2, <2>9 DEF Tx
    <3> HIDE DEF counts
    <3>1. /\ j \in 1 .. Len(txs) /\ Len(txs') = Len(txs) /\ j \in I2
          /\ \A k \in j .. Len(txs) : k \notin I
          /\ \A k \in 1 .. Len(txs) : k # j => (k \in I2 <=> k \in I) /\ txs'[k] = txs[k]
      BY <1>5, <1>6, <2>2, <2>4, <2>5, <2>6, <2>9
    <3>2. g[Len(txs')] = After(h[Len(txs)], txs'[j]) BY <2>1, <2>6, <2>7, <3>1, AddsOneMore
    <3>6. g[N] = After(balance[a][t], txs'[j]) BY <1>6, <2>1, <2>6, <3>2
    <3>7. balance[a][t] \in Nat BY <1>1
    <3>8. balance'[a][t] = After(balance[a][t], txs'[j])
      <4>1. CASE x.kind = "buy"
        <5>1. balance' = [balance EXCEPT ![a][t] = @ + x.amount]
          BY <1>3, <3>0, <4>1 DEF Settle, x
        <5>2. balance'[a][t] = balance[a][t] + x.amount BY <1>1, <5>1
        <5> QED BY <1>7, <4>1, <5>2 DEF After
      <4>2. CASE x.kind = "sell"
        <5>1. x.amount <= balance[a][t] /\ balance' = [balance EXCEPT ![a][t] = @ - x.amount]
          BY <1>3, <3>0, <4>2 DEF Settle, x
        <5>2. balance'[a][t] = balance[a][t] - x.amount BY <1>1, <5>1
        <5>3. Lower(x.amount, balance[a][t]) = x.amount BY <3>0, <3>7, <5>1 DEF Lower
        <5> QED BY <1>7, <4>2, <5>2, <5>3 DEF After
      <4> QED BY <3>0, <4>1, <4>2 DEF Sides
    <3> QED BY <1>6, <2>7, <3>6, <3>8 DEF I2
  <2> QED BY <2>8, <2>9
<1> QED BY <1>9, <1>10, <1>12, <1>13 DEF BooksInv

LEMMA BooksInit == QuickBuyAssumption /\ Init => BooksInv
<1> SUFFICES ASSUME QuickBuyAssumption, Init PROVE BooksInv OBVIOUS
<1>1. \A b \in Tabs, t \in Tokens : ~Awaiting(flow[b][t]) BY IdleFlow DEF Init, Awaiting
<1>2. txs = <<>> /\ Len(txs) = 0 /\ Len(txs) \in Nat BY EmptySeq DEF Init
<1>3. ASSUME NEW a \in Accounts, NEW t \in Tokens
      PROVE  \E h : Adds(h, txs, Mined(a, t)) /\ h[Len(txs)] = balance[a][t]
  <2>1. PICK h : Adds(h, txs, Mined(a, t)) BY <1>2, AddsExists
  <2>2. h[0] = 0 BY <1>2, <2>1, AddsValues
  <2>3. balance[a][t] = 0 BY DEF Init
  <2> QED BY <1>2, <2>1, <2>2, <2>3
<1>4. AllTrue(<<>>) BY DEF AllTrue
<1>5. RecordsTrue BY <1>4 DEF Init, RecordsTrue
<1>6. NonceOrder BY <1>2 DEF NonceOrder
<1> QED BY <1>1, <1>3, <1>5, <1>6 DEF BooksInv, FlowsTrue, ChainAdds

LEMMA BooksBuy ==
  ASSUME QuickBuyAssumption, TypeInv, BooksInv, NEW b \in Tabs, NEW t \in Tokens, Buy(b, t)
  PROVE  BooksInv'
<1>1. CASE BuyStart(b, t)
  <2>1. ~Awaiting([Idle EXCEPT !.step = "quote", !.account = wallet[b]]) BY DEF Idle, Awaiting
  <2> QED BY <1>1, <2>1, BooksOneChain DEF BuyStart, page, chain
<1>2. CASE BuyQuoted(b, t) BY <1>2, BooksQuoted DEF BuyQuoted, chain
<1>3. CASE BuySend(b, t)
  <2>1. PICK lot \in Lots : Send(b, t, "buy", lot, "pending") BY <1>3 DEF BuySend
  <2> QED BY <1>3, <2>1, BooksSent DEF BuySend, page
<1>4. CASE BuyRecord(b, t)
  <2>1. PICK n \in (IF t \in Silent THEN {balance[flow[b][t].account][t], 0} ELSE {flow[b][t].amount}) :
          AddTrade(b, [tx |-> flow[b][t].tx, kind |-> "buy", token |-> t, amount |-> n, eth |-> flow[b][t].amount])
    BY <1>4 DEF BuyRecord
  <2>2. flow[b][t] \in Flow /\ flow[b][t].account \in Accounts
    BY <1>4 DEF BuyRecord, At, TypeInv, TypeOK, FlowInv
  <2>3. n \in Nat BY <2>1, <2>2 DEF TypeInv, TypeOK, Flow
  <2> DEFINE r == [tx |-> flow[b][t].tx, kind |-> "buy", token |-> t, amount |-> n, eth |-> flow[b][t].amount]
  <2>4. r \in TradeRecord BY <2>2, <2>3 DEF TradeRecord, Flow, Sides
  <2>5. Truthful(r)
    <3>1. Faithful(flow[b][t], t) BY <1>4 DEF BuyRecord, At, BooksInv, FlowsTrue, Awaiting
    <3>2. t \notin Silent => n = flow[b][t].amount BY <2>1
    <3> QED BY <1>4, <3>1, <3>2 DEF BuyRecord, At, Faithful, Truthful
  <2> HIDE DEF r
  <2> QED BY <1>4, <2>1, <2>4, <2>5, BooksRecorded DEF BuyRecord, chain, r
<1> QED BY <1>1, <1>2, <1>3, <1>4 DEF Buy

LEMMA BooksSell ==
  ASSUME QuickBuyAssumption, TypeInv, BooksInv, NEW b \in Tabs, NEW t \in Tokens, Sell(b, t)
  PROVE  BooksInv'
<1>0. flow[b][t] \in Flow BY DEF TypeInv, TypeOK
<1>1. CASE SellStart(b, t)
  <2>1. ~Awaiting([Idle EXCEPT !.step = "balance", !.side = "sell", !.account = wallet[b]])
    BY DEF Idle, Awaiting
  <2> QED BY <1>1, <2>1, BooksOneChain DEF SellStart, page, chain
<1>2. CASE SellBalance(b, t)
  <2>1. PICK n \in Share(b, t) :
          Becomes(b, t, IF n = 0 THEN Idle ELSE [flow[b][t] EXCEPT !.step = "quote", !.amount = n])
    BY <1>2 DEF SellBalance
  <2>2. ~Awaiting([flow[b][t] EXCEPT !.step = "quote", !.amount = n]) BY <1>0 DEF Flow, Awaiting
  <2>3. ~Awaiting(Idle) BY IdleFlow DEF Awaiting
  <2> QED BY <1>2, <2>1, <2>2, <2>3, BooksOneChain DEF SellBalance, page, chain
<1>3. CASE SellQuoted(b, t) BY <1>3, BooksQuoted DEF SellQuoted, chain
<1>4. CASE SellAllowance(b, t) BY <1>4, BooksOneStep DEF SellAllowance, page, chain
<1>5. CASE SellApprove(b, t) BY <1>5, BooksSent DEF SellApprove, page
<1>6. CASE SellApproved(b, t) BY <1>6, BooksOneStep DEF SellApproved, page, chain
<1>7. CASE SellBefore(b, t)
  <2>1. ~Awaiting([flow[b][t] EXCEPT !.step = "wallet", !.before = eth[flow[b][t].account]])
    BY <1>0 DEF Flow, Awaiting
  <2> QED BY <1>7, <2>1, BooksOneChain DEF SellBefore, page, chain
<1>8. CASE SellSend(b, t) BY <1>8, BooksSent DEF SellSend, page
<1>9. CASE SellRecord(b, t)
  <2>1. flow[b][t].account \in Accounts /\ eth[flow[b][t].account] \in Int
    BY <1>9 DEF SellRecord, At, TypeInv, TypeOK, FlowInv
  <2>2. Received(flow[b][t]) \in Int BY <1>0, <2>1 DEF Received, Flow
  <2> DEFINE r == [tx |-> flow[b][t].tx, kind |-> "sell", token |-> t,
                   amount |-> flow[b][t].amount, eth |-> Received(flow[b][t])]
  <2>3. r \in TradeRecord BY <1>0, <2>2 DEF TradeRecord, Flow, Sides
  <2>4. Truthful(r)
    <3>1. Faithful(flow[b][t], t) BY <1>9 DEF SellRecord, At, BooksInv, FlowsTrue, Awaiting
    <3> QED BY <1>9, <3>1 DEF SellRecord, At, Faithful, Truthful
  <2>5. AddTrade(b, r) BY <1>9 DEF SellRecord
  <2> HIDE DEF r
  <2> QED BY <1>9, <2>3, <2>4, <2>5, BooksRecorded DEF SellRecord, chain
<1> QED BY <1>1, <1>2, <1>3, <1>4, <1>5, <1>6, <1>7, <1>8, <1>9 DEF Sell

LEMMA BooksStep == QuickBuyAssumption /\ TypeInv /\ BooksInv /\ [Next]_vars => BooksInv'
<1> SUFFICES ASSUME QuickBuyAssumption, TypeInv, BooksInv, [Next]_vars PROVE BooksInv' OBVIOUS
<1>0. ~Awaiting(Idle) BY IdleFlow DEF Awaiting
<1>1. ASSUME NEW b \in Tabs, NEW t \in Tokens, Buy(b, t) PROVE BooksInv' BY <1>1, BooksBuy
<1>2. ASSUME NEW b \in Tabs, NEW t \in Tokens, Sell(b, t) PROVE BooksInv' BY <1>2, BooksSell
<1>3. ASSUME NEW b \in Tabs, NEW t \in Tokens, Confirmed(b, t) PROVE BooksInv'
  BY <1>3, BooksConfirmed
<1>4. ASSUME NEW b \in Tabs, NEW t \in Tokens, Reverted(b, t) \/ Throws(b, t) PROVE BooksInv'
  BY <1>0, <1>4, BooksOneChain DEF Reverted, Throws, page, chain
<1>5. ASSUME NEW b \in Tabs, NEW yes \in BOOLEAN, Answer(b, yes) PROVE BooksInv'
  <2> DEFINE t == dialog[b]
             f == IF ~yes THEN Idle
                  ELSE [flow[b][t] EXCEPT !.step = IF flow[b][t].side = "buy" THEN "wallet" ELSE "allowance"]
  <2>1. t \in Tokens BY <1>5 DEF Answer, TypeInv, TypeOK
  <2>2. flow[b][t] \in Flow BY <2>1 DEF TypeInv, TypeOK
  <2>3. ~Awaiting(f) BY <1>0, <2>2 DEF Flow, Awaiting
  <2>4. Becomes(b, t, f) BY <1>5 DEF Answer
  <2> HIDE DEF f, t
  <2> QED BY <1>5, <2>1, <2>3, <2>4, BooksOneChain DEF Answer, chain
<1>6. ASSUME NEW b \in Tabs, Load(b) \/ \E a \in Accounts \cup {NoAccount} : SetWallet(b, a) PROVE BooksInv'
  BY <1>6, BooksPage
<1>7. ASSUME NEW i \in DOMAIN txs, Mine(i) PROVE BooksInv' BY <1>7, BooksMined
<1>8. ASSUME NEW b \in Tabs, NEW t \in Tokens, AnswerLost(b, t) PROVE BooksInv' BY <1>8, BooksLost
<1>9. CASE UNCHANGED vars
  <2>1. UNCHANGED <<stored, trades, flow, txs, balance>> BY <1>9 DEF vars, page, chain
  <2>2. TxsGrow BY <2>1, SameTxs
  <2>3. RecordsTrue' BY <2>1, <2>2, RecordsStay DEF BooksInv
  <2>4. FlowsTrue' BY <2>1, <2>2, FlowsStay DEF BooksInv
  <2>5. NonceOrder' BY <2>1 DEF BooksInv, NonceOrder
  <2>6. ChainAdds' BY <2>1 DEF BooksInv, ChainAdds, Mined
  <2> QED BY <2>3, <2>4, <2>5, <2>6 DEF BooksInv
<1> QED BY <1>1, <1>2, <1>3, <1>4, <1>5, <1>6, <1>7, <1>8, <1>9 DEF Next

LEMMA BooksMatch == TypeInv /\ BooksInv => BooksMatchChain
<1> SUFFICES ASSUME TypeInv, BooksInv, NEW a \in Accounts, NEW t \in Tokens \ Silent,
                    Settled(a, t), OwnTrades(a), InOrder(a)
             PROVE  Held(stored[a], t) = balance[a][t]
  BY DEF BooksMatchChain
<1> DEFINE r == stored[a]
           J == {n \in 1 .. Len(r) : r[n].token = t}
           I == Mined(a, t)
<1>1. r \in Seq(TradeRecord) /\ txs \in Seq(Tx) BY DEF TypeInv, TypeOK
<1>2. /\ Len(r) \in Nat /\ DOMAIN r = 1 .. Len(r) /\ Len(txs) \in Nat /\ DOMAIN txs = 1 .. Len(txs)
      /\ \A j \in 1 .. Len(r) : r[j] \in TradeRecord
  BY <1>1, LenProperties, ElementOfSeq
<1>3. PICK g : Adds(g, r, J) /\ g[Len(r)] = Held(r, t) BY <1>2, HeldAdds
<1>4. PICK h : Adds(h, txs, I) /\ h[Len(txs)] = balance[a][t] BY DEF BooksInv, ChainAdds
<1>5. \A j \in 1 .. Len(r) : Truthful(r[j]) BY <1>2 DEF BooksInv, RecordsTrue, AllTrue
<1>6. \A j \in 1 .. Len(r) : r[j].tx \in 1 .. Len(txs) BY <1>2, <1>5 DEF Truthful
<1>7. \A j, k \in 1 .. Len(r) : j < k => r[j].tx < r[k].tx BY <1>2 DEF InOrder
<1>8. \A j \in 1 .. Len(r) : txs[r[j].tx].account = a BY <1>2 DEF OwnTrades, Ids
<1>9. \A j \in 1 .. Len(r) : j \in J <=> r[j].tx \in I
  BY <1>2, <1>5, <1>8 DEF Truthful, Mined, TradeRecord
<1>10. \A j \in 1 .. Len(r) : j \in J => \A v : After(v, r[j]) = After(v, txs[r[j].tx])
  BY <1>5 DEF Truthful, After
<1>11. \A i \in I : \E j \in 1 .. Len(r) : r[j].tx = i
  BY <1>2 DEF Settled, Ids, Mined
<1> HIDE DEF r, J, I
<1>12. g[Len(r)] = h[Len(txs)]
  BY <1>2, <1>3, <1>4, <1>6, <1>7, <1>9, <1>10, <1>11, RecordsAddUp
<1> QED BY <1>3, <1>4, <1>12 DEF r

(* "raw units still held, by the recorded trades": whatever tabs, switched *)
(* accounts, partial sales and failed transactions do, an account whose    *)
(* trades of a token are all on record, in the order they were sent, holds *)
(* what the records add up to, for any number of trades.                   *)
THEOREM BooksCorrect == Spec => []BooksMatchChain
<1>1. Init => BooksInv BY BooksInit, QuickBuyAssumption
<1>2. TypeInv /\ BooksInv /\ [Next]_vars => BooksInv' BY BooksStep, QuickBuyAssumption
<1>3. TypeInv /\ BooksInv => BooksMatchChain BY BooksMatch
<1> QED BY <1>1, <1>2, <1>3, PairAlways, PTL DEF Spec

-----------------------------------------------------------------------------
(* The functions of Book that read a list of trades one after the other    *)
(* have the values their equations give.                                   *)
IsPositions(f, s, m) == f = [n \in 0 .. m |-> IF n = 0 THEN <<>> ELSE B!ByMint(f[n - 1], s[n])]
IsCalendar(f, s, m) ==
  f = [n \in 0 .. m |-> IF n = 0 THEN [days |-> <<>>, held |-> <<>>] ELSE B!Booked(f[n - 1], s[n])]

LEMMA PositionsGrow ==
  ASSUME NEW s, NEW m \in Nat, NEW f, IsPositions(f, s, m)
  PROVE  \E g : IsPositions(g, s, m + 1)
<1> DEFINE g == [n \in 0 .. m + 1 |-> IF n = m + 1 THEN B!ByMint(f[m], s[m + 1]) ELSE f[n]]
           Value(h, n) == IF n = 0 THEN <<>> ELSE B!ByMint(h[n - 1], s[n])
<1>1. \A n \in 0 .. m : f[n] = Value(f, n)
  BY Zenon DEF IsPositions
<1>2. (\A n \in 0 .. m : g[n] = f[n]) /\ g[m + 1] = B!ByMint(f[m], s[m + 1])
  OBVIOUS
<1>3. g = [n \in 0 .. m + 1 |-> g[n]]
  OBVIOUS
<1> HIDE DEF g
<1>4. ASSUME NEW n \in 0 .. m + 1
      PROVE  g[n] = Value(g, n)
  <2>1. CASE n = m + 1
    <3>1. n # 0 /\ n - 1 = m /\ m \in 0 .. m
      BY <2>1
    <3> QED BY <1>2, <2>1, <3>1, Zenon
  <2>2. CASE n = 0
    BY <1>1, <1>2, <2>2
  <2>3. CASE n \in 1 .. m
    <3>1. n \in 0 .. m /\ n - 1 \in 0 .. m /\ n # 0
      BY <2>3
    <3> QED BY <1>1, <1>2, <3>1, Zenon
  <2> QED BY <2>1, <2>2, <2>3
<1>5. g = [n \in 0 .. m + 1 |-> Value(g, n)]
  BY <1>3, <1>4, Zenon
<1> QED BY <1>5, Zenon DEF IsPositions

LEMMA CalendarGrows ==
  ASSUME NEW s, NEW m \in Nat, NEW f, IsCalendar(f, s, m)
  PROVE  \E g : IsCalendar(g, s, m + 1)
<1> DEFINE g == [n \in 0 .. m + 1 |-> IF n = m + 1 THEN B!Booked(f[m], s[m + 1]) ELSE f[n]]
           Value(h, n) == IF n = 0 THEN [days |-> <<>>, held |-> <<>>] ELSE B!Booked(h[n - 1], s[n])
<1>1. \A n \in 0 .. m : f[n] = Value(f, n)
  BY Zenon DEF IsCalendar
<1>2. (\A n \in 0 .. m : g[n] = f[n]) /\ g[m + 1] = B!Booked(f[m], s[m + 1])
  OBVIOUS
<1>3. g = [n \in 0 .. m + 1 |-> g[n]]
  OBVIOUS
<1> HIDE DEF g
<1>4. ASSUME NEW n \in 0 .. m + 1
      PROVE  g[n] = Value(g, n)
  <2>1. CASE n = m + 1
    <3>1. n # 0 /\ n - 1 = m /\ m \in 0 .. m
      BY <2>1
    <3> QED BY <1>2, <2>1, <3>1, Zenon
  <2>2. CASE n = 0
    BY <1>1, <1>2, <2>2
  <2>3. CASE n \in 1 .. m
    <3>1. n \in 0 .. m /\ n - 1 \in 0 .. m /\ n # 0
      BY <2>3
    <3> QED BY <1>1, <1>2, <3>1, Zenon
  <2> QED BY <2>1, <2>2, <2>3
<1>5. g = [n \in 0 .. m + 1 |-> Value(g, n)]
  BY <1>3, <1>4, Zenon
<1> QED BY <1>5, Zenon DEF IsCalendar

LEMMA PassesExist ==
  ASSUME NEW s, NEW m \in Nat
  PROVE  (\E f : IsPositions(f, s, m)) /\ \E f : IsCalendar(f, s, m)
<1> DEFINE S == {k \in 0 .. m : (\E f : IsPositions(f, s, k)) /\ \E f : IsCalendar(f, s, k)}
<1>1. 0 \in S
  <2>1. \A n \in 0 .. 0 : n = 0
    OBVIOUS
  <2>2. IsPositions([n \in 0 .. 0 |-> <<>>], s, 0)
    BY <2>1, Zenon DEF IsPositions
  <2>3. IsCalendar([n \in 0 .. 0 |-> [days |-> <<>>, held |-> <<>>]], s, 0)
    BY <2>1, Zenon DEF IsCalendar
  <2>4. 0 \in 0 .. m
    OBVIOUS
  <2> QED BY <2>2, <2>3, <2>4
<1>2. \A k \in 0 .. m - 1 : k \in S => k + 1 \in S
  BY PositionsGrow, CalendarGrows
<1> HIDE DEF S
<1>3. m \in S
  BY <1>1, <1>2, UpTo
<1> QED BY <1>3 DEF S

LEMMA PassesValues ==
  ASSUME NEW s, Len(s) \in Nat
  PROVE  /\ B!Positions(s)[0] = <<>> /\ B!Calendar(s)[0] = [days |-> <<>>, held |-> <<>>]
         /\ \A n \in 1 .. Len(s) : /\ B!Positions(s)[n] = B!ByMint(B!Positions(s)[n - 1], s[n])
                                   /\ B!Calendar(s)[n] = B!Booked(B!Calendar(s)[n - 1], s[n])
<1>1. IsPositions(CHOOSE f : IsPositions(f, s, Len(s)), s, Len(s))
  BY PassesExist, Zenon
<1>2. IsCalendar(CHOOSE f : IsCalendar(f, s, Len(s)), s, Len(s))
  BY PassesExist, Zenon
<1>3. IsPositions(B!Positions(s), s, Len(s))
  BY <1>1, Zenon DEF B!Positions, IsPositions
<1>4. IsCalendar(B!Calendar(s), s, Len(s))
  BY <1>2, Zenon DEF B!Calendar, IsCalendar
<1>5. 0 \in 0 .. Len(s) /\ \A n \in 1 .. Len(s) : n \in 0 .. Len(s) /\ n # 0
  OBVIOUS
<1>6. \A n \in 0 .. Len(s) :
        /\ B!Positions(s)[n] = IF n = 0 THEN <<>> ELSE B!ByMint(B!Positions(s)[n - 1], s[n])
        /\ B!Calendar(s)[n] = IF n = 0 THEN [days |-> <<>>, held |-> <<>>] ELSE B!Booked(B!Calendar(s)[n - 1], s[n])
  BY <1>3, <1>4, Zenon DEF IsPositions, IsCalendar
<1> QED BY <1>5, <1>6, Zenon

-----------------------------------------------------------------------------
(* A trade's amounts, and a position and a day by their fields.            *)
IsTrade(t) == t.kind \in {"buy", "sell"} /\ t.usd \in Nat /\ t.tokens \in Nat
IsPosition(p) ==
  p \in [mint : {p.mint}, tokens : Nat, cost : Nat, invested : Nat, realized : Int, entry : {p.entry},
         openedAt : {p.openedAt}, lastTradeAt : {p.lastTradeAt}, bought : {p.bought}, open : {p.open}]
IsDay(d) == d \in [pnl : Int, trades : Nat, wins : Nat, losses : Nat, entries : {d.entries}]

(* The cost that leaves with a sale is a part of the cost, and all of it   *)
(* when everything is sold.                                                *)
LEMMA CostOutIsPart ==
  ASSUME NEW held \in Nat, NEW cost \in Nat, NEW t, IsTrade(t)
  PROVE  /\ B!Sold(held, t) \in Nat /\ B!Sold(held, t) <= held
         /\ B!CostOut(held, cost, t) \in Nat /\ B!CostOut(held, cost, t) <= cost
         /\ held > 0 /\ held - B!Sold(held, t) = 0 => B!CostOut(held, cost, t) = cost
<1> DEFINE sold == B!Sold(held, t)
           out == B!CostOut(held, cost, t)
<1>1. sold \in Nat /\ sold <= held
  BY DEF B!Sold, B!Smaller, IsTrade
<1> HIDE DEF sold
<1>2. CASE held = 0
  BY <1>1, <1>2 DEF B!CostOut, sold
<1>3. CASE held > 0
  <2>1. out = (cost * sold) \div held
    BY <1>3 DEF B!CostOut, sold
  <2>2. cost * sold \in Nat /\ held \in Nat \ {0}
    BY <1>1, <1>3
  <2>3. out \in Nat /\ out * held <= cost * sold
    BY <2>1, <2>2
  <2>4. cost * sold <= cost * held
    BY <1>1
  <2>5. out <= cost
    <3> HIDE DEF out
    <3> SUFFICES ASSUME out >= cost + 1 PROVE FALSE
      BY <2>3
    <3>1. out * held >= (cost + 1) * held
      BY <2>2, <2>3
    <3>2. (cost + 1) * held = cost * held + held
      OBVIOUS
    <3> QED BY <2>2, <2>3, <2>4, <3>1, <3>2
  <2>6. held - sold = 0 => out = cost
    <3> SUFFICES ASSUME held = sold PROVE out = cost
      BY <1>1
    <3>1. out = (cost * held) \div held
      BY <2>1
    <3> QED BY <2>2, <3>1
  <2> QED BY <1>1, <2>3, <2>5, <2>6 DEF sold
<1> QED BY <1>2, <1>3

(* What a trade does to a position's amounts.                              *)
LEMMA TradeAmounts ==
  ASSUME NEW p, IsPosition(p), NEW t, IsTrade(t)
  PROVE  LET q == B!AfterTrade(p, t)
             out == B!CostOut(p.tokens, p.cost, t) IN
         /\ IsPosition(q)
         /\ t.kind = "buy" => /\ q.tokens = p.tokens + t.tokens /\ q.cost = p.cost + t.usd
                              /\ q.invested = p.invested + t.usd /\ q.realized = p.realized
         /\ t.kind # "buy" => /\ q.tokens = p.tokens - B!Sold(p.tokens, t) /\ q.cost = p.cost - out
                              /\ q.invested = p.invested /\ q.realized = p.realized + t.usd - out
<1> DEFINE q == B!AfterTrade(p, t)
           r == B!Traded(p, t)
           out == B!CostOut(p.tokens, p.cost, t)
           sold == B!Sold(p.tokens, t)
<1>1. /\ p.tokens \in Nat /\ p.cost \in Nat /\ p.invested \in Nat /\ p.realized \in Int
      /\ t.usd \in Nat /\ t.tokens \in Nat
  BY DEF IsPosition, IsTrade
<1>2. sold \in Nat /\ sold <= p.tokens /\ out \in Nat /\ out <= p.cost
  BY <1>1, CostOutIsPart
<1> HIDE DEF out, sold
<1>3. /\ IsPosition(r)
      /\ t.kind = "buy" => /\ r.tokens = p.tokens + t.tokens /\ r.cost = p.cost + t.usd
                           /\ r.invested = p.invested + t.usd /\ r.realized = p.realized
      /\ t.kind # "buy" => /\ r.tokens = p.tokens - sold /\ r.cost = p.cost - out
                           /\ r.invested = p.invested /\ r.realized = p.realized + t.usd - out
  <2>1. CASE t.kind = "buy"
    <3>1. r = [p EXCEPT !.openedAt = IF p.tokens = 0 THEN t.at ELSE @, !.tokens = @ + t.tokens,
                        !.cost = @ + t.usd, !.invested = @ + t.usd]
      BY <2>1, Zenon DEF B!Traded
    <3>2. p.tokens + t.tokens \in Nat /\ p.cost + t.usd \in Nat /\ p.invested + t.usd \in Nat
      BY <1>1
    <3> QED BY <2>1, <3>1, <3>2 DEF IsPosition
  <2>2. CASE t.kind # "buy"
    <3>1. r = [p EXCEPT !.realized = @ + t.usd - out, !.cost = @ - out, !.tokens = @ - sold]
      BY <2>2, Zenon DEF B!Traded, out, sold
    <3>2. p.realized + t.usd - out \in Int /\ p.cost - out \in Nat /\ p.tokens - sold \in Nat
      BY <1>1, <1>2
    <3> QED BY <2>2, <3>1, <3>2 DEF IsPosition
  <2> QED BY <2>1, <2>2
<1> HIDE DEF r
<1>4. q = [r EXCEPT !.lastTradeAt = t.at, !.open = r.tokens > 0,
                    !.entry = IF r.tokens > 0 THEN <<r.cost, r.tokens>> ELSE @]
  BY Zenon DEF B!AfterTrade, r
<1> HIDE DEF q
<1>5. IsPosition(q) /\ q.tokens = r.tokens /\ q.cost = r.cost /\ q.invested = r.invested /\ q.realized = r.realized
  BY <1>3, <1>4 DEF IsPosition
<1> QED BY <1>3, <1>5 DEF q, out, sold

LEMMA OpenedAmounts ==
  ASSUME NEW t
  PROVE  /\ IsPosition(B!Opened(t))
         /\ B!Opened(t).tokens = 0 /\ B!Opened(t).cost = 0
         /\ B!Opened(t).invested = 0 /\ B!Opened(t).realized = 0
BY DEF B!Opened, IsPosition

(* What a page shows of a token and a day it may not know.                 *)
Holding(p) == [tokens |-> p.tokens, cost |-> p.cost]
RealizedOf(by, m) == IF m \in DOMAIN by THEN by[m].realized ELSE 0
PnlOn(b, d) == IF d \in DOMAIN b.days THEN b.days[d].pnl ELSE 0

(* The two pages keep the same account of every token.                     *)
Agree(by, b) ==
  /\ DOMAIN by = DOMAIN b.held
  /\ \A m \in DOMAIN by : IsPosition(by[m]) /\ b.held[m] = Holding(by[m])
  /\ \A d \in DOMAIN b.days : IsDay(b.days[d])

(* A day after a buy.                                                      *)
LEMMA BuyBooks ==
  ASSUME NEW day, IsDay(day), NEW entries
  PROVE  LET buy == [day EXCEPT !.trades = day.trades + 1, !.entries = entries] IN
         IsDay(buy) /\ buy.pnl = day.pnl
<1>1. day.trades + 1 \in Nat
  BY DEF IsDay
<1> QED BY <1>1 DEF IsDay

(* One trade more leaves them agreed, and its day books what its position  *)
(* realizes.                                                               *)
LEMMA TradeAgrees ==
  ASSUME NEW by, NEW b, Agree(by, b), NEW t, IsTrade(t)
  PROVE  /\ Agree(B!ByMint(by, t), B!Booked(b, t))
         /\ \A d : PnlOn(B!Booked(b, t), d) =
                   PnlOn(b, d) + IF d = B!DayOf(t.at)
                                 THEN RealizedOf(B!ByMint(by, t), t.mint) - RealizedOf(by, t.mint) ELSE 0
<1> DEFINE p == B!Got(by, t.mint, B!Opened(t))
           q == B!AfterTrade(p, t)
           h == B!Got(b.held, t.mint, B!NoHolding)
           on == B!DayOf(t.at)
           day == B!Got(b.days, on, B!NoDay)
           out == B!CostOut(h.tokens, h.cost, t)
           pnl == t.usd - out
           sale == [day EXCEPT !.trades = @ + 1, !.pnl = @ + pnl, !.wins = IF pnl > 0 THEN @ + 1 ELSE @,
                               !.losses = IF pnl < 0 THEN @ + 1 ELSE @, !.entries = Append(@, <<t.id, pnl>>)]
           buy == [day EXCEPT !.trades = @ + 1, !.entries = Append(@, <<t.id, "none">>)]
           gain == q.realized - p.realized
<1>1. IsPosition(p) /\ p.realized = RealizedOf(by, t.mint)
  BY OpenedAmounts DEF B!Got, Agree, RealizedOf
<1>2. h = Holding(p)
  BY OpenedAmounts DEF B!Got, B!NoHolding, Holding, Agree
<1>3. IsDay(day) /\ day.pnl = PnlOn(b, on)
  <2>1. IsDay(B!NoDay) /\ B!NoDay.pnl = 0
    BY DEF B!NoDay, IsDay
  <2> QED BY <2>1, Zenon DEF B!Got, Agree, PnlOn
<1>4. /\ p.tokens \in Nat /\ p.cost \in Nat /\ p.realized \in Int /\ t.usd \in Nat /\ t.tokens \in Nat
      /\ h.tokens = p.tokens /\ h.cost = p.cost
  BY <1>1, <1>2 DEF IsPosition, Holding, IsTrade
<1>5. out = B!CostOut(p.tokens, p.cost, t) /\ out \in Nat /\ out <= p.cost
  BY <1>4, CostOutIsPart
<1>6. /\ IsPosition(q)
      /\ t.kind = "buy" => q.tokens = h.tokens + t.tokens /\ q.cost = h.cost + t.usd /\ q.realized = p.realized
      /\ t.kind # "buy" => /\ q.tokens = h.tokens - B!Sold(h.tokens, t) /\ q.cost = h.cost - out
                           /\ q.realized = p.realized + t.usd - out
  BY <1>1, <1>4, <1>5, TradeAmounts
<1>7. B!ByMint(by, t) = B!Put(by, t.mint, q)
  BY Zenon DEF B!ByMint
<1>8. t.kind = "buy" => B!Booked(b, t) =
        [days |-> B!Put(b.days, on, buy),
         held |-> B!Put(b.held, t.mint, [tokens |-> h.tokens + t.tokens, cost |-> h.cost + t.usd])]
  BY Zenon DEF B!Booked
<1>9. t.kind # "buy" => B!Booked(b, t) =
        [days |-> B!Put(b.days, on, sale),
         held |-> B!Put(b.held, t.mint, [tokens |-> h.tokens - B!Sold(h.tokens, t), cost |-> h.cost - out])]
  BY Zenon DEF B!Booked
<1>10. IsDay(buy) /\ buy.pnl = day.pnl
  <2> DEFINE entries == Append(day.entries, <<t.id, "none">>)
  <2>1. buy = [day EXCEPT !.trades = day.trades + 1, !.entries = entries]
    BY Zenon
  <2> HIDE DEF day, buy, entries
  <2> QED BY <1>3, <2>1, BuyBooks
<1>11. IsDay(sale) /\ sale.pnl = day.pnl + pnl
  <2> DEFINE wins == IF pnl > 0 THEN day.wins + 1 ELSE day.wins
             losses == IF pnl < 0 THEN day.losses + 1 ELSE day.losses
             entries == Append(day.entries, <<t.id, pnl>>)
             booked == day.pnl + pnl
  <2>1. pnl \in Int
    BY <1>4, <1>5
  <2>2. day.trades + 1 \in Nat /\ booked \in Int /\ wins \in Nat /\ losses \in Nat
    <3> HIDE DEF day, pnl
    <3> QED BY <1>3, <2>1 DEF IsDay
  <2> DEFINE paid == [day EXCEPT !.trades = day.trades + 1, !.pnl = booked]
             judged == [paid EXCEPT !.wins = wins, !.losses = losses]
  <2>3. sale = [judged EXCEPT !.entries = entries]
    BY Zenon
  <2> HIDE DEF day, sale, wins, losses, entries, booked
  <2>4. IsDay(paid) /\ paid.pnl = booked
    BY <1>3, <2>2 DEF IsDay
  <2> HIDE DEF paid
  <2>5. IsDay(judged) /\ judged.pnl = booked
    BY <2>2, <2>4 DEF IsDay
  <2> HIDE DEF judged
  <2>6. IsDay(sale) /\ sale.pnl = booked
    BY <2>3, <2>5 DEF IsDay
  <2> QED BY <2>6 DEF booked
<1>12. PICK now : /\ IsDay(now) /\ now.pnl = day.pnl + gain
                  /\ B!Booked(b, t).days = B!Put(b.days, on, now)
                  /\ B!Booked(b, t).held = B!Put(b.held, t.mint, Holding(q))
  <2> HIDE DEF sale, buy, q, p, h, day, out
  <2>1. CASE t.kind = "buy"
    <3>1. gain = 0 /\ day.pnl + gain = day.pnl
      BY <1>3, <1>4, <1>6, <2>1 DEF IsDay
    <3>2. Holding(q) = [tokens |-> h.tokens + t.tokens, cost |-> h.cost + t.usd]
      BY <1>6, <2>1 DEF Holding
    <3> QED BY <1>8, <1>10, <2>1, <3>1, <3>2
  <2>2. CASE t.kind # "buy"
    <3>1. gain = pnl
      BY <1>4, <1>5, <1>6, <2>2
    <3>2. Holding(q) = [tokens |-> h.tokens - B!Sold(h.tokens, t), cost |-> h.cost - out]
      BY <1>6, <2>2 DEF Holding
    <3> QED BY <1>9, <1>11, <2>2, <3>1, <3>2
  <2> QED BY <2>1, <2>2
<1> HIDE DEF p, q, h, day, out, sale, buy
<1>13. /\ DOMAIN B!ByMint(by, t) = DOMAIN by \cup {t.mint}
       /\ B!ByMint(by, t)[t.mint] = q
       /\ \A m \in DOMAIN by : m # t.mint => B!ByMint(by, t)[m] = by[m]
  BY <1>7 DEF B!Put
<1>14. /\ DOMAIN B!Booked(b, t).held = DOMAIN b.held \cup {t.mint}
       /\ B!Booked(b, t).held[t.mint] = Holding(q)
       /\ \A m \in DOMAIN b.held : m # t.mint => B!Booked(b, t).held[m] = b.held[m]
  BY <1>12 DEF B!Put
<1>15. /\ DOMAIN B!Booked(b, t).days = DOMAIN b.days \cup {on}
       /\ B!Booked(b, t).days[on] = now
       /\ \A d \in DOMAIN b.days : d # on => B!Booked(b, t).days[d] = b.days[d]
  BY <1>12 DEF B!Put
<1>16. Agree(B!ByMint(by, t), B!Booked(b, t))
  <2> HIDE DEF on
  <2> QED BY <1>6, <1>12, <1>13, <1>14, <1>15 DEF Agree
<1>17. RealizedOf(B!ByMint(by, t), t.mint) - RealizedOf(by, t.mint) = gain
  BY <1>1, <1>13 DEF RealizedOf
<1>18. ASSUME NEW d
       PROVE  PnlOn(B!Booked(b, t), d) = PnlOn(b, d) + IF d = on THEN gain ELSE 0
  <2>1. PnlOn(b, d) \in Int
    BY DEF PnlOn, Agree, IsDay
  <2>2. CASE d = on
    BY <1>3, <1>12, <1>15, <2>2 DEF PnlOn
  <2>3. CASE d # on
    BY <1>15, <2>1, <2>3 DEF PnlOn
  <2> QED BY <2>2, <2>3
<1> QED BY <1>16, <1>17, <1>18

-----------------------------------------------------------------------------
(* Trades by their amounts, in any order of their tokens, kinds and times. *)
AreTrades(s) == Len(s) \in Nat /\ \A i \in 1 .. Len(s) : IsTrade(s[i])

LEMMA AlwaysAgree ==
  ASSUME NEW s, AreTrades(s), NEW n \in 0 .. Len(s)
  PROVE  /\ Agree(B!Positions(s)[n], B!Calendar(s)[n])
         /\ DOMAIN B!Positions(s)[n] = {s[i].mint : i \in 1 .. n}
<1> DEFINE Same(k) == /\ Agree(B!Positions(s)[k], B!Calendar(s)[k])
                      /\ DOMAIN B!Positions(s)[k] = {s[i].mint : i \in 1 .. k}
           S == {k \in 0 .. Len(s) : Same(k)}
<1>1. Len(s) \in Nat /\ \A i \in 1 .. Len(s) : IsTrade(s[i])
  BY DEF AreTrades
<1>2. Same(0)
  <2>1. B!Positions(s)[0] = <<>> /\ B!Calendar(s)[0] = [days |-> <<>>, held |-> <<>>]
    BY <1>1, PassesValues
  <2> QED BY <2>1 DEF Agree
<1>3. ASSUME NEW k \in 0 .. Len(s) - 1, k \in S PROVE k + 1 \in S
  <2>1. k + 1 \in 1 .. Len(s) /\ k + 1 \in 0 .. Len(s) /\ (k + 1) - 1 = k
    BY <1>1
  <2>2. IsTrade(s[k + 1])
    BY <1>1, <2>1
  <2>3. /\ B!Positions(s)[k + 1] = B!ByMint(B!Positions(s)[k], s[k + 1])
        /\ B!Calendar(s)[k + 1] = B!Booked(B!Calendar(s)[k], s[k + 1])
    BY <1>1, <2>1, PassesValues
  <2>4. Agree(B!Positions(s)[k], B!Calendar(s)[k]) /\ DOMAIN B!Positions(s)[k] = {s[i].mint : i \in 1 .. k}
    BY <1>3
  <2>5. Agree(B!Positions(s)[k + 1], B!Calendar(s)[k + 1])
    BY <2>2, <2>3, <2>4, TradeAgrees
  <2>6. DOMAIN B!Positions(s)[k + 1] = {s[i].mint : i \in 1 .. k} \cup {s[k + 1].mint}
    BY <2>3, <2>4 DEF B!ByMint, B!Put
  <2>7. 1 .. k + 1 = 1 .. k \cup {k + 1}
    OBVIOUS
  <2>8. DOMAIN B!Positions(s)[k + 1] = {s[i].mint : i \in 1 .. k + 1}
    BY <2>6, <2>7
  <2> QED BY <2>1, <2>5, <2>8
<1>4. 0 \in S
  BY <1>1, <1>2
<1> HIDE DEF S
<1>5. \A k \in 0 .. Len(s) - 1 : k \in S => k + 1 \in S
  BY <1>3, Zenon
<1>6. n \in S
  BY <1>1, <1>4, <1>5, UpTo
<1> QED BY <1>6 DEF S

(* The portfolio and the calendar of one wallet show one account: after    *)
(* every trade of a list in time order, they know the same tokens, hold as *)
(* much of each at the same cost, and the day of the trade, no other, has  *)
(* gained what the token's position has realized by it (positionsFrom and  *)
(* dailyPnl, which keep that account twice).                               *)
THEOREM PagesAgree ==
  ASSUME NEW s, AreTrades(s), NEW n \in 1 .. Len(s)
  PROVE  LET by == B!Positions(s)  b == B!Calendar(s)  m == s[n].mint IN
         /\ DOMAIN by[n] = {s[i].mint : i \in 1 .. n} /\ DOMAIN b[n].held = DOMAIN by[n]
         /\ \A k \in DOMAIN by[n] : b[n].held[k] = [tokens |-> by[n][k].tokens, cost |-> by[n][k].cost]
         /\ \A d : PnlOn(b[n], d) =
                   PnlOn(b[n - 1], d) + IF d = B!DayOf(s[n].at) THEN RealizedOf(by[n], m) - RealizedOf(by[n - 1], m)
                                        ELSE 0
<1> DEFINE by == B!Positions(s)
           b == B!Calendar(s)
<1>1. Len(s) \in Nat /\ n \in 0 .. Len(s) /\ n - 1 \in 0 .. Len(s) /\ IsTrade(s[n])
  BY DEF AreTrades
<1>2. Agree(by[n], b[n]) /\ DOMAIN by[n] = {s[i].mint : i \in 1 .. n} /\ Agree(by[n - 1], b[n - 1])
  BY <1>1, AlwaysAgree
<1>3. by[n] = B!ByMint(by[n - 1], s[n]) /\ b[n] = B!Booked(b[n - 1], s[n])
  BY <1>1, PassesValues
<1> HIDE DEF by, b
<1>4. \A d : PnlOn(b[n], d) =
             PnlOn(b[n - 1], d) + IF d = B!DayOf(s[n].at)
                                  THEN RealizedOf(by[n], s[n].mint) - RealizedOf(by[n - 1], s[n].mint) ELSE 0
  BY <1>1, <1>2, <1>3, TradeAgrees
<1>5. DOMAIN b[n].held = DOMAIN by[n]
      /\ \A k \in DOMAIN by[n] : b[n].held[k] = [tokens |-> by[n][k].tokens, cost |-> by[n][k].cost]
  BY <1>2 DEF Agree, Holding
<1> QED BY <1>2, <1>4, <1>5 DEF by, b

-----------------------------------------------------------------------------
(* The running totals of what a token's trades of one kind came to.        *)
Totals(f, s, m, kind) ==
  /\ f \in [0 .. Len(s) -> Nat] /\ f[0] = 0
  /\ \A n \in 1 .. Len(s) : f[n] = f[n - 1] + IF s[n].mint = m /\ s[n].kind = kind THEN s[n].usd ELSE 0
Bought(s, m) == \A i \in 1 .. Len(s) : s[i].mint = m /\ s[i].kind = "buy" => s[i].tokens > 0

(* A position's amounts, after buys of spent and sales of took.            *)
AddsUp(p, spent, took, some) ==
  /\ IsPosition(p) /\ p.invested = spent /\ p.cost <= spent
  /\ p.realized = took - (spent - p.cost)
  /\ some /\ p.tokens = 0 => p.cost = 0

LEMMA TradeAddsUp ==
  ASSUME NEW p, NEW spent \in Nat, NEW took \in Nat, NEW some, AddsUp(p, spent, took, some),
         NEW t, IsTrade(t), some /\ t.kind = "buy" => t.tokens > 0
  PROVE  AddsUp(B!AfterTrade(p, t), spent + IF t.kind = "buy" THEN t.usd ELSE 0,
                                   took + IF t.kind = "sell" THEN t.usd ELSE 0, some)
<1> DEFINE q == B!AfterTrade(p, t)
           out == B!CostOut(p.tokens, p.cost, t)
           sold == B!Sold(p.tokens, t)
<1>1. /\ p.tokens \in Nat /\ p.cost \in Nat /\ p.invested \in Nat /\ p.realized \in Int
      /\ t.usd \in Nat /\ t.tokens \in Nat /\ t.kind \in {"buy", "sell"}
      /\ IsPosition(p) /\ p.invested = spent /\ p.cost <= spent
      /\ p.realized = took - (spent - p.cost) /\ (some /\ p.tokens = 0 => p.cost = 0)
  BY DEF AddsUp, IsPosition, IsTrade
<1>2. /\ sold \in Nat /\ sold <= p.tokens /\ out \in Nat /\ out <= p.cost
      /\ p.tokens > 0 /\ p.tokens - sold = 0 => out = p.cost
  BY <1>1, CostOutIsPart
<1>3. /\ IsPosition(q)
      /\ t.kind = "buy" => /\ q.tokens = p.tokens + t.tokens /\ q.cost = p.cost + t.usd
                           /\ q.invested = p.invested + t.usd /\ q.realized = p.realized
      /\ t.kind # "buy" => /\ q.tokens = p.tokens - sold /\ q.cost = p.cost - out
                           /\ q.invested = p.invested /\ q.realized = p.realized + t.usd - out
  BY <1>1, TradeAmounts
<1> HIDE DEF q, out, sold
<1>4. CASE t.kind = "buy"
  <2>1. q.invested = spent + t.usd /\ q.cost <= spent + t.usd /\ q.realized = took - ((spent + t.usd) - q.cost)
    BY <1>1, <1>3, <1>4
  <2>2. some => q.tokens # 0
    BY <1>1, <1>3, <1>4
  <2>3. AddsUp(q, spent + t.usd, took, some)
    BY <1>3, <2>1, <2>2 DEF AddsUp
  <2>4. took + 0 = took
    OBVIOUS
  <2> QED BY <1>4, <2>3, <2>4 DEF q
<1>5. CASE t.kind = "sell"
  <2>1. q.invested = spent /\ q.cost <= spent /\ q.realized = (took + t.usd) - (spent - q.cost)
    BY <1>1, <1>2, <1>3, <1>5
  <2>2. some /\ q.tokens = 0 => q.cost = 0
    BY <1>1, <1>2, <1>3, <1>5
  <2>3. AddsUp(q, spent, took + t.usd, some)
    BY <1>3, <2>1, <2>2 DEF AddsUp
  <2>4. spent + 0 = spent
    OBVIOUS
  <2> QED BY <1>5, <2>3, <2>4 DEF q
<1> QED BY <1>1, <1>4, <1>5

(* A position's result is what its sales took, less what was spent on it,  *)
(* plus the cost of the tokens that are left; tokens left never cost more  *)
(* than was spent.  When every buy brought some tokens, none left cost     *)
(* nothing: a closed position has realized exactly what it took less what  *)
(* it cost, whatever partial sales, and sales of more than was held, came  *)
(* before (positionsFrom).                                                 *)
THEOREM ResultsAddUp ==
  ASSUME NEW s, AreTrades(s), NEW m, NEW spent, Totals(spent, s, m, "buy"), NEW took, Totals(took, s, m, "sell"),
         NEW n \in 0 .. Len(s), m \in DOMAIN B!Positions(s)[n]
  PROVE  LET p == B!Positions(s)[n][m] IN
         /\ p.invested = spent[n] /\ p.cost \in 0 .. spent[n]
         /\ p.realized = took[n] - (spent[n] - p.cost)
         /\ Bought(s, m) /\ p.tokens = 0 => p.cost = 0 /\ p.realized = took[n] - spent[n]
<1> DEFINE by == B!Positions(s)
           some == Bought(s, m)
           Right(k) == IF m \in DOMAIN by[k] THEN AddsUp(by[k][m], spent[k], took[k], some)
                       ELSE spent[k] = 0 /\ took[k] = 0
           S == {k \in 0 .. Len(s) : Right(k)}
<1>1. Len(s) \in Nat /\ \A i \in 1 .. Len(s) : IsTrade(s[i])
  BY DEF AreTrades
<1>2. by[0] = <<>> /\ \A k \in 1 .. Len(s) : by[k] = B!ByMint(by[k - 1], s[k])
  BY <1>1, PassesValues
<1>3. spent[0] = 0 /\ took[0] = 0 /\ \A k \in 0 .. Len(s) : spent[k] \in Nat /\ took[k] \in Nat
  BY DEF Totals
<1>4. \A k \in 1 .. Len(s) :
        /\ spent[k] = spent[k - 1] + IF s[k].mint = m /\ s[k].kind = "buy" THEN s[k].usd ELSE 0
        /\ took[k] = took[k - 1] + IF s[k].mint = m /\ s[k].kind = "sell" THEN s[k].usd ELSE 0
  BY DEF Totals
<1> HIDE DEF by
<1>5. 0 \in S
  BY <1>1, <1>2, <1>3
<1>6. ASSUME NEW k \in 0 .. Len(s) - 1, k \in S PROVE k + 1 \in S
  <2> DEFINE t == s[k + 1]
             p == B!Got(by[k], m, B!Opened(t))
  <2>1. k + 1 \in 1 .. Len(s) /\ k + 1 \in 0 .. Len(s) /\ (k + 1) - 1 = k /\ k \in 0 .. Len(s)
    BY <1>1
  <2>2. IsTrade(t) /\ spent[k] \in Nat /\ took[k] \in Nat
    BY <1>1, <1>3, <2>1
  <2>3. by[k + 1] = B!Put(by[k], t.mint, B!AfterTrade(B!Got(by[k], t.mint, B!Opened(t)), t))
    <3>1. by[k + 1] = B!ByMint(by[k], t)
      BY <1>2, <2>1
    <3> QED BY <3>1, Zenon DEF B!ByMint
  <2>4. /\ spent[k + 1] = spent[k] + IF t.mint = m /\ t.kind = "buy" THEN t.usd ELSE 0
        /\ took[k + 1] = took[k] + IF t.mint = m /\ t.kind = "sell" THEN t.usd ELSE 0
    BY <1>4, <2>1
  <2>5. Right(k)
    BY <1>6
  <2>6. CASE t.mint = m
    <3>1. AddsUp(p, spent[k], took[k], some)
      <4>1. CASE m \in DOMAIN by[k]
        BY <2>5, <4>1 DEF B!Got
      <4>2. CASE m \notin DOMAIN by[k]
        <5>1. p = B!Opened(t) /\ spent[k] = 0 /\ took[k] = 0
          BY <2>5, <4>2 DEF B!Got
        <5> HIDE DEF p, some
        <5> QED BY <5>1, OpenedAmounts DEF AddsUp
      <4> QED BY <4>1, <4>2
    <3>2. some /\ t.kind = "buy" => t.tokens > 0
      BY <2>1, <2>6 DEF Bought
    <3> HIDE DEF p, some
    <3>3. AddsUp(B!AfterTrade(p, t), spent[k] + IF t.kind = "buy" THEN t.usd ELSE 0,
                                    took[k] + IF t.kind = "sell" THEN t.usd ELSE 0, some)
      BY <2>2, <3>1, <3>2, TradeAddsUp
    <3>4. AddsUp(B!AfterTrade(p, t), spent[k + 1], took[k + 1], some)
      BY <2>4, <2>6, <3>3
    <3>5. m \in DOMAIN by[k + 1] /\ by[k + 1][m] = B!AfterTrade(p, t)
      BY <2>3, <2>6 DEF B!Put, p
    <3> QED BY <2>1, <3>4, <3>5
  <2>7. CASE t.mint # m
    <3>1. spent[k + 1] = spent[k] /\ took[k + 1] = took[k]
      BY <2>2, <2>4, <2>7
    <3>2. (m \in DOMAIN by[k + 1] <=> m \in DOMAIN by[k]) /\ (m \in DOMAIN by[k] => by[k + 1][m] = by[k][m])
      BY <2>3, <2>7 DEF B!Put
    <3> HIDE DEF some
    <3> QED BY <2>1, <2>5, <3>1, <3>2
  <2> QED BY <2>6, <2>7
<1> HIDE DEF S
<1>7. \A k \in 0 .. Len(s) - 1 : k \in S => k + 1 \in S
  BY <1>6, Zenon
<1>8. n \in S
  BY <1>1, <1>5, <1>7, UpTo
<1>9. AddsUp(by[n][m], spent[n], took[n], some)
  BY <1>8 DEF S, by
<1>10. by[n][m].cost \in Nat /\ spent[n] \in Nat /\ took[n] \in Nat
  BY <1>3, <1>9 DEF AddsUp, IsPosition
<1>11. some /\ by[n][m].tokens = 0 => by[n][m].realized = took[n] - spent[n]
  BY <1>9, <1>10 DEF AddsUp
<1> QED BY <1>9, <1>10, <1>11 DEF AddsUp, by

-----------------------------------------------------------------------------
(* The functions of Book that go through the days one after the other,     *)
(* forwards and back, have the values their equations give.                *)
IsWins(f, s, m) == f = [n \in 0 .. m |-> IF n = 0 THEN B!NoRun ELSE B!Won(f[n - 1], s[n])]
IsBack(f, s, m) == f = [n \in 0 .. m |-> IF n = 0 THEN B!NoDays ELSE B!Looked(f[n - 1], s[Len(s) + 1 - n])]

LEMMA WinsGrow ==
  ASSUME NEW s, NEW m \in Nat, NEW f, IsWins(f, s, m)
  PROVE  \E g : IsWins(g, s, m + 1)
<1> DEFINE g == [n \in 0 .. m + 1 |-> IF n = m + 1 THEN B!Won(f[m], s[m + 1]) ELSE f[n]]
           Value(h, n) == IF n = 0 THEN B!NoRun ELSE B!Won(h[n - 1], s[n])
<1>1. \A n \in 0 .. m : f[n] = Value(f, n)
  BY Zenon DEF IsWins
<1>2. (\A n \in 0 .. m : g[n] = f[n]) /\ g[m + 1] = B!Won(f[m], s[m + 1])
  OBVIOUS
<1>3. g = [n \in 0 .. m + 1 |-> g[n]]
  OBVIOUS
<1> HIDE DEF g
<1>4. ASSUME NEW n \in 0 .. m + 1
      PROVE  g[n] = Value(g, n)
  <2>1. CASE n = m + 1
    <3>1. n # 0 /\ n - 1 = m /\ m \in 0 .. m
      BY <2>1
    <3> QED BY <1>2, <2>1, <3>1, Zenon
  <2>2. CASE n = 0
    BY <1>1, <1>2, <2>2
  <2>3. CASE n \in 1 .. m
    <3>1. n \in 0 .. m /\ n - 1 \in 0 .. m /\ n # 0
      BY <2>3
    <3> QED BY <1>1, <1>2, <3>1, Zenon
  <2> QED BY <2>1, <2>2, <2>3
<1>5. g = [n \in 0 .. m + 1 |-> Value(g, n)]
  BY <1>3, <1>4, Zenon
<1> QED BY <1>5, Zenon DEF IsWins

LEMMA BackGrows ==
  ASSUME NEW s, NEW m \in Nat, NEW f, IsBack(f, s, m)
  PROVE  \E g : IsBack(g, s, m + 1)
<1> DEFINE g == [n \in 0 .. m + 1 |-> IF n = m + 1 THEN B!Looked(f[m], s[Len(s) + 1 - (m + 1)]) ELSE f[n]]
           Value(h, n) == IF n = 0 THEN B!NoDays ELSE B!Looked(h[n - 1], s[Len(s) + 1 - n])
<1>1. \A n \in 0 .. m : f[n] = Value(f, n)
  BY Zenon DEF IsBack
<1>2. (\A n \in 0 .. m : g[n] = f[n]) /\ g[m + 1] = B!Looked(f[m], s[Len(s) + 1 - (m + 1)])
  OBVIOUS
<1>3. g = [n \in 0 .. m + 1 |-> g[n]]
  OBVIOUS
<1> HIDE DEF g
<1>4. ASSUME NEW n \in 0 .. m + 1
      PROVE  g[n] = Value(g, n)
  <2>1. CASE n = m + 1
    <3>1. n # 0 /\ n - 1 = m /\ m \in 0 .. m
      BY <2>1
    <3> QED BY <1>2, <2>1, <3>1, Zenon
  <2>2. CASE n = 0
    BY <1>1, <1>2, <2>2
  <2>3. CASE n \in 1 .. m
    <3>1. n \in 0 .. m /\ n - 1 \in 0 .. m /\ n # 0
      BY <2>3
    <3> QED BY <1>1, <1>2, <3>1, Zenon
  <2> QED BY <2>1, <2>2, <2>3
<1>5. g = [n \in 0 .. m + 1 |-> Value(g, n)]
  BY <1>3, <1>4, Zenon
<1> QED BY <1>5, Zenon DEF IsBack

LEMMA RunsExist ==
  ASSUME NEW s, NEW m \in Nat
  PROVE  (\E f : IsWins(f, s, m)) /\ \E f : IsBack(f, s, m)
<1> DEFINE S == {k \in 0 .. m : (\E f : IsWins(f, s, k)) /\ \E f : IsBack(f, s, k)}
<1>1. 0 \in S
  <2>1. \A n \in 0 .. 0 : n = 0
    OBVIOUS
  <2>2. IsWins([n \in 0 .. 0 |-> B!NoRun], s, 0)
    BY <2>1, Zenon DEF IsWins
  <2>3. IsBack([n \in 0 .. 0 |-> B!NoDays], s, 0)
    BY <2>1, Zenon DEF IsBack
  <2>4. 0 \in 0 .. m
    OBVIOUS
  <2> QED BY <2>2, <2>3, <2>4
<1>2. \A k \in 0 .. m - 1 : k \in S => k + 1 \in S
  BY WinsGrow, BackGrows
<1> HIDE DEF S
<1>3. m \in S
  BY <1>1, <1>2, UpTo
<1> QED BY <1>3 DEF S

LEMMA RunsValues ==
  ASSUME NEW s, Len(s) \in Nat
  PROVE  /\ B!WinsAfter(s)[0] = B!NoRun /\ B!LookedBack(s)[0] = B!NoDays
         /\ \A n \in 1 .. Len(s) : /\ B!WinsAfter(s)[n] = B!Won(B!WinsAfter(s)[n - 1], s[n])
                                   /\ B!LookedBack(s)[n] = B!Looked(B!LookedBack(s)[n - 1], s[Len(s) + 1 - n])
<1>1. IsWins(CHOOSE f : IsWins(f, s, Len(s)), s, Len(s))
  BY RunsExist, Zenon
<1>2. IsBack(CHOOSE f : IsBack(f, s, Len(s)), s, Len(s))
  BY RunsExist, Zenon
<1>3. IsWins(B!WinsAfter(s), s, Len(s))
  BY <1>1, Zenon DEF B!WinsAfter, IsWins
<1>4. IsBack(B!LookedBack(s), s, Len(s))
  BY <1>2, Zenon DEF B!LookedBack, IsBack
<1>5. 0 \in 0 .. Len(s) /\ \A n \in 1 .. Len(s) : n \in 0 .. Len(s) /\ n # 0
  OBVIOUS
<1>6. \A n \in 0 .. Len(s) :
        /\ B!WinsAfter(s)[n] = IF n = 0 THEN B!NoRun ELSE B!Won(B!WinsAfter(s)[n - 1], s[n])
        /\ B!LookedBack(s)[n] = IF n = 0 THEN B!NoDays ELSE B!Looked(B!LookedBack(s)[n - 1], s[Len(s) + 1 - n])
  BY <1>3, <1>4, Zenon DEF IsWins, IsBack
<1> QED BY <1>5, <1>6, Zenon

(* k winning days from the i-th on; and, before the days up to m, the run  *)
(* they end with and the longest of all.                                   *)
AllWon(p, i, k) == \A j \in i .. i + k - 1 : p[j] > 0
EndsWith(p, m, n) == n \in 0 .. m /\ AllWon(p, m - n + 1, n) /\ (n < m => ~(p[m - n] > 0))
LongestIs(p, m, b) ==
  /\ b \in 0 .. m /\ \E i \in 1 .. m - b + 1 : AllWon(p, i, b)
  /\ \A i \in 1 .. m, k \in 1 .. m : i + k <= m + 1 /\ AllWon(p, i, k) => k <= b

LEMMA RunGoesOn ==
  ASSUME NEW p \in Seq(Int), NEW m \in 0 .. Len(p) - 1, NEW n, EndsWith(p, m, n)
  PROVE  EndsWith(p, m + 1, IF p[m + 1] > 0 THEN n + 1 ELSE 0)
<1>1. p[m + 1] \in Int /\ m \in Nat /\ n \in 0 .. m
  BY DEF EndsWith
<1>2. CASE p[m + 1] > 0
  <2>1. AllWon(p, m + 1 - (n + 1) + 1, n + 1)
    <3> SUFFICES ASSUME NEW j \in m + 1 - (n + 1) + 1 .. m + 1 - (n + 1) + 1 + (n + 1) - 1 PROVE p[j] > 0
      BY DEF AllWon
    <3>1. j = m + 1 \/ j \in m - n + 1 .. m - n + 1 + n - 1
      BY <1>1
    <3> QED BY <1>2, <3>1 DEF EndsWith, AllWon
  <2>2. n + 1 < m + 1 => ~(p[m + 1 - (n + 1)] > 0)
    <3>1. m + 1 - (n + 1) = m - n /\ (n + 1 < m + 1 => n < m)
      BY <1>1
    <3> QED BY <3>1 DEF EndsWith
  <2>3. n + 1 \in 0 .. m + 1
    BY <1>1
  <2> QED BY <1>2, <2>1, <2>2, <2>3 DEF EndsWith
<1>3. CASE ~(p[m + 1] > 0)
  <2>1. 0 \in 0 .. m + 1 /\ m + 1 - 0 + 1 .. m + 1 - 0 + 1 + 0 - 1 = {} /\ m + 1 - 0 = m + 1
    BY <1>1
  <2>2. AllWon(p, m + 1 - 0 + 1, 0)
    BY <2>1, Zenon DEF AllWon
  <2>3. ~(p[m + 1 - 0] > 0)
    BY <1>3, <2>1
  <2>4. EndsWith(p, m + 1, 0)
    BY <2>1, <2>2, <2>3 DEF EndsWith
  <2> QED BY <1>3, <2>4
<1> QED BY <1>2, <1>3

LEMMA LongestGrows ==
  ASSUME NEW p \in Seq(Int), NEW m \in 1 .. Len(p), NEW n, NEW b, EndsWith(p, m, n), LongestIs(p, m - 1, b)
  PROVE  LongestIs(p, m, IF n > b THEN n ELSE b)
<1> DEFINE c == IF n > b THEN n ELSE b
<1>1. n \in 0 .. m /\ b \in 0 .. m - 1 /\ m \in Nat
  BY DEF EndsWith, LongestIs
<1>2. c \in 0 .. m /\ n <= c /\ b <= c
  BY <1>1
<1>3. \E i \in 1 .. m - c + 1 : AllWon(p, i, c)
  <2>1. CASE n > b
    <3>1. c = n /\ m - n + 1 \in 1 .. m - n + 1
      BY <1>1, <2>1
    <3> QED BY <3>1 DEF EndsWith
  <2>2. CASE ~(n > b)
    <3>1. PICK i \in 1 .. m - 1 - b + 1 : AllWon(p, i, b)
      BY DEF LongestIs
    <3>2. c = b /\ i \in 1 .. m - b + 1
      BY <1>1, <2>2
    <3> QED BY <3>1, <3>2
  <2> QED BY <2>1, <2>2
<1> HIDE DEF c
<1>4. ASSUME NEW i \in 1 .. m, NEW k \in 1 .. m, i + k <= m + 1, AllWon(p, i, k)
      PROVE  k <= c
  <2>1. CASE i + k <= m
    <3>1. i \in 1 .. m - 1 /\ k \in 1 .. m - 1 /\ i + k <= m - 1 + 1
      BY <2>1
    <3>2. k <= b
      BY <1>4, <3>1 DEF LongestIs
    <3> QED BY <1>1, <1>2, <3>2
  <2>2. CASE i + k = m + 1
    <3>1. k <= n
      <4>1. SUFFICES ASSUME n < k PROVE FALSE
        BY <1>1
      <4>2. n < m /\ m - n \in i .. i + k - 1
        BY <1>1, <2>2, <4>1
      <4> QED BY <1>4, <4>2 DEF AllWon, EndsWith
    <3> QED BY <1>1, <1>2, <3>1
  <2> QED BY <1>4, <2>1, <2>2
<1>5. LongestIs(p, m, c)
  BY <1>2, <1>3, <1>4 DEF LongestIs
<1> QED BY <1>5 DEF c

(* What the days looked at show, the last m: they all have one sign, as    *)
(* many as counted; or a day among them has ended the count.               *)
Size(n) == IF n < 0 THEN -n ELSE n
OneSign(p, k) == \A j \in Len(p) - k + 1 .. Len(p) : B!Sign(p[j]) = B!Sign(p[Len(p)])
Counts(p, n) == n \in Int /\ (n # 0 => B!Sign(n) = B!Sign(p[Len(p)]) /\ OneSign(p, Size(n)))
Ended(p, m, n) ==
  /\ Size(n) < m
  /\ IF n = 0 THEN B!Sign(p[Len(p)]) = 0 ELSE B!Sign(p[Len(p) - Size(n)]) # B!Sign(p[Len(p)])
ShowsRun(p, m, s) ==
  /\ s \in [n : Int, done : BOOLEAN] /\ Counts(p, s.n)
  /\ IF s.done THEN Ended(p, m, s.n) ELSE Size(s.n) = m

LEMMA SignValues ==
  ASSUME NEW v \in Int
  PROVE  /\ B!Sign(v) \in {-1, 0, 1} /\ (B!Sign(v) = 0 <=> v = 0) /\ Size(v) \in Nat /\ (Size(v) = 0 <=> v = 0)
         /\ \A g \in {-1, 1} : (v = 0 \/ B!Sign(v) = g) => B!Sign(v + g) = g /\ Size(v + g) = Size(v) + 1 /\ v + g # 0
  BY DEF B!Sign, Size

LEMMA LookGoesOn ==
  ASSUME NEW p \in Seq(Int), NEW m \in 1 .. Len(p), NEW s, ShowsRun(p, m - 1, s)
  PROVE  ShowsRun(p, m, B!Looked(s, p[Len(p) + 1 - m]))
<1> DEFINE L == Len(p)
           v == p[L + 1 - m]
           g == B!Sign(v)
           n == s.n
<1>1. L \in Nat /\ L + 1 - m \in 1 .. L /\ v \in Int /\ p[L] \in Int /\ m \in 1 .. L
  OBVIOUS
<1>2. s \in [n : Int, done : BOOLEAN] /\ n \in Int /\ Counts(p, n)
  BY DEF ShowsRun
<1>3. g \in {-1, 0, 1} /\ Size(n) \in Nat /\ (Size(n) = 0 <=> n = 0)
  BY <1>1, <1>2, SignValues
<1>4. CASE s.done
  <2>1. B!Looked(s, v) = s
    BY <1>2, <1>4 DEF B!Looked
  <2>2. Ended(p, m - 1, n)
    BY <1>4 DEF ShowsRun
  <2>3. Ended(p, m, n)
    BY <1>1, <1>3, <2>2 DEF Ended
  <2> QED BY <1>2, <1>4, <2>1, <2>3 DEF ShowsRun
<1>5. CASE ~s.done /\ (g = 0 \/ (n # 0 /\ B!Sign(n) # g))
  <2>1. Size(n) = m - 1
    BY <1>5 DEF ShowsRun
  <2>2. B!Looked(s, v) = [s EXCEPT !.done = TRUE]
    BY <1>5 DEF B!Looked
  <2> DEFINE t == [s EXCEPT !.done = TRUE]
  <2>3. t \in [n : Int, done : BOOLEAN] /\ t.n = n /\ t.done
    BY <1>2
  <2>4. Ended(p, m, n)
    <3>1. CASE n = 0
      <4>1. m = 1 /\ L + 1 - m = L
        BY <1>1, <1>3, <2>1, <3>1
      <4>2. g = 0 /\ B!Sign(p[L]) = 0 /\ Size(n) < m
        BY <1>3, <1>5, <3>1, <4>1
      <4> QED BY <3>1, <4>2 DEF Ended
    <3>2. CASE n # 0
      <4>1. L + 1 - m = L - Size(n) /\ Size(n) < m
        BY <1>1, <2>1
      <4>2. B!Sign(n) = B!Sign(p[L]) /\ B!Sign(n) # 0
        BY <1>2, <3>2, SignValues DEF Counts
      <4>3. B!Sign(p[L - Size(n)]) = g
        BY <4>1
      <4>4. g # B!Sign(p[L])
        BY <1>5, <3>2, <4>2
      <4> HIDE DEF g
      <4> QED BY <3>2, <4>1, <4>3, <4>4 DEF Ended
    <3> QED BY <3>1, <3>2
  <2> HIDE DEF t
  <2>5. ShowsRun(p, m, t)
    BY <1>2, <2>3, <2>4 DEF ShowsRun
  <2> QED BY <2>2, <2>5 DEF t
<1>6. CASE ~s.done /\ g # 0 /\ (n = 0 \/ B!Sign(n) = g)
  <2>1. Size(n) = m - 1
    BY <1>6 DEF ShowsRun
  <2>2. B!Looked(s, v) = [s EXCEPT !.n = @ + g]
    BY <1>6 DEF B!Looked
  <2> DEFINE t == [s EXCEPT !.n = @ + g]
  <2>3. t \in [n : Int, done : BOOLEAN] /\ t.n = n + g /\ ~t.done
    BY <1>2, <1>3, <1>6, SMTT(30)
  <2>4. B!Sign(n + g) = g /\ Size(n + g) = m /\ n + g # 0 /\ n + g \in Int
    <3>1. g \in {-1, 1}
      BY <1>3, <1>6
    <3> HIDE DEF g
    <3>2. B!Sign(n + g) = g /\ Size(n + g) = Size(n) + 1 /\ n + g # 0
      BY <1>2, <1>6, <3>1, SignValues
    <3> QED BY <1>1, <1>2, <2>1, <3>1, <3>2
  <2>5. g = B!Sign(p[L])
    <3>1. CASE n = 0
      <4>1. L + 1 - m = L
        BY <1>1, <1>3, <2>1, <3>1
      <4> QED BY <4>1
    <3>2. CASE n # 0
      BY <1>2, <1>6, <3>2 DEF Counts
    <3> QED BY <3>1, <3>2
  <2>6. OneSign(p, m)
    <3> SUFFICES ASSUME NEW j \in L - m + 1 .. L PROVE B!Sign(p[j]) = B!Sign(p[L])
      BY DEF OneSign
    <3>1. CASE j = L + 1 - m
      BY <2>5, <3>1
    <3>2. CASE j # L + 1 - m
      <4>1. j \in L - Size(n) + 1 .. L /\ n # 0
        BY <1>1, <1>3, <2>1, <3>2, SMTT(30)
      <4> QED BY <1>2, <4>1 DEF Counts, OneSign
    <3> QED BY <3>1, <3>2
  <2> HIDE DEF t, g
  <2>7. Counts(p, n + g)
    BY <2>4, <2>5, <2>6 DEF Counts
  <2>8. ShowsRun(p, m, t)
    BY <2>3, <2>4, <2>7 DEF ShowsRun
  <2> QED BY <2>2, <2>8 DEF t
<1> QED BY <1>2, <1>4, <1>5, <1>6

(* The streaks of the calendar (streaks), for any results: the best is k   *)
(* days or more exactly if some k days in a row all won, and the current   *)
(* one is k days or more exactly if the last k all have the sign of the    *)
(* last day, which is its own and not zero.                                *)
THEOREM StreaksAreRuns ==
  ASSUME NEW p \in Seq(Int)
  PROVE  /\ \A k \in 1 .. Len(p) : k <= B!BestStreak(p) <=> \E i \in 1 .. Len(p) - k + 1 : AllWon(p, i, k)
         /\ \A k \in 1 .. Len(p) : k <= Size(B!CurrentStreak(p)) <=> B!Sign(p[Len(p)]) # 0 /\ OneSign(p, k)
         /\ B!CurrentStreak(p) # 0 => B!Sign(B!CurrentStreak(p)) = B!Sign(p[Len(p)])
         /\ B!BestStreak(p) \in 0 .. Len(p) /\ Size(B!CurrentStreak(p)) \in 0 .. Len(p)
<1> DEFINE L == Len(p)
           f == B!WinsAfter(p)
           h == B!LookedBack(p)
           Good(m) == /\ f[m] \in [n : Nat, best : Nat] /\ EndsWith(p, m, f[m].n) /\ LongestIs(p, m, f[m].best)
                      /\ ShowsRun(p, m, h[m])
           S == {m \in 0 .. L : Good(m)}
<1>1. L \in Nat
  OBVIOUS
<1>2. /\ f[0] = B!NoRun /\ h[0] = B!NoDays
      /\ \A m \in 1 .. L : f[m] = B!Won(f[m - 1], p[m]) /\ h[m] = B!Looked(h[m - 1], p[L + 1 - m])
  BY <1>1, RunsValues
<1> HIDE DEF f, h
<1>3. 0 \in S
  <2>1. f[0] \in [n : Nat, best : Nat] /\ f[0].n = 0 /\ f[0].best = 0
    BY <1>2 DEF B!NoRun
  <2>2. h[0] \in [n : Int, done : BOOLEAN] /\ h[0].n = 0 /\ ~h[0].done
    BY <1>2 DEF B!NoDays
  <2>3. AllWon(p, 0 - 0 + 1, 0) /\ AllWon(p, 1, 0)
    BY DEF AllWon
  <2>4. EndsWith(p, 0, 0)
    BY <2>3 DEF EndsWith
  <2>5. LongestIs(p, 0, 0)
    BY <2>3 DEF LongestIs
  <2>6. ShowsRun(p, 0, h[0])
    BY <2>2 DEF ShowsRun, Counts, Size
  <2> QED BY <1>1, <2>1, <2>4, <2>5, <2>6
<1>4. ASSUME NEW m \in 0 .. L - 1, m \in S PROVE m + 1 \in S
  <2>1. Good(m) /\ m + 1 \in 1 .. L /\ m + 1 - 1 = m /\ p[m + 1] \in Int
    BY <1>4
  <2> DEFINE n == IF p[m + 1] > 0 THEN f[m].n + 1 ELSE 0
             b == IF n > f[m].best THEN n ELSE f[m].best
  <2>2. f[m + 1] = B!Won(f[m], p[m + 1]) /\ h[m + 1] = B!Looked(h[m], p[L + 1 - (m + 1)])
    BY <1>2, <2>1
  <2>3. EndsWith(p, m + 1, n)
    BY <2>1, RunGoesOn
  <2>4. LongestIs(p, m + 1, b)
    <3> HIDE DEF n
    <3>1. LongestIs(p, m + 1 - 1, f[m].best)
      BY <2>1
    <3> QED BY <2>1, <2>3, <3>1, LongestGrows
  <2>5. ShowsRun(p, m + 1, h[m + 1])
    <3>1. ShowsRun(p, m + 1 - 1, h[m])
      BY <2>1
    <3> QED BY <2>1, <2>2, <3>1, LookGoesOn
  <2>6. f[m + 1] = [n |-> n, best |-> b]
    BY <2>2 DEF B!Won
  <2>7. n \in Nat /\ b \in Nat
    BY <2>1
  <2> HIDE DEF n, b
  <2>8. f[m + 1] \in [n : Nat, best : Nat] /\ f[m + 1].n = n /\ f[m + 1].best = b
    BY <2>6, <2>7
  <2>9. Good(m + 1) /\ m + 1 \in 0 .. L
    BY <2>1, <2>3, <2>4, <2>5, <2>8
  <2> QED BY <2>9
<1>5. Good(L)
  <2> HIDE DEF S, L
  <2>1. \A m \in 0 .. L - 1 : m \in S => m + 1 \in S
    BY <1>4
  <2>2. \A m \in 0 .. L : m \in S
    BY <1>1, <1>3, <2>1, UpTo
  <2>3. L \in S
    BY <1>1, <2>2
  <2> QED BY <2>3 DEF S
<1> DEFINE b == f[L].best
           c == h[L].n
<1>6. b = B!BestStreak(p) /\ c = B!CurrentStreak(p)
  BY DEF B!BestStreak, B!CurrentStreak, f, h
<1>7. LongestIs(p, L, b) /\ ShowsRun(p, L, h[L])
  BY <1>5
<1> HIDE DEF b
<1>8. b \in 0 .. L
  BY <1>7 DEF LongestIs
<1>9. ASSUME NEW k \in 1 .. L PROVE k <= b <=> \E i \in 1 .. L - k + 1 : AllWon(p, i, k)
  <2>1. ASSUME k <= b PROVE \E i \in 1 .. L - k + 1 : AllWon(p, i, k)
    <3>1. PICK i \in 1 .. L - b + 1 : AllWon(p, i, b)
      BY <1>7 DEF LongestIs
    <3>2. i \in 1 .. L - k + 1 /\ i .. i + k - 1 \subseteq i .. i + b - 1
      BY <1>1, <1>8, <2>1
    <3>3. AllWon(p, i, k)
      BY <3>1, <3>2, Zenon DEF AllWon
    <3> QED BY <3>2, <3>3
  <2>2. ASSUME NEW i \in 1 .. L - k + 1, AllWon(p, i, k) PROVE k <= b
    <3>1. i \in 1 .. L /\ i + k <= L + 1
      BY <1>1
    <3> QED BY <1>7, <2>2, <3>1 DEF LongestIs
  <2> QED BY <2>1, <2>2
<1>10. c \in Int /\ Counts(p, c) /\ (Ended(p, L, c) \/ Size(c) = L)
  BY <1>7 DEF ShowsRun
<1> HIDE DEF c
<1>11. Size(c) \in 0 .. L /\ (Size(c) = 0 <=> c = 0) /\ (c # 0 => B!Sign(c) = B!Sign(p[L]) /\ B!Sign(c) # 0 /\ OneSign(p, Size(c)))
  <2>1. Size(c) \in Nat /\ (Size(c) = 0 <=> c = 0) /\ (B!Sign(c) = 0 <=> c = 0)
    BY <1>10, SignValues
  <2>2. Size(c) <= L
    <3>1. Size(c) < L \/ Size(c) = L
      BY <1>10 DEF Ended
    <3> QED BY <1>1, <2>1, <3>1
  <2>3. c # 0 => B!Sign(c) = B!Sign(p[L]) /\ OneSign(p, Size(c))
    BY <1>10 DEF Counts
  <2>4. Size(c) \in 0 .. L
    BY <1>1, <2>1, <2>2
  <2> QED BY <2>1, <2>3, <2>4
<1>12. ASSUME NEW k \in 1 .. L PROVE k <= Size(c) <=> B!Sign(p[L]) # 0 /\ OneSign(p, k)
  <2>1. ASSUME k <= Size(c) PROVE B!Sign(p[L]) # 0 /\ OneSign(p, k)
    <3>1. c # 0
      BY <1>11, <2>1
    <3>2. L - k + 1 .. L \subseteq L - Size(c) + 1 .. L
      BY <1>1, <1>11, <2>1
    <3>3. OneSign(p, k)
      BY <1>11, <3>1, <3>2, Zenon DEF OneSign
    <3> QED BY <1>11, <3>1, <3>3
  <2>2. ASSUME ~(k <= Size(c)), B!Sign(p[L]) # 0, OneSign(p, k) PROVE FALSE
    <3>1. Size(c) < k /\ Size(c) < L
      BY <1>1, <1>11, <2>2
    <3>2. Ended(p, L, c)
      BY <1>10, <3>1
    <3>3. c # 0 /\ B!Sign(p[L - Size(c)]) # B!Sign(p[L])
      BY <2>2, <3>2 DEF Ended
    <3>4. L - Size(c) \in L - k + 1 .. L
      BY <1>1, <1>11, <3>1
    <3> QED BY <2>2, <3>3, <3>4 DEF OneSign
  <2> QED BY <2>1, <2>2
<1> QED BY <1>6, <1>8, <1>9, <1>11, <1>12
=============================================================================
