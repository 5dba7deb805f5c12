------------------------------- MODULE Wallet --------------------------------
(* What quick buy stands on: the wallet of the visitor                      *)
(* (src/src/client/wallet.ts and the session of tradeActions.ts), the       *)
(* store in the browser (src/src/store/useTrade.ts) and the router's client *)
(* (src/src/server/trade/kyber.ts).                                         *)
EXTENDS Integers, Sequences, FiniteSets
LOCAL INSTANCE SequencesExt
LOCAL INSTANCE FiniteSetsExt
LOCAL INSTANCE Functions

CONSTANTS
  None,                 \* null and undefined
  Throws,               \* a call that throws
  Chain,                \* ROBINHOOD_CHAIN
  Router,               \* KYBER_ROUTER
  NoRouteCodes, MaxPlaces, UsualPlaces,
  MinUsd, MaxUsd, DefaultUsd, MinSlippage, MaxSlippage, DefaultSlippage,
  MaxToasts

(* KyberClient.quote: a reply has a code, a summary and a router, or is     *)
(* Throws - no answer, HTTP 429, not JSON.                                  *)
Quote(amountIn, reply) ==
  IF amountIn <= 0 THEN None
  ELSE IF reply = Throws THEN Throws
  ELSE IF reply.code # 0 THEN (IF reply.code \in NoRouteCodes THEN None ELSE Throws)
  ELSE IF reply.summary = None \/ reply.router # Router THEN Throws
  ELSE reply.summary

(* KyberClient.build: only the router, and the ETH that was quoted.         *)
Value(summary, reply) ==
  IF reply.value # None THEN reply.value ELSE IF summary.native THEN summary.amountIn ELSE 0
Build(summary, reply) ==
  IF reply = Throws THEN Throws
  ELSE IF \/ reply.code # 0 \/ reply.router # Router \/ ~reply.calldata
          \/ Value(summary, reply) # (IF summary.native THEN summary.amountIn ELSE 0)
  THEN Throws
  ELSE [to |-> Router, value |-> Value(summary, reply),
        amountOut |-> IF reply.amountOut # None THEN reply.amountOut ELSE summary.amountOut]

(* Wallets that announced themselves, else the injected one.                *)
Discover(announced, injected) ==
  LET named == SelectSeq(announced, LAMBDA w : w.id # None) IN
  IF named # <<>> THEN {w.id : w \in ToSet(named)} ELSE IF injected # None THEN {"injected"} ELSE {}

(* ensureChain: a provider has the chain it is on, whether it knows         *)
(* Robinhood Chain, and how its user answers; a switch to a chain it does   *)
(* not know fails, and adding it may or may not switch.                     *)
Switched(p) ==
  IF p.chain = Chain THEN p
  ELSE IF p.known THEN (IF p.accepts THEN [p EXCEPT !.chain = Chain] ELSE Throws)
  ELSE IF ~p.accepts THEN Throws
  ELSE [p EXCEPT !.known = TRUE, !.chain = IF p.addSwitches THEN Chain ELSE @]
EnsureChain(p) == LET after == Switched(p) IN IF after = Throws THEN Throws ELSE IF after.chain # Chain THEN Throws ELSE after
ConnectWallet(p, account) == IF account = None \/ EnsureChain(p) = Throws THEN Throws ELSE account
Sent(p, hash) == IF EnsureChain(p) = Throws \/ hash = None THEN Throws ELSE [chain |-> EnsureChain(p).chain, hash |-> hash]

(* Token units: read from the transfers of the receipt, or from a call      *)
(* whose answer may be too short or absurd.                                 *)
TokensReceived(logs, token, owner) ==
  FoldLeft(LAMBDA sum, l : IF l.address = token /\ l.transfer /\ l.to = owner THEN sum + l.value ELSE sum, 0, logs)
Balance(out) == IF out = Throws THEN Throws ELSE IF out = None THEN 0 ELSE out
Decimals(out) == IF out = Throws \/ out = None THEN UsualPlaces ELSE IF out <= MaxPlaces THEN out ELSE UsualPlaces
ApprovedAmount(allowance, amount) == IF allowance >= amount THEN None ELSE amount

(* The session: the wallet shown, the provider listened to, what the tab    *)
(* remembers, the trades shown, and restores that wait for an answer.       *)
NoSession == [wallet |-> None, watching |-> None, remembered |-> None, tradesOf |-> None, restoring |-> <<>>]
SetWallet(s, wallet) == [s EXCEPT !.wallet = wallet, !.tradesOf = IF wallet = None THEN None ELSE wallet.address]
Shown(s, id, account) == [SetWallet(s, [id |-> id, address |-> account]) EXCEPT !.watching = id]
Connect(s, id, answer) == IF answer = Throws THEN s ELSE [Shown(s, id, answer) EXCEPT !.remembered = id]
Disconnect(s) == [SetWallet(s, None) EXCEPT !.watching = None, !.remembered = None]
OnAccounts(s, id, accounts) ==
  IF s.watching # id \/ s.wallet = None THEN s
  ELSE IF accounts = <<>> THEN Disconnect(s)
  ELSE IF accounts[1] # s.wallet.address THEN SetWallet(s, [s.wallet EXCEPT !.address = accounts[1]]) ELSE s
RestoreBegins(s) == IF s.remembered = None THEN s ELSE [s EXCEPT !.restoring = Append(@, s.remembered)]
RestoreEnds(s, accounts) ==
  IF s.restoring = <<>> THEN s
  ELSE LET rest == [s EXCEPT !.restoring = Tail(@)] IN
       IF accounts = <<>> THEN rest ELSE Shown(rest, s.restoring[1], accounts[1])

(* Storage that is missing, throws or holds something else reads as         *)
(* nothing; a write that fails is not noticed.                              *)
Read(storage, key) == IF storage = Throws THEN None ELSE IF key \in DOMAIN storage THEN storage[key] ELSE None
Write(storage, key, value) == IF storage = Throws THEN Throws ELSE [k \in DOMAIN storage \cup {key} |-> IF k = key THEN value ELSE storage[k]]

Clamp(v, lo, hi) == Min({hi, Max({lo, v})})
Cleaned(v, lo, hi, default) == IF v = None THEN default ELSE Clamp(v, lo, hi)
CleanSettings(s) ==
  LET field(k) == IF s = None THEN None ELSE IF k \in DOMAIN s THEN s[k] ELSE None IN
  [amountUsd |-> Cleaned(field("amountUsd"), MinUsd, MaxUsd, DefaultUsd),
   slippageBps |-> Cleaned(field("slippageBps"), MinSlippage, MaxSlippage, DefaultSlippage),
   confirm |-> field("confirm") = TRUE]
LoadTrades(storage, key) == LET list == Read(storage, key) IN IF list = None THEN <<>> ELSE SelectSeq(list, LAMBDA x : x.kind \in {"buy", "sell"})

(* The store without its trades: settings, disclaimer and messages.         *)
Closed == [ready |-> FALSE, settings |-> CleanSettings(None), accepted |-> FALSE, toasts |-> <<>>, lastToast |-> 0]
Opened(store, storage) ==
  IF store.ready THEN store
  ELSE [store EXCEPT !.ready = TRUE, !.settings = CleanSettings(Read(storage, "settings")),
                     !.accepted = Read(storage, "disclaimer") # None]
SetSettings(store, change) ==
  [store EXCEPT !.settings = CleanSettings([k \in DOMAIN @ |-> IF k \in DOMAIN change THEN change[k] ELSE @[k]])]
Toast(store) ==
  [store EXCEPT !.lastToast = @ + 1,
     !.toasts = Append(SubSeq(@, Max({1, Len(@) - MaxToasts + 2}), Len(@)), store.lastToast + 1)]
Dismiss(store, id) == [store EXCEPT !.toasts = SelectSeq(@, LAMBDA x : x # id)]
=============================================================================
