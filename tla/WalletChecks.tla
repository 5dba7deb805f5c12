---------------------------- MODULE WalletChecks -----------------------------
(* What quick buy stands on (Wallet), over every small input and, for the   *)
(* session, every short run of events.                                      *)
EXTENDS Integers, Sequences, FiniteSets
LOCAL INSTANCE SequencesExt

CONSTANTS Nothing, Throwing

W == INSTANCE Wallet WITH None <- Nothing, Throws <- Throwing, Chain <- "robinhood", Router <- "router",
       NoRouteCodes <- {4008, 4011}, MaxPlaces <- 36, UsualPlaces <- 18, MinUsd <- 10, MaxUsd <- 50, DefaultUsd <- 25,
       MinSlippage <- 50, MaxSlippage <- 1500, DefaultSlippage <- 500, MaxToasts <- 5

(* "No market" is said only when the router said so, never for an outage;   *)
(* a swap to be signed goes to the router with exactly the ETH quoted, and  *)
(* none for a sale (quote, build).                                          *)
QuoteReplies == {Throwing} \cup [code : {0, 4008, 500}, summary : {Nothing, "route"}, router : {"router", "other"}]
BuildReplies == {Throwing} \cup [code : {0, 4008}, router : {"router", "other"}, calldata : BOOLEAN,
                                 value : {Nothing, 0, 5, 6}, amountOut : {Nothing, 9}]
ASSUME OutageIsNoAnswer ==
  /\ \A amount \in -1..1, reply \in QuoteReplies :
       W!Quote(amount, reply) = Nothing => amount <= 0 \/ (reply # Throwing /\ reply.code \in {4008, 4011})
  /\ \A reply \in BuildReplies, native \in BOOLEAN :
       LET swap == W!Build([native |-> native, amountIn |-> 5, amountOut |-> 8], reply) IN
       swap # Throwing => /\ reply.router = "router" /\ swap.to = "router"
                          /\ swap.value = IF native THEN 5 ELSE 0
                          /\ swap.amountOut \in {8, 9}

(* Whatever the wallet does, a hash is only returned for a transaction on   *)
(* Robinhood Chain; an account only of a wallet that is there               *)
(* (ensureChain).                                                           *)
Providers == [chain : {"robinhood", "other"}, known : BOOLEAN, accepts : BOOLEAN, addSwitches : BOOLEAN]
ASSUME TradesOnItsChain ==
  \A p \in Providers :
    /\ W!Sent(p, "hash") # Throwing => W!Sent(p, "hash").chain = "robinhood"
    /\ W!Sent(p, "hash") = Throwing <=> p.chain = "other" /\ (~p.accepts \/ (~p.known /\ ~p.addSwitches))
    /\ W!ConnectWallet(p, "a") = Throwing <=> W!Sent(p, "hash") = Throwing
    /\ W!Sent(p, Nothing) = Throwing /\ W!ConnectWallet(p, Nothing) = Throwing

(* Only the owner's own tokens count, and the units of several tokens or    *)
(* owners add up to all of them (tokensReceived).                           *)
Transfers == [address : {"t", "u"}, transfer : BOOLEAN, to : {"me", "pool"}, value : {1, 2}]
ASSUME OwnTokensCount ==
  /\ \A x \in Transfers, y \in Transfers :
       LET units(token, owner) == W!TokensReceived(<<x, y>>, token, owner) each(l) == IF l.transfer THEN l.value ELSE 0 IN
       units("t", "me") + units("t", "pool") + units("u", "me") + units("u", "pool") = each(x) + each(y)
  /\ \A out \in {Throwing, Nothing, 0, 6, 36, 37} : W!Decimals(out) \in 0..36
  /\ W!Balance(Nothing) = 0 /\ W!Balance(Throwing) = Throwing
  /\ W!ApprovedAmount(3, 4) = 4 /\ W!ApprovedAmount(4, 4) = Nothing
  /\ W!Discover(<<[id |-> Nothing]>>, "x") = {"injected"} /\ W!Discover(<<[id |-> "w"], [id |-> "w"]>>, "x") = {"w"}

(* However connecting, disconnecting, account changes and late restores     *)
(* fall, the page listens to the wallet it shows and to no other, and the   *)
(* trades shown are that account's. Without a restore under way a reload    *)
(* brings back the wallet shown; a restore that answers late may show       *)
(* another than the tab remembers, or one that was disconnected.            *)
WalletIds == {"v", "w"}
Happens == UNION {[kind : {"connect"}, id : {i}, account : {<<i, 0>>, Throwing}]
                  \cup [kind : {"accounts"}, id : {i}, account : {<<i, 1>>, Nothing}] : i \in WalletIds}
           \cup [kind : {"disconnect", "restore"}] \cup [kind : {"restored"}, account : {<<"any", 0>>, Nothing}]
AccountsIn(e) == IF e.account = Nothing THEN <<>> ELSE <<e.account>>
Session(s, e) ==
  CASE e.kind = "connect" -> W!Connect(s, e.id, e.account)
    [] e.kind = "accounts" -> W!OnAccounts(s, e.id, AccountsIn(e))
    [] e.kind = "disconnect" -> W!Disconnect(s)
    [] e.kind = "restore" -> W!RestoreBegins(s)
    [] e.kind = "restored" -> W!RestoreEnds(s, AccountsIn(e))
ASSUME ListensToItsWallet ==
  \A happened \in [1..4 -> Happens] :
    LET s == FoldLeft(LAMBDA r, e : Session(r, e), W!NoSession, happened)
        late == \E i \in 1..4 : happened[i].kind = "restored" IN
    /\ IF s.wallet = Nothing THEN s.watching = Nothing /\ s.tradesOf = Nothing
       ELSE s.watching = s.wallet.id /\ s.tradesOf = s.wallet.address /\ s.wallet.address[1] \in {s.wallet.id, "any"}
    /\ ~late => s.remembered = s.watching
ASSUME LateRestoreShows ==
  LET w == W!Connect(W!NoSession, "w", "a") waiting == W!RestoreBegins(w) IN
  /\ W!RestoreEnds(W!Connect(waiting, "v", "b"), <<"a">>).wallet.id = "w"
  /\ W!RestoreEnds(W!Disconnect(waiting), <<"a">>).wallet # Nothing

(* Whatever the browser stored, amount and slippage end within their        *)
(* limits, cleaning again changes nothing, and a page without storage       *)
(* works as a new one (cleanSettings, init).                                *)
Kept == {Throwing, <<>>} \cup {[settings |-> s] : s \in [amountUsd : {Nothing, 0, 10, 37, 99}, slippageBps : {Nothing, 0, 700, 9000}, confirm : {Nothing, TRUE, FALSE}]}
Changes == {<<>>} \cup [amountUsd : {0, 20, 51}] \cup [slippageBps : {49, 1501}]
ASSUME SettingsStayWithin ==
  /\ \A storage \in Kept, change \in Changes :
       LET page == W!SetSettings(W!Opened(W!Closed, storage), change) s == page.settings IN
       /\ s.amountUsd \in 10..50 /\ s.slippageBps \in 50..1500 /\ s.confirm \in BOOLEAN
       /\ W!CleanSettings(s) = s /\ W!Opened(page, storage) = page
       /\ W!Write(storage, "settings", s) # Throwing => W!Opened(W!Closed, W!Write(storage, "settings", s)).settings = s
  /\ W!Opened(W!Closed, Throwing) = W!Opened(W!Closed, <<>>) /\ W!LoadTrades(Throwing, "trades") = <<>>
  /\ W!LoadTrades([trades |-> <<[kind |-> "buy"], [kind |-> "gift"]>>], "trades") = <<[kind |-> "buy"]>>
  /\ LET talk(n) == FoldLeft(LAMBDA store, i : W!Toast(store), W!Closed, [i \in 1..n |-> i]) IN
     \A n \in 1..8 : LET shown == talk(n).toasts IN
       Len(shown) <= 5 /\ shown[Len(shown)] = n /\ n \notin {W!Dismiss(talk(n), n).toasts[i] : i \in 1..Len(shown) - 1}
=============================================================================
