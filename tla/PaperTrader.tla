------------------------------ MODULE PaperTrader ------------------------------
(***************************************************************************)
(* Paper trading: server/trade/paper.ts.                                   *)
(*                                                                         *)
(* A tick buys the active signals it has no position of, then values every *)
(* open position and applies the exit rules, one await per quote; it saves *)
(* paper.json when it is through.  The next tick is only set when one has  *)
(* ended, so ticks never overlap; signals, time, stop() and crashes come   *)
(* between any two of its awaits.                                          *)
(*                                                                         *)
(* A sale's quote is what the rules tell apart: past the take profit, past *)
(* the stop loss, in between, or none (no route, or one that returns no    *)
(* ETH).  A quote that throws is an outage.                                *)
(***************************************************************************)
EXTENDS Integers, FiniteSets, Sequences, SequencesExt

CONSTANTS
  Tokens,
  OldFiles,       \* what paper.json may be at the first start
  MaxOpen, MissedToClose, Confirmations,   \* MAX_OPEN, MISSED_QUOTES_TO_CLOSE, EXIT_CONFIRMATIONS
  TimeStop,       \* QUICK_BUY.timeStopHours
  MaxClock,       \* bound: time; a buy must leave room for its time stop
  MaxOutages,     \* bound: prices, quotes, saves and reads of the file that fail
  MaxCrashes      \* bound: crashes

Breaches == {"take_profit", "stop_loss"}
Priced == Breaches \cup {"between"}
Exits == Breaches \cup {"time_stop", "no_route"}

(* priced and answers are history: the last quotes with a price, and the   *)
(* last of any kind.                                                       *)
PaperPosition ==
  [mint : Tokens, openedAt : Nat, worthless : BOOLEAN, missedQuotes : Nat, breaches : Nat,
   exit : Exits \cup {"open"}, priced : Seq(Priced), answers : Seq(Priced \cup {"none"})]

ASSUME PaperAssumption ==
  /\ OldFiles \subseteq Seq(PaperPosition)
  /\ \A f \in OldFiles :
       /\ \A i, j \in DOMAIN f : f[i].mint = f[j].mint => i = j
       /\ \A i \in DOMAIN f : f[i].exit = "open" => f[i].missedQuotes = 0 /\ f[i].breaches = 0
  /\ MaxOpen \in Nat /\ MissedToClose \in Nat \ {0} /\ Confirmations \in Nat \ {0}
  /\ TimeStop \in Nat /\ MaxClock \in Nat /\ MaxOutages \in Nat /\ MaxCrashes \in Nat

VARIABLES
  positions,
  file,        \* paper.json
  unread,      \* history: the positions did not come from the file
  tick,        \* the tick under way
  stopped,
  clock, outages, crashes

Between == [step |-> "idle", now |-> 0, todo |-> {}, open |-> {}]
book == <<positions, file, unread>>
vars == <<book, tick, stopped, clock, outages, crashes>>
world == <<stopped, clock, crashes>>

-----------------------------------------------------------------------------
IsOpen(p) == p.exit = "open"
OpenOnes(list) == {i \in DOMAIN list : IsOpen(list[i])}
Latest(n, s) == IF Len(s) > n THEN SubSeq(s, Len(s) - n + 1, Len(s)) ELSE s

(* repair: a stop loss at nothing came from a quote without a price.  The  *)
(* mutant takes every write-off for one.                                   *)
AnyZero(p) == ~IsOpen(p) /\ p.worthless
BadStop(p) == p.exit = "stop_loss" /\ p.worthless
Reopened(p) == [p EXCEPT !.exit = "open", !.worthless = FALSE, !.missedQuotes = 0, !.breaches = 0,
                         !.priced = <<>>, !.answers = <<>>]
Repaired(list) == [i \in DOMAIN list |-> IF BadStop(list[i]) THEN Reopened(list[i]) ELSE list[i]]

(* Mints that are not bought (again); in the mutant those held now.        *)
Held(list) == {list[i].mint : i \in OpenOnes(list)}
Seen(list) == {list[i].mint : i \in DOMAIN list}

Bought(t, now) ==
  [mint |-> t, openedAt |-> now, worthless |-> FALSE, missedQuotes |-> 0, breaches |-> 0,
   exit |-> "open", priced |-> <<>>, answers |-> <<>>]

(* One quote of a sale.  In the mutants a missing route is waited out, one *)
(* more is asked for, and a price leaves the missed quotes as they were.   *)
Close(p, exit) == [p EXCEPT !.exit = exit, !.worthless = (exit = "no_route")]
Answered(p, a) == [p EXCEPT !.answers = Latest(MissedToClose, Append(@, a))]
MissedWaits(p) == Answered(p, "none")
Missed(p) ==
  LET q == [Answered(p, "none") EXCEPT !.missedQuotes = @ + 1] IN
  IF q.missedQuotes >= MissedToClose THEN Close(q, "no_route") ELSE q
CountedOn(p, a) ==
  [Answered(p, a) EXCEPT !.breaches = IF a \in Breaches THEN @ + 1 ELSE 0,
                         !.priced = Latest(Confirmations, Append(@, a))]
Counted(p, a) ==
  [Answered(p, a) EXCEPT !.missedQuotes = 0, !.breaches = IF a \in Breaches THEN @ + 1 ELSE 0,
                         !.priced = Latest(Confirmations, Append(@, a))]
TimeIsUp(p, now) == now - p.openedAt >= TimeStop
Valued(p, a, now) ==
  LET q == Counted(p, a) IN
  IF a \in Breaches /\ q.breaches >= Confirmations THEN Close(q, a)
  ELSE IF TimeIsUp(q, now) THEN Close(q, "time_stop") ELSE q

-----------------------------------------------------------------------------
Init ==
  /\ file \in OldFiles /\ positions = Repaired(file) /\ unread = FALSE /\ tick = Between
  /\ stopped = FALSE /\ clock = 0 /\ outages = 0 /\ crashes = 0

Pass ==
  /\ clock < MaxClock /\ clock' = clock + 1
  /\ UNCHANGED <<book, tick, stopped, outages, crashes>>

(* The timer.  signals() is read once, whatever is active then, and so are *)
(* the positions: what is open, and what was ever bought.                  *)
TickStart ==
  /\ tick.step = "idle" /\ ~stopped
  /\ \E active \in SUBSET Tokens :
       tick' = [step |-> "buy", now |-> clock, todo |-> active \ Seen(positions), open |-> OpenOnes(positions)]
  /\ UNCHANGED <<book, world, outages>>

(* One signal after the other, until MAX_OPEN positions are open.          *)
Buying(t) == tick.step = "buy" /\ t \in tick.todo /\ Cardinality(tick.open) < MaxOpen
Skipped(t) == tick' = [tick EXCEPT !.todo = @ \ {t}]

BuyNothing(t) ==          \* no market to buy into
  /\ Buying(t) /\ Skipped(t)
  /\ UNCHANGED <<book, world, outages>>

BuyFails(t) ==
  /\ Buying(t) /\ Skipped(t)
  /\ outages < MaxOutages /\ outages' = outages + 1
  /\ UNCHANGED <<book, world>>

Unlisted(open, i) == open
Listed(open, i) == open \cup {i}
Buy(t) ==
  /\ Buying(t) /\ tick.now + TimeStop <= MaxClock
  /\ positions' = Append(positions, Bought(t, tick.now))
  /\ tick' = [tick EXCEPT !.todo = @ \ {t}, !.open = Listed(@, Len(positions) + 1)]
  /\ UNCHANGED <<file, unread, world, outages>>

(* The ETH price: without one nothing is valued.                           *)
Price ==
  /\ tick.step = "buy" /\ (tick.todo = {} \/ Cardinality(tick.open) >= MaxOpen)
  /\ \/ tick' = [tick EXCEPT !.step = "value", !.todo = {}] /\ UNCHANGED outages
     \/ /\ tick.open # {} /\ outages < MaxOutages /\ outages' = outages + 1
        /\ tick' = [tick EXCEPT !.step = "value", !.todo = {}, !.open = {}]
  /\ UNCHANGED <<book, world>>

(* The sale of one open position after the other is quoted.                *)
Value ==
  /\ tick.step = "value"
  /\ \E i \in tick.open : (\A j \in tick.open : i <= j) /\
       /\ LET p == positions[i] IN
          \/ /\ \/ positions' = [positions EXCEPT ![i] = Missed(p)]
                \/ \E a \in Priced : positions' = [positions EXCEPT ![i] = Valued(p, a, tick.now)]
             /\ UNCHANGED outages
          \/ outages < MaxOutages /\ outages' = outages + 1 /\ UNCHANGED positions
       /\ tick' = [tick EXCEPT !.open = @ \ {i}]
  /\ UNCHANGED <<file, unread, world>>

(* When it throws the file stays as it was until the next tick.            *)
Save ==
  \/ file' = positions /\ unread' = FALSE /\ UNCHANGED outages
  \/ outages < MaxOutages /\ outages' = outages + 1 /\ UNCHANGED <<file, unread>>
TickEnd ==
  /\ tick.step = "value" /\ tick.open = {} /\ tick' = Between /\ Save
  /\ UNCHANGED <<positions, world>>

(* A tick that is under way goes on after stop().                          *)
Stop ==
  /\ stopped' = TRUE /\ Save
  /\ UNCHANGED <<positions, tick, clock, crashes>>

(* The process ends, in mid-tick or after stop(), and is started again.  A *)
(* file that cannot be read is an empty book, and is replaced by the next  *)
(* save.                                                                   *)
Load ==
  \/ positions' = Repaired(file) /\ unread' = FALSE /\ UNCHANGED outages
  \/ positions' = <<>> /\ unread' = TRUE /\ outages < MaxOutages /\ outages' = outages + 1
Restart ==
  /\ crashes < MaxCrashes /\ crashes' = crashes + 1
  /\ Load /\ tick' = Between /\ stopped' = FALSE
  /\ UNCHANGED <<file, clock>>

Step == TickStart \/ (\E t \in Tokens : BuyNothing(t) \/ BuyFails(t) \/ Buy(t)) \/ Price \/ Value \/ TickEnd
Next == Step \/ Pass \/ Stop \/ Restart

Spec == Init /\ [][Next]_vars

(* The event loop answers every await, and time passes.                    *)
FairSpec == Spec /\ WF_vars(Step) /\ WF_vars(Pass)

-----------------------------------------------------------------------------
(* Everything keeps its type, a tick only values positions there are, and  *)
(* an open one is short of what would have closed it.                      *)
Short(p) == IsOpen(p) => p.missedQuotes < MissedToClose /\ p.breaches < Confirmations
TypeOK ==
  /\ positions \in Seq(PaperPosition) /\ file \in Seq(PaperPosition)
  /\ \A i \in DOMAIN positions : Short(positions[i])
  /\ tick \in [step : {"idle", "buy", "value"}, now : Nat, todo : SUBSET Tokens, open : SUBSET DOMAIN positions]
  /\ unread \in BOOLEAN /\ stopped \in BOOLEAN
  /\ clock \in Nat /\ outages \in Nat /\ crashes \in Nat

(* A token is bought once, however often its signal comes back and however *)
(* many ticks a crash cut short: no two positions are of one token.        *)
OncePerToken == \A i, j \in DOMAIN positions : positions[i].mint = positions[j].mint => i = j

(* No more than MAX_OPEN positions are open, but for those the repair of   *)
(* an old file reopened.                                                   *)
OpenWithinLimit ==
  LET opened == Cardinality(OpenOnes(positions)) IN
  opened <= MaxOpen \/ \E f \in OldFiles : opened <= Cardinality(OpenOnes(Repaired(f)))

(* One odd quote never closes a position: it is written off after as many  *)
(* missing routes in a row as the rule asks for, and taken at a profit or  *)
(* a loss only when the last prices were all past a limit.  (The quotes of *)
(* a tick that crashed are forgotten with it.)                             *)
All(n, s, X) == Len(s) = n /\ \A k \in DOMAIN s : s[k] \in X
ExitsConfirmed ==
  \A i \in DOMAIN positions : LET p == positions[i] IN
    \/ \E f \in OldFiles : i \in DOMAIN f /\ p = f[i]
    \/ /\ p.exit = "no_route" => All(MissedToClose, p.answers, {"none"})
       /\ p.exit \in Breaches => All(Confirmations, p.priced, Breaches) /\ p.exit = Last(p.priced)

(* A result on file stays: a position that paper.json has as closed is not *)
(* valued, reopened or dropped again, whatever crashes and saves follow;   *)
(* only a stop loss at nothing is, or all of a file that could not be read *)
(* at the start.                                                           *)
ResultsStay ==
  [][unread \/ \A i \in DOMAIN file :
       \/ IsOpen(file[i]) \/ (file[i].exit = "stop_loss" /\ file[i].worthless)
       \/ i \in DOMAIN file' /\ file'[i] = file[i]]_file

(* A trader that is not stopped leaves no position open for ever: it     *)
(* reaches one of its exits, though its token may lose its market or be    *)
(* quoted only now and then.                                               *)
EveryPositionCloses == \A t \in Tokens : t \in Held(positions) ~> t \notin Held(positions) \/ stopped
=============================================================================
