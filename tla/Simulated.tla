------------------------------ MODULE Simulated ------------------------------
(* The synthetic market: src/src/engine/simulator.ts and the source that    *)
(* feeds it to the agent, src/src/server/sources/simulated.ts.  Every draw  *)
(* of the generator is an argument; times are in minutes, chances in        *)
(* thousandths, logits in hundredths.                                       *)
EXTENDS Integers, Sequences
LOCAL INSTANCE SequencesExt
LOCAL INSTANCE FiniteSetsExt

CONSTANTS LabelHours, EntryMc, TargetMc, MaxPeak, Top, Nobody

Hour == 60
Day == 24 * Hour
Midnight(now) == Day * (now \div Day)

(* The hours of the day are drawn by their weights.                         *)
SampleHour(weights, r) ==
  LET upTo(h) == FoldLeft(LAMBDA a, b : a + b, 0, SubSeq(weights, 1, h + 1))
      reached == {h \in 0..Len(weights) - 1 : upTo(h) >= r} IN
  IF reached = {} THEN Len(weights) - 1 ELSE Min(reached)

HistoryLaunch(now, dayOffset, hour, minute) ==
  Min({Midnight(now) - dayOffset * Day + hour * Hour + minute, now - LabelHours * Hour})
ArrivalLaunch(now, hour, minute) ==
  LET at == Midnight(now) - 2 * Day + hour * Hour + minute IN
  IF at > now - LabelHours * Hour THEN at - Day ELSE at

(* Distances on the clock, in half hours: the best hour is 14.5.            *)
CircularDistance(h, center) == LET d == (IF h > center THEN h - center ELSE center - h) % 48 IN Min({d, 48 - d})
LoreEffect(empty, good, hype) == IF empty THEN -30 ELSE 35 * Min({2, good}) - 25 * Min({1, hype})

(* A token gets its label first, by a draw against its true chance of       *)
(* survival; its peak is then drawn on that side of the target.             *)
Make(launched, u, p, spread) ==
  LET passed == u < p IN
  [launchedAt |-> launched, hour |-> (launched % Day) \div Hour,
   status |-> IF passed THEN "passed" ELSE "stalled",
   peakMc |-> IF passed THEN Min({MaxPeak, (TargetMc * (1000 + spread)) \div 1000})
              ELSE EntryMc + (spread * (TargetMc - EntryMc - 100)) \div 1000]
History(now, draws) ==
  SortSeq([i \in DOMAIN draws |->
             Make(HistoryLaunch(now, draws[i].day, draws[i].hour, draws[i].minute), draws[i].u, draws[i].p, draws[i].spread)],
          LAMBDA x, y : x.launchedAt < y.launchedAt)
Arrival(now, d) == Make(ArrivalLaunch(now, d.hour, d.minute), d.u, d.p, d.spread)

TrainingRow(token) ==
  [lore |-> token.lore, loreMissing |-> token.lore = <<>>, holders |-> token.holders, hour |-> token.hour,
   launchedAt |-> token.launchedAt, passed |-> IF token.status = "passed" THEN 1 ELSE 0]

(* The copycats: a source is its armed timers, each with the cycle it was   *)
(* set for, the names already stolen and the thefts it recorded.            *)
Quiet == [timers |-> {}, stolen |-> {}, thefts |-> <<>>]
OnCycle(s, id, candidates, u) ==
  IF u >= 400 THEN s ELSE [s EXCEPT !.timers = @ \cup {[id |-> id, candidates |-> candidates]}]
Victim(timer, stolen) ==
  LET free == SelectSeq(SubSeq(timer.candidates, 1, Min({Top, Len(timer.candidates)})), LAMBDA c : c \notin stolen) IN
  IF free = <<>> THEN Nobody ELSE free[1]
Fire(s, timer) ==
  LET disarmed == [s EXCEPT !.timers = @ \ {timer}] victim == Victim(timer, s.stolen) IN
  IF victim = Nobody THEN disarmed
  ELSE [disarmed EXCEPT !.stolen = @ \cup {victim}, !.thefts = Append(@, [name |-> victim, cycle |-> timer.id])]
Stop(s) == [s EXCEPT !.timers = {}]
=============================================================================
