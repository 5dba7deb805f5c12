------------------------------- MODULE Answers -------------------------------
(* What the server says of itself: the agent's population and when it       *)
(* trains on which of it (src/src/server/agent.ts), the JSON of the public  *)
(* API (src/src/server/serialize.ts) and the paper trader's summary         *)
(* (src/src/server/trade/paper.ts).  Scores, floors and AUCs are whole      *)
(* ten-millionths, times are in hours.                                      *)
EXTENDS Integers, Sequences, FiniteSets
LOCAL INSTANCE SequencesExt
LOCAL INSTANCE FiniteSetsExt

CONSTANTS Null, EntryMc, LabelHours, ReplayStep, FirstRunId

(* A token is [name, status, peak, launched, holders, missing, incomplete]; *)
(* a population a sequence of them, in the order they entered the map.      *)
OldestFirst(tokens) == SortSeq(tokens, LAMBDA x, y : x.launched < y.launched)
Labelled(tokens) == OldestFirst(SelectSeq(tokens, LAMBDA x : x.status # "pending" /\ x.peak >= EntryMc))
Pending(tokens) == SelectSeq(tokens, LAMBDA x : x.status = "pending")
Count(tokens, test(_)) == Len(SelectSeq(tokens, test))
MiddleOf(values) ==
  LET s == SortSeq(values, LAMBDA x, y : x < y) n == Len(values) IN
  IF n = 0 THEN Null ELSE <<s[(n + 1) \div 2] + s[n \div 2 + 1], 2>>

Counters(tokens) ==
  LET labelled == Labelled(tokens) passed == Count(labelled, LAMBDA x : x.status = "passed")
      known == SelectSeq(labelled, LAMBDA x : ~x.missing) IN
  [above |-> Len(labelled), passed |-> passed, stalled |-> Len(labelled) - passed, pending |-> Len(Pending(tokens)),
   medianHolders |-> MiddleOf([i \in DOMAIN known |-> known[i].holders])]
TrainingSize(tokens) == Count(Labelled(tokens), LAMBDA x : ~x.missing)
Warmup(tokens) ==
  [labelled |-> Len(Labelled(tokens)), ready |-> TrainingSize(tokens),
   counting |-> Count(Labelled(tokens), LAMBDA x : x.missing /\ ~x.incomplete), pending |-> Len(Pending(tokens)),
   nextLabelAt |-> IF Pending(tokens) = <<>> THEN Null ELSE Min({x.launched : x \in ToSet(Pending(tokens))}) + LabelHours]

(* What a run trains on: a slice of the oldest, less those without a count. *)
Rows(tokens, limit) == SelectSeq(SubSeq(Labelled(tokens), 1, Min({limit, Len(Labelled(tokens))})), LAMBDA x : ~x.missing)
ReplayPrior(tokens, count, now, cycle) ==
  LET n == Len(Labelled(tokens)) IN
  [k \in 1..count |-> [id |-> FirstRunId + k, at |-> now - (count + 1 - k) * cycle,
                       rows |-> Rows(tokens, Max({0, n - (count + 1 - k) * ReplayStep}))]]

(* start() and its timer: the times of the runs of a process that is up     *)
(* from the hour "up" to the hour "down", given the latest saved run.       *)
RunsAtStart(latest, up, cycle) == latest = Null \/ up - latest >= cycle
RunTimes(latest, up, down, cycle) ==
  (IF RunsAtStart(latest, up, cycle) THEN {up} ELSE {}) \cup {t \in up + 1..down : (t - up) % cycle = 0}

(* A value to its nearest ten-thousandth, or millionth.                     *)
Rounded(v, unit) == unit * ((2 * v + unit) \div (2 * unit))
R4(v) == Rounded(v, 1000)
Shown(v) == IF v = Null THEN Null ELSE R4(v)
HoldersOf(x) == IF x.missing THEN Null ELSE x.holders
TokenJson(x) == [name |-> x.name, holders |-> HoldersOf(x), peak |-> x.peak, status |-> x.status, launchedAt |-> x.launched]
SignalJson(x, signal) ==
  [token |-> TokenJson(x), score |-> Shown(signal.score), state |-> signal.state, blockedBy |-> signal.blockedBy,
   market |-> IF signal.market = Null THEN Null ELSE [signal.market EXCEPT !.roundTrip = Shown(@)]]
ModelJson(run, proof) ==
  [id |-> run.id, n |-> run.n, auc |-> R4(run.auc), epsilon |-> R4(proof.epsilon), floor |-> R4(proof.floor),
   jar |-> R4(proof.jar), blockedBy |-> proof.blockedBy, confidence |-> proof.confidence]
R6Rank(candidates) == [i \in DOMAIN candidates |-> [candidates[i] EXCEPT !.score = Rounded(@, 10)]]
CycleJson(cycle) ==
  [id |-> cycle.id, run |-> cycle.run, auc |-> R4(cycle.auc), floor |-> R4(cycle.floor), candidates |-> R6Rank(cycle.candidates)]

(* The paper book in whole dollars; shares are fractions.                   *)
Sum(values) == FoldLeft(LAMBDA x, y : x + y, 0, values)
Return(p) == <<p.value - p.stake, p.stake>>
Below(x, y) == x[1] * y[2] < y[1] * x[2]
Summary(positions) ==
  LET closed == SelectSeq(positions, LAMBDA p : p.closed)
      returns == SortSeq([i \in DOMAIN closed |-> Return(closed[i])], LAMBDA x, y : Below(x, y))
      invested == Sum([i \in DOMAIN positions |-> positions[i].stake])
      value == Sum([i \in DOMAIN positions |-> positions[i].value]) IN
  [positions |-> Len(positions), open |-> Len(positions) - Len(closed), closed |-> Len(closed),
   invested |-> invested, value |-> value, pnl |-> value - invested,
   winRate |-> IF closed = <<>> THEN Null ELSE <<Count(returns, LAMBDA r : r[1] > 0), Len(closed)>>,
   best |-> IF closed = <<>> THEN Null ELSE returns[Len(returns)],
   worst |-> IF closed = <<>> THEN Null ELSE returns[1]]
List(positions, limit) ==
  LET newest == SortSeq(positions, LAMBDA x, y : x.openedAt > y.openedAt) IN SubSeq(newest, 1, Min({limit, Len(newest)}))
=============================================================================
