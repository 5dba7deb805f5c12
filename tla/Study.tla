-------------------------------- MODULE Study ---------------------------------
(***************************************************************************)
(* The study's arithmetic: how rows become folds, AUCs and a bootstrap     *)
(* percentile (math/auc.ts, stats.ts, engine/trainer.ts, model.ts,         *)
(* features.ts), how these become bounds, gates and the jar                *)
(* (math/bounds.ts, engine/proof.ts), what the pages conclude              *)
(* (engine/findings.ts, botPlan.ts, hooks/useProof.ts).                    *)
(*                                                                         *)
(* AUCs, bounds and shares are in thousandths, cut where the code has      *)
(* floats. NaN takes part in arithmetic and loses every comparison, as in  *)
(* the code. What a formula of real functions yields is a parameter.       *)
(***************************************************************************)
EXTENDS Integers, Sequences, FiniteSets
LOCAL INSTANCE SequencesExt
LOCAL INSTANCE FiniteSetsExt
LOCAL INSTANCE Functions

CONSTANTS
  NaN, Absent, Infinity,          \* numbers apart: not a number, null, a bound that takes everything
  MinRows, Folds,                 \* fewer rows than this are not validated; at most this many folds
  NSamplesMin, NPositiveMin, AucStdMax, TimeSplitGapMax, JarCap,
  AucFloor, AucTarget,
  MinWordCount, LiftWords,        \* a word is reported from this count on; how many are
  EntryMc, MinScore, MinStake, MaxStake

One == 1000
Lower(a, b) == IF a < b THEN a ELSE b
Higher(a, b) == IF a > b THEN a ELSE b
Magnitude(a) == IF a < 0 THEN -a ELSE a
Total(s) == FoldLeft(LAMBDA a, b : a + b, 0, s)
Less(a, b) == NaN \notin {a, b} /\ a < b
Minus(a, b) == IF NaN \in {a, b} THEN NaN ELSE a - b
LowerOf(a, b) == IF NaN \in {a, b} THEN NaN ELSE Lower(a, b)

-----------------------------------------------------------------------------
(* The AUC as won pairs over pairs, in halves; NoAuc without both classes. *)
NoAuc == <<0, 0>>
WeightedAuc(labels, scores, weights) ==
  LET levels == SetToSortSeq(Range(scores), <)
      at(s, class) == Total([i \in DOMAIN scores |-> IF scores[i] = s /\ labels[i] = class THEN weights[i] ELSE 0])
      pass(t, s) == [won |-> t.won + at(s, 1) * (2 * t.below + at(s, 0)),
                     below |-> t.below + at(s, 0), pos |-> t.pos + at(s, 1)]
      end == FoldLeft(pass, [won |-> 0, below |-> 0, pos |-> 0], levels) IN
  IF end.pos * end.below = 0 THEN NoAuc ELSE <<end.won, 2 * end.pos * end.below>>
RocAuc(labels, scores) == WeightedAuc(labels, scores, [i \in DOMAIN scores |-> 1])
(* How often each of n rows was drawn.                                     *)
Multiplicity(n, draws) == [i \in 1..n |-> Cardinality({k \in DOMAIN draws : draws[k] = i})]

(* The q-th thousandth of a sorted list, interpolated; in thousandths.     *)
PercentileSorted(sorted, q) ==
  LET pos == q * (Len(sorted) - 1)
      lo == 1 + pos \div 1000
      frac == pos % 1000 IN
  1000 * sorted[lo] + (IF frac = 0 THEN 0 ELSE (sorted[lo + 1] - sorted[lo]) * frac)
BootstrapPercentile(n, aucs, q) ==
  LET some == SortSeq(SelectSeq(aucs, LAMBDA a : a # NaN), <) IN
  IF n < 10 \/ some = <<>> THEN 1000 * 500 ELSE PercentileSorted(some, q)
Median(xs) == IF xs = <<>> THEN 0 ELSE SortSeq(xs, <)[Len(xs) \div 2 + 1]

-----------------------------------------------------------------------------
(* stratifiedFolds: each class shuffled, draw by draw, and dealt in turn.  *)
Swapped(s, i, j) == [s EXCEPT ![i] = s[j], ![j] = s[i]]
Shuffled(rows, draws) ==
  FoldLeft(LAMBDA s, i : Swapped(s, i, draws[i]), rows, Reverse([i \in 1..(Len(rows) - 1) |-> i + 1]))
RowsOf(y, class) == SetToSortSeq({i \in DOMAIN y : y[i] = class}, <)
StratifiedFolds(y, k, draws) ==
  LET dealt == [class \in {0, 1} |-> Shuffled(RowsOf(y, class), draws[class])]
      place(i) == CHOOSE p \in DOMAIN dealt[y[i]] : dealt[y[i]][p] = i IN
  [i \in DOMAIN y |-> (place(i) - 1) % k]
FoldCount(n) == Lower(Folds, Higher(2, n \div 10))

(* The time split: rows by launch, the oldest seven tenths train.          *)
ByTime(launched) ==
  SetToSortSeq(DOMAIN launched, LAMBDA i, j : launched[i] < launched[j] \/ (launched[i] = launched[j] /\ i < j))
Cut(n) == (7 * n) \div 10
TimeSplitGap(auc, timeAuc) ==
  IF timeAuc = NaN THEN 0 ELSE IF auc = NaN THEN NaN ELSE Magnitude(auc - timeAuc)

(* trainRun: what is measured of n rows with nPos positives, from the AUCs *)
(* of the folds and of the time split.                                     *)
MeanOf(aucs) == IF \E i \in DOMAIN aucs : aucs[i] = NaN THEN NaN ELSE Total(aucs) \div Len(aucs)
Coin == [auc |-> 500, aucStd |-> 0, timeSplitGap |-> 0, bootLower |-> 500]
Validated(n, nPos, quick) == n >= MinRows /\ nPos \notin {0, n} /\ ~quick
TrainRun(n, nPos, quick, foldAucs, std, timeAuc, boot) ==
  LET auc == MeanOf(foldAucs) IN
  IF ~Validated(n, nPos, quick) THEN Coin
  ELSE [auc |-> auc, aucStd |-> IF auc = NaN THEN NaN ELSE std, timeSplitGap |-> TimeSplitGap(auc, timeAuc), bootLower |-> boot]

(* Each class weighs the same in the fit; an importance is a share.        *)
ClassWeight(n, count) == IF count = 0 THEN <<0, 1>> ELSE <<n, 2 * count>>
Importance(weights) ==
  LET abs == [j \in DOMAIN weights |-> Magnitude(weights[j])] IN
  [j \in DOMAIN abs |-> <<abs[j], IF Total(abs) = 0 THEN 1 ELSE Total(abs)>>]

(* featurize: the families of the 28 columns and what a token puts there;  *)
(* a word has a bucket and a sign.                                         *)
LoreDims == 15
FeatureNames ==
  <<"hour_sin", "hour_cos">> \o [i \in 1..7 |-> "dow"] \o <<"holders_log", "lore_len", "lore_missing", "name_tokens">>
  \o [i \in 1..LoreDims |-> "lore_words"]
Featurize(t) ==
  LET bucket(b) == Total([i \in DOMAIN t.words |-> IF t.words[i].bucket = b THEN t.words[i].sign ELSE 0])
      value(i) == CASE i = 1 -> t.hour [] i = 2 -> t.hour
                    [] i \in 3..9 -> IF i = 3 + t.dow THEN 1 ELSE 0
                    [] i = 10 -> t.holders [] i = 11 -> Len(t.words)
                    [] i = 12 -> IF t.loreMissing THEN 1 ELSE 0 [] i = 13 -> t.nameWords
                    [] OTHER -> bucket(i - 14) IN
  [i \in DOMAIN FeatureNames |-> value(i)]

-----------------------------------------------------------------------------
(* The bounds. x is [auc, n, d, nPos, boot]; e is what the bound's formula *)
(* yields where it is defined (for bayes, the quantile).                   *)
BoundIds == {"vc", "vc-bootstrap", "bootstrap", "hoeffding", "bernstein", "dkw", "wilcoxon", "cantelli", "bayes"}
NNeg(x) == Higher(0, x.n - x.nPos)
BothClasses(x) == x.nPos >= 1 /\ NNeg(x) >= 1
Penalty(id, x, e) ==
  IF id \in {"vc", "vc-bootstrap"} THEN IF x.n <= x.d \/ x.n <= 0 THEN One ELSE e
  ELSE IF ~BothClasses(x) THEN IF id \in {"wilcoxon", "cantelli"} THEN Infinity ELSE One
  ELSE IF x.auc = NaN /\ id \notin {"hoeffding", "dkw"} THEN NaN ELSE e
Bounded(epsilon, floor, pending) == [epsilon |-> epsilon, floor |-> floor, pending |-> pending]
UsesBootstrap(id) == id \in {"vc-bootstrap", "bootstrap"}
Compute(id, x, e) ==
  LET p == Penalty(id, x, e)
      below == Minus(x.auc, p)
      from(floor) == Bounded(Minus(x.auc, floor), floor, FALSE) IN
  CASE id \in {"vc", "hoeffding", "bernstein", "dkw"} -> Bounded(p, below, FALSE)
    [] id \in {"wilcoxon", "cantelli"} -> Bounded(LowerOf(One, p), below, FALSE)
    [] id = "vc-bootstrap" -> IF x.boot = Absent THEN Bounded(Minus(x.auc, below), below, TRUE) ELSE from(LowerOf(below, x.boot))
    [] id = "bootstrap" -> IF x.boot = Absent THEN Bounded(One, Minus(x.auc, One), TRUE) ELSE from(x.boot)
    [] id = "bayes" -> IF BothClasses(x) /\ x.auc # NaN THEN from(e) ELSE Bounded(One, Minus(x.auc, One), FALSE)

(* The jar, the gates that hold it, and the label of a floor.              *)
JarFraction(floor) ==
  IF floor = NaN THEN NaN ELSE Lower(One, Higher(0, (One * (floor - AucFloor)) \div (AucTarget - AucFloor)))
ConfidenceLabel(floor) ==
  CASE Less(floor, 0) -> "none" [] ~Less(floor, 0) /\ Less(floor, 550) -> "weak"
    [] ~Less(floor, 550) /\ Less(floor, 650) -> "provisional" [] OTHER -> "qualified"
GateOrder == <<"n_samples", "n_positive", "auc_std", "time_split">>
GateKeys == {GateOrder[i] : i \in DOMAIN GateOrder}
Gates(m) ==
  LET measured == [n_samples |-> m.n >= NSamplesMin, n_positive |-> m.nPos >= NPositiveMin,
                   auc_std |-> Less(m.aucStd, AucStdMax),
                   time_split |-> m.timeSplitGap # NaN /\ m.timeSplitGap <= TimeSplitGapMax] IN
  [g \in GateKeys |-> IF g \in DOMAIN m.gatesOverride THEN m.gatesOverride[g] ELSE measured[g]]
(* The first gate that does not pass, or Absent.                           *)
BlockedBy(gates) ==
  LET failed == {i \in DOMAIN GateOrder : ~gates[GateOrder[i]]} IN
  IF failed = {} THEN Absent ELSE GateOrder[CHOOSE i \in failed : \A j \in failed : i <= j]
EvaluateModel(m, bound) ==
  LET gates == Gates(m)
      blockedBy == BlockedBy(gates)
      raw == JarFraction(bound.floor)
      jar == IF blockedBy = Absent THEN raw ELSE LowerOf(raw, JarCap) IN
  [gates |-> gates, blockedBy |-> blockedBy, jar |-> jar, unlocked |-> jar # NaN /\ jar >= One,
   confidence |-> ConfidenceLabel(bound.floor)]

-----------------------------------------------------------------------------
(* computeFindings over labelled tokens [hour, passed, words], words the   *)
(* distinct words of the lore in the order met.                            *)
Counting(tokens, P(_)) == Cardinality({i \in DOMAIN tokens : P(tokens[i])})
HourAll(tokens, h) == Counting(tokens, LAMBDA t : t.hour = h)
HourWin(tokens, h) == Counting(tokens, LAMBDA t : t.hour = h /\ t.passed)
Passed(tokens) == Counting(tokens, LAMBDA t : t.passed)
WordAll(tokens, w) == Counting(tokens, LAMBDA t : w \in Range(t.words))
WordWin(tokens, w) == Counting(tokens, LAMBDA t : w \in Range(t.words) /\ t.passed)
WordsMet(tokens) ==
  FoldLeft(LAMBDA met, w : IF w \in Range(met) THEN met ELSE Append(met, w), <<>>,
           FlattenSeq([i \in DOMAIN tokens |-> tokens[i].words]))
(* A word's survival over the baseline, in thousandths.                    *)
LiftOf(tokens, w) ==
  IF Passed(tokens) = 0 THEN 0
  ELSE (One * WordWin(tokens, w) * Len(tokens)) \div (WordAll(tokens, w) * Passed(tokens))
Lift(tokens, stop) ==
  LET met == WordsMet(tokens)
      kept == {i \in DOMAIN met : met[i] \notin stop /\ WordAll(tokens, met[i]) >= MinWordCount}
      lift(i) == LiftOf(tokens, met[i])
      order == SetToSortSeq(kept, LAMBDA i, j : lift(i) > lift(j) \/ (lift(i) = lift(j) /\ i < j)) IN
  [i \in 1..Lower(LiftWords, Len(order)) |-> met[order[i]]]
(* Lore length against survival: numerator and squared denominator.        *)
LoreCorr(tokens) ==
  LET n == Len(tokens)
      x == [i \in 1..n |-> Len(tokens[i].words)]
      sx == Total(x) sxx == Total([i \in 1..n |-> x[i] * x[i]])
      sxy == Total([i \in 1..n |-> IF tokens[i].passed THEN x[i] ELSE 0]) IN
  <<n * sxy - sx * Passed(tokens), (n * sxx - sx * sx) * (n * Passed(tokens) - Passed(tokens) * Passed(tokens))>>

-----------------------------------------------------------------------------
(* planTrade: the checks, in the order of their say, and the stake shown.  *)
Checks(t, score, lock) ==
  [entry |-> t.peakMc >= EntryMc, window |-> t.status = "pending", score |-> IF score = Absent THEN "unknown" ELSE IF score >= MinScore THEN "yes" ELSE "no",
   lock |-> lock]
Decide(c) ==
  CASE ~c.entry \/ ~c.window -> "skip"
    [] c.entry /\ c.window /\ c.score = "unknown" -> "warming"
    [] c.entry /\ c.window /\ c.score = "no" -> "skip"
    [] OTHER -> IF c.lock THEN "enter" ELSE "blocked"
ScoreOf(n, predicted) == IF n >= MinRows THEN predicted ELSE Absent
Stake(c, score) ==
  IF c.score # "yes" \/ Decide(c) = "skip" THEN Absent
  ELSE MinStake + ((MaxStake - MinStake) * (Lower(One, (One * (score - MinScore)) \div (One - MinScore)))) \div One

(* fillTargetFor: the first AUC of the scale that reaches the target with  *)
(* the most rows, then the fewest rows for it, by bisection on the step.   *)
FillTarget(floorAt, aucs, min, max, step, target) ==
  LET reaches(n, a) == floorAt[<<n, a>>] >= target
      able == {i \in DOMAIN aucs : reaches(max, aucs[i])}
      a == aucs[CHOOSE i \in able : \A j \in able : i <= j]
      grid == {n \in min..max : n % step = 0}
      middle(lo, hi) == ((lo + hi + step) \div (2 * step)) * step
      search[r \in grid \X grid] ==
        LET mid == middle(r[1], r[2]) IN
        IF r[2] - r[1] <= step THEN r[2]
        ELSE IF reaches(mid, a) THEN search[<<r[1], mid>>] ELSE search[<<mid, r[2]>>] IN
  IF able = {} THEN [n |-> max, auc |-> aucs[Len(aucs)]] ELSE [n |-> search[<<min, max>>], auc |-> a]

(* simInput: the positives the sliders' share stands for.                  *)
SimPositives(n, share) == Higher(1, Lower(n - 1, (n * share + One \div 2) \div One))

(* useRatePerMinute: the samples <<second, count>> of the last minute; a   *)
(* jump is a snapshot, not arrivals.                                       *)
Jump == 50
Sampled(samples, now, count) ==
  LET kept == IF samples # <<>> /\ count - Last(samples)[2] > Jump THEN <<>> ELSE samples IN
  SelectSeq(Append(kept, <<now, count>>), LAMBDA s : now - s[1] <= 60)
RatePerMinute(samples) ==
  LET dt == Last(samples)[1] - samples[1][1] IN
  IF dt > 5 THEN ((Last(samples)[2] - samples[1][2]) * 60) \div dt ELSE 0
=============================================================================
