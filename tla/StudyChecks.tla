------------------------------ MODULE StudyChecks -----------------------------
(* The study's arithmetic (Study) over every small input.                  *)
EXTENDS Integers, Sequences, FiniteSets, TLC
LOCAL INSTANCE SequencesExt
LOCAL INSTANCE FiniteSetsExt

CONSTANTS NaN, Absent

S == INSTANCE Study WITH Infinity <- 1000000, MinRows <- 20, Folds <- 5,
       NSamplesMin <- 2000, NPositiveMin <- 200, AucStdMax <- 50, TimeSplitGapMax <- 40, JarCap <- 950,
       AucFloor <- 500, AucTarget <- 600, MinWordCount <- 2, LiftWords <- 2,
       EntryMc <- 10, MinScore <- 600, MinStake <- 10, MaxStake <- 50

(* The one pass over sorted scores counts each pair of a positive and a    *)
(* negative once, ties half, whatever the weights; and weights stand for   *)
(* rows drawn more than once (weightedAucFromOrder).                       *)
Labels(n) == [1..n -> {0, 1}]
PairsWon(labels, scores, w) ==
  LET pair(i, j) == w[i] * w[j] * (IF scores[i] > scores[j] THEN 2 ELSE IF scores[i] = scores[j] THEN 1 ELSE 0)
      pos == {i \in DOMAIN labels : labels[i] = 1} neg == DOMAIN labels \ pos IN
  <<S!Total([k \in 1..Len(labels) |-> IF k \in pos THEN MapThenSumSet(LAMBDA j : pair(k, j), neg) ELSE 0]),
    2 * MapThenSumSet(LAMBDA i : w[i], pos) * MapThenSumSet(LAMBDA j : w[j], neg)>>
ASSUME AucCountsPairs ==
  \A labels \in Labels(3), scores \in [1..3 -> 1..3] :
    /\ \A w \in [1..3 -> 0..2] :
         LET pairs == PairsWon(labels, scores, w) IN
         S!WeightedAuc(labels, scores, w) = IF pairs[2] = 0 THEN S!NoAuc ELSE pairs
    /\ \A draws \in [1..3 -> 1..3] :
         S!WeightedAuc(labels, scores, S!Multiplicity(3, draws))
           = S!RocAuc([i \in 1..3 |-> labels[draws[i]]], [i \in 1..3 |-> scores[draws[i]]])

(* Percentiles lie between the values, grow with q and end at the extremes.*)
Rising == {s \in UNION {[1..n -> 0..4] : n \in 1..4} : \A i \in 1..Len(s) - 1 : s[i] <= s[i + 1]}
Shares == {0, 25, 250, 500, 900, 1000}
ASSUME PercentilesRise ==
  \A s \in Rising :
    /\ S!PercentileSorted(s, 0) = 1000 * s[1] /\ S!PercentileSorted(s, 1000) = 1000 * s[Len(s)]
    /\ \A p \in Shares, q \in Shares : p <= q => S!PercentileSorted(s, p) <= S!PercentileSorted(s, q)
    /\ S!BootstrapPercentile(9, s, 25) = 500000 /\ S!BootstrapPercentile(10, s \o <<NaN>>, 25) = S!PercentileSorted(s, 25)
    /\ \E i \in DOMAIN s : S!Median(Reverse(s)) = s[i]

(* However a class is shuffled, its rows are dealt evenly, so both classes *)
(* are in every fold exactly if each has as many rows as there are folds   *)
(* (stratifiedFolds). With fewer a fold's AUC is not a number.             *)
Draws(n) == {d \in [1..n -> 1..n] : \A i \in 1..n : d[i] <= i}
Fold(fold, k, f, y, class) == Cardinality({i \in DOMAIN y : fold[i] = f /\ y[i] = class})
ASSUME FoldsAreEven ==
  \A y \in Labels(4), k \in 2..3 :
    LET count(class) == Cardinality({i \in 1..4 : y[i] = class}) IN
    \A d0 \in Draws(count(0)), d1 \in Draws(count(1)) :
      LET fold == S!StratifiedFolds(y, k, (0 :> d0) @@ (1 :> d1)) IN
      /\ \A f, g \in 0..k - 1, class \in {0, 1} : Fold(fold, k, f, y, class) <= Fold(fold, k, g, y, class) + 1
      /\ (\A f \in 0..k - 1 : Fold(fold, k, f, y, 0) > 0 /\ Fold(fold, k, f, y, 1) > 0) <=> (count(0) >= k /\ count(1) >= k)

(* The newest rows are never trained on in the time split (trainRun).      *)
ASSUME FutureUnseen ==
  \A launched \in [1..5 -> 1..3] :
    LET order == S!ByTime(launched) IN
    \A i \in 1..S!Cut(5), j \in S!Cut(5) + 1..5 : launched[order[i]] <= launched[order[j]]

(* Each class carries the same weight; importances are shares of one.      *)
ASSUME ClassesBalanced ==
  /\ \A pos \in 1..6, neg \in 1..6 :
       LET p == S!ClassWeight(pos + neg, pos) q == S!ClassWeight(pos + neg, neg) IN p[1] * pos * q[2] = q[1] * neg * p[2]
  /\ \A w \in [1..3 -> -1..2] :
       LET share == S!Importance(w) IN
       \A j \in 1..3 : S!Total([k \in 1..3 |-> share[k][1]]) = (IF \A k \in 1..3 : w[k] = 0 THEN 0 ELSE share[j][2])

(* The 28 columns: one weekday, and a bag of words in which order is lost. *)
Words == {[bucket |-> 0, sign |-> 1], [bucket |-> 0, sign |-> -1], [bucket |-> 14, sign |-> 1]}
ASSUME ColumnsFilled ==
  /\ Len(S!FeatureNames) = 28
  /\ \A dow \in 0..6, x \in Words, y \in Words :
       LET row(words) == S!Featurize([hour |-> 7, dow |-> dow, holders |-> 3, words |-> words, loreMissing |-> FALSE, nameWords |-> 2]) IN
       /\ row(<<x, y>>) = row(<<y, x>>) /\ row(<<x, y>>)[14] + row(<<x, y>>)[28] = x.sign + y.sign
       /\ S!Total(SubSeq(row(<<x, y>>), 3, 9)) = 1

(* A floor and its penalty make up the AUC; a floor is pending only for    *)
(* want of a bootstrap; and the combined bound is the stricter of its two  *)
(* (BOUNDS).                                                               *)
Inputs == [auc : {480, 600, 700}, n : {0, 28, 29, 400}, d : {28}, nPos : {0, 1, 28, 29}, boot : {Absent, 450, 650}]
ASSUME FloorsAddUp ==
  \A id \in S!BoundIds, x \in Inputs, e \in {0, 90, 1500} :
    LET b == S!Compute(id, x, e) IN
    /\ b.epsilon + b.floor = x.auc \/ (id \in {"wilcoxon", "cantelli"} /\ b.epsilon = 1000 /\ b.floor < x.auc - 1000)
    /\ b.pending <=> S!UsesBootstrap(id) /\ x.boot = Absent
    /\ id \notin {"bootstrap", "bayes"} => b.floor <= x.auc
    /\ id = "vc-bootstrap" /\ x.boot # Absent => b.floor <= x.boot /\ b.floor <= S!Compute("vc", x, e).floor
    /\ x.n <= x.d => S!Compute("vc", x, e).floor = x.auc - 1000

(* The jar is full only for a floor at the target with every gate passed;  *)
(* a gate that fails holds it at the cap; a higher floor never empties it  *)
(* (evaluateModel).                                                        *)
Floors == {-400, 499, 500, 599, 600, 601, 900}
Runs == [n : {1999, 2000}, nPos : {199, 200}, aucStd : {49, 50, NaN}, timeSplitGap : {0, 40, 41, NaN},
         gatesOverride : {<<>>, [auc_std |-> TRUE], [n_samples |-> FALSE]}]
Judged(m, floor) == S!EvaluateModel(m, S!Bounded(0, floor, FALSE))
ASSUME UnlockedIsProven ==
  \A m \in Runs, f \in Floors :
    LET p == Judged(m, f) IN
    /\ p.unlocked <=> f >= 600 /\ \A g \in DOMAIN p.gates : p.gates[g]
    /\ p.blockedBy # Absent => p.jar <= 950 /\ ~p.gates[p.blockedBy]
    /\ \A g \in Floors : f <= g => p.jar <= Judged(m, g).jar
    /\ p.jar \in 0..1000
    /\ DOMAIN m.gatesOverride = {} =>
         (p.unlocked <=> f >= 600 /\ m.n = 2000 /\ m.nPos = 200 /\ m.aucStd = 49 /\ m.timeSplitGap \in {0, 40})

(* An AUC that no fold could measure never unlocks the jar, under any      *)
(* bound; where the bound subtracts from it the floor is not a number, and *)
(* is labelled "qualified" (confidenceLabel).                              *)
ASSUME UnmeasuredStaysShut ==
  \A id \in S!BoundIds, boot \in {450, 650}, timeAuc \in {NaN, 700}, e \in {0, 90} :
    LET run == S!TrainRun(2400, 400, FALSE, <<700, NaN, 700>>, 10, timeAuc, boot)
        b == S!Compute(id, [auc |-> run.auc, n |-> 2400, d |-> 28, nPos |-> 400, boot |-> run.bootLower], e)
        p == S!EvaluateModel([n |-> 2400, nPos |-> 400, aucStd |-> run.aucStd, timeSplitGap |-> run.timeSplitGap,
                              gatesOverride |-> <<>>], b) IN
    /\ run.auc = NaN /\ ~p.unlocked
    /\ b.floor = NaN <=> id # "bootstrap"
    /\ b.floor = NaN => p.confidence = "qualified"

(* The findings count each token once, a correlation is one, and the words *)
(* named are the best of those met often enough (computeFindings).         *)
Lores == {<<>>, <<"moon">>, <<"cat", "moon">>, <<"the", "cat">>}
Labelled == [hour : {0, 5}, passed : BOOLEAN, words : Lores]
ASSUME FindingsSound ==
  \A ts \in [1..3 -> {t \in Labelled : t.hour = 0 \/ t.words = <<"moon">>}] :
    LET lift == S!Lift(ts, {"the"}) corr == S!LoreCorr(ts) IN
    /\ S!HourAll(ts, 0) + S!HourAll(ts, 5) = 3 /\ S!HourWin(ts, 0) + S!HourWin(ts, 5) = S!Passed(ts)
    /\ corr[1] * corr[1] <= corr[2]
    /\ \A i \in DOMAIN lift : lift[i] # "the" /\ S!WordAll(ts, lift[i]) >= 2 /\ S!WordWin(ts, lift[i]) <= S!WordAll(ts, lift[i])
    /\ \A w \in {"cat", "moon"} : S!WordAll(ts, w) >= 2 =>
         \E i \in DOMAIN lift : lift[i] = w /\ \A j \in DOMAIN lift : i < j => S!LiftOf(ts, lift[j]) <= S!LiftOf(ts, w)

(* The bot preview enters only on four passed checks, and shows a stake    *)
(* within its limits only for a score that passes (planTrade).             *)
ASSUME EntersOnAll ==
  \A mc \in {9, 10}, status \in {"pending", "passed"}, n \in {19, 20}, predicted \in {0, 599, 600, 800, 1000}, lock \in BOOLEAN :
    LET score == S!ScoreOf(n, predicted)
        c == S!Checks([peakMc |-> mc, status |-> status], score, lock) stake == S!Stake(c, score) IN
    /\ S!Decide(c) = "enter" <=> mc = 10 /\ status = "pending" /\ n = 20 /\ predicted >= 600 /\ lock
    /\ S!Decide(c) \in {"enter", "blocked"} <=> stake # Absent
    /\ stake # Absent => stake \in 10..50

(* Filled to the target: the rows and the AUC found reach it wherever the  *)
(* sliders can, and one step fewer rows do not, unless that is the least   *)
(* the slider has (fillTargetFor).                                         *)
Grid == {n \in 4..16 : n % 2 = 0}
Needs == [500..502 -> {0, 4, 5, 9, 16, 17}]
ASSUME FillsTheJar ==
  \A need \in {d \in Needs : d[500] >= d[501] /\ d[501] >= d[502]} :
    LET floorAt == [x \in Grid \X (500..502) |-> IF x[1] >= need[x[2]] THEN 600 ELSE 550]
        got == S!FillTarget(floorAt, <<500, 501, 502>>, 4, 16, 2, 600) IN
    /\ need[502] <= 16 => floorAt[<<got.n, got.auc>>] = 600
    /\ need[502] <= 16 /\ got.n > 6 => floorAt[<<got.n - 2, got.auc>>] = 550
    /\ \A a \in 500..502 : a < got.auc => floorAt[<<16, a>>] = 550
    /\ \A n \in 2..60, share \in {20, 500} : S!SimPositives(n, share) \in 1..n - 1

(* The rate counts arrivals of the last minute and never a snapshot's jump *)
(* (useRatePerMinute).                                                     *)
ASSUME RateCountsArrivals ==
  \A times \in {t \in [1..3 -> {0, 4, 30, 61, 100}] : t[1] <= t[2] /\ t[2] <= t[3]}, counts \in [1..3 -> {0, 10, 50, 51, 400}] :
    LET samples == S!Sampled(S!Sampled(S!Sampled(<<>>, times[1], counts[1]), times[2], counts[2]), times[3], counts[3]) IN
    /\ Last(samples) = <<times[3], counts[3]>> /\ times[3] - samples[1][1] <= 60
    /\ \A i \in 1..Len(samples) - 1 : samples[i + 1][2] - samples[i][2] <= 50
    /\ counts[1] <= counts[2] /\ counts[2] <= counts[3] => S!RatePerMinute(samples) \in 0..1200
=============================================================================
