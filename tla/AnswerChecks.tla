---------------------------- MODULE AnswerChecks -----------------------------
(* What the server says of itself (Answers), over every small population.   *)
EXTENDS Integers, Sequences, FiniteSets, TLC
LOCAL INSTANCE SequencesExt
LOCAL INSTANCE FiniteSetsExt

CONSTANT Nothing

A == INSTANCE Answers WITH Null <- Nothing, EntryMc <- 10, LabelHours <- 48, ReplayStep <- 1, FirstRunId <- 0

(* Three tokens, launched in another order than they entered the map.       *)
Kinds == [status : {"pending", "stalled"}, peak : {9, 10}, missing : BOOLEAN, incomplete : {FALSE}]
         \cup [status : {"passed"}, peak : {30}, missing : BOOLEAN, incomplete : BOOLEAN]
Token(kind, i, launched) == kind @@ [name |-> i, launched |-> launched, holders |-> 5 + i]
Populations == {<<Token(x, 1, 20), Token(y, 2, 0), Token(z, 3, 10)>> : x \in Kinds, y \in Kinds, z \in Kinds}

(* The counts add up: what is ready, what is being counted and what could   *)
(* not be counted are the labelled tokens; nothing pending is among them.   *)
ASSUME PopulationAddsUp ==
  \A tokens \in Populations :
    LET c == A!Counters(tokens) w == A!Warmup(tokens) IN
    /\ c.above = w.labelled /\ c.passed + c.stalled = c.above /\ c.above + c.pending <= 3
    /\ w.ready + w.counting + A!Count(A!Labelled(tokens), LAMBDA x : x.missing /\ x.incomplete) = w.labelled
    /\ (w.pending = 0 <=> w.nextLabelAt = Nothing) /\ (w.ready = 0 <=> c.medianHolders = Nothing)
    /\ \A i \in DOMAIN tokens : tokens[i].status = "pending" => w.nextLabelAt <= tokens[i].launched + 48

(* Earlier cycles are replayed on ever more of the oldest tokens, under ids *)
(* and times that rise to the present; no run trains on a guessed count or   *)
(* on a token below the entry line.                                         *)
ASSUME ReplaysGrow ==
  \A tokens \in Populations, count \in 0..3 :
    LET runs == A!ReplayPrior(tokens, count, 100, 6) now == A!Rows(tokens, 3) IN
    \A i \in DOMAIN runs :
      LET later == IF i = count THEN now ELSE runs[i + 1].rows IN
      /\ IsPrefix(runs[i].rows, later) /\ runs[i].at < 100
      /\ i < count => runs[i].id < runs[i + 1].id /\ runs[i].at < runs[i + 1].at
      /\ \A k \in DOMAIN later : /\ ~later[k].missing /\ later[k].status # "pending" /\ later[k].peak >= 10
                                 /\ k > 1 => later[k - 1].launched < later[k].launched

(* However often the process is restarted, while it is up its model is less *)
(* than two cycles old, and at most one if it was up for a cycle (start).   *)
ASSUME ModelIsFresh ==
  \A ups \in {u \in [1..4 -> 0..9] : \A i \in 1..3 : u[i] < u[i + 1]}, cycle \in 2..3 :
    LET run == FoldLeft(LAMBDA seen, i : seen \cup A!RunTimes(IF seen = {} THEN Nothing ELSE Max(seen), ups[i], (IF i = 4 THEN 12 ELSE ups[i + 1] - 1), cycle),
                        {}, <<1, 2, 3, 4>>)
        age(t) == t - Max({r \in run : r <= t}) IN
    \A t \in ups[1]..12 :
      /\ age(t) < 2 * cycle
      /\ (\A i \in 1..4 : ups[i] <= t => t - ups[i] >= cycle) => age(t) < cycle

(* Rounding reverses no order and moves a value by half a unit at most, so  *)
(* only a value within half a unit of a threshold may read as reaching it;  *)
(* a count that is missing is never shown as a number.                      *)
Values == {-1500, -500, 0, 499, 500, 5999499, 5999500, 5999999, 6000000, 6000500}
ASSUME ShownAsMeasured ==
  /\ \A v \in Values, w \in Values : /\ v <= w => A!R4(v) <= A!R4(w)
                                     /\ 2 * (A!R4(v) - v) \in -999..1000
                                     /\ v >= 6000000 => A!R4(v) >= 6000000
                                     /\ A!Rounded(v, 10) < A!Rounded(w, 10) => v < w
  /\ A!ModelJson([id |-> 1, n |-> 2, auc |-> 1], [epsilon |-> 1, floor |-> 5999500, jar |-> 1, blockedBy |-> Nothing, confidence |-> "c"]).floor = 6000000
  /\ \A tokens \in Populations : \A i \in 1..3 :
       LET json == A!SignalJson(tokens[i], [score |-> Nothing, state |-> "none", blockedBy |-> "holders", market |-> Nothing]) IN
       /\ json.token.holders = Nothing <=> tokens[i].missing
       /\ json.score = Nothing /\ json.market = Nothing
  /\ \A s \in Values, u \in Values :
       LET json == A!CycleJson([id |-> 1, run |-> 1, auc |-> s, floor |-> u, candidates |-> <<[rank |-> 1, score |-> Max({s, u})], [rank |-> 2, score |-> Min({s, u})]>>]) IN
       json.candidates[1].score >= json.candidates[2].score

(* The paper summary: what is open and closed is everything, the profit is  *)
(* the sum of the positions', and a positive best is what a win means.      *)
Positions == [stake : {2}, value : {0, 2, 5}, closed : BOOLEAN]
ASSUME BookAddsUp ==
  \A n \in 0..3 : \A book \in [1..n -> Positions] :
    LET s == A!Summary(book) dated == [i \in 1..n |-> book[i] @@ [openedAt |-> (i * 2) % 3]] IN
    /\ s.open + s.closed = s.positions /\ s.pnl = A!Sum([i \in 1..n |-> A!Return(book[i])[1]])
    /\ s.closed = 0 <=> s.winRate = Nothing
    /\ s.closed > 0 => (s.winRate[1] > 0 <=> s.best[1] > 0) /\ (s.winRate[1] = s.closed <=> s.worst[1] > 0)
    /\ LET shown == A!List(dated, 2) IN
       \A i \in DOMAIN shown, k \in 1..n : i = Len(shown) /\ dated[k].openedAt > shown[i].openedAt => \E h \in DOMAIN shown : shown[h] = dated[k]
=============================================================================
