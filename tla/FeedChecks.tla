----------------------------- MODULE FeedChecks ------------------------------
(* The feed side of the chain source (ChainFeed) over every short input.    *)
EXTENDS SourceChecks
LOCAL INSTANCE SequencesExt
LOCAL INSTANCE FiniteSetsExt

F == INSTANCE ChainFeed WITH Attempts <- 4, Spacing <- 1, Quiet <- 20, Penalty <- 2, DexBatch <- 2, LogoBatch <- 2,
       MinLiquidity <- 2, MaxCapPerLiquidity <- 3, ScanMax <- 3, Marks <- <<2, 4, 8>>, MinGap <- 3

(* A failed lookup is never an answer: an error only after four attempts;   *)
(* attempts keep their spacing, and a refusal silences its caller (dexGet). *)
ASSUME FailsOnlyAfterRetries ==
  \A outcomes \in [1..4 -> {Failed, Limited, "pairs"}], next \in {0, 3}, took \in 0..2 :
    LET r == F!DexGet(next, 1, outcomes, took) IN
    /\ r.result = Failed <=> \A i \in 1..4 : outcomes[i] # "pairs"
    /\ \A i \in 1..Len(r.sent) - 1 :
         /\ r.sent[i + 1] > r.sent[i] /\ outcomes[i] # "pairs"
         /\ outcomes[i] = Limited => r.sent[i + 1] = r.sent[i] + took + 20
    /\ r.result # Failed => r.next = r.sent[Len(r.sent)] + 1
    /\ r.sent[1] >= next /\ F!Reserve(F!Reserve(next, 1).next, 1).at = F!Reserve(next, 1).at + 1

(* A token is unlisted only if the answer to its own call did not list it;  *)
(* one failed call fails the lookup of all. Only a stop leaves some out.    *)
P(t) == [base |-> t]
Bodies == {Failed, <<>>, <<P("x")>>, <<P("z"), P("x"), P("x")>>}
ASSUME UnlistedIsNeverAssumed ==
  \A first \in Bodies, second \in Bodies, stop \in 0..2 :
    LET got == F!DexPairs(<<"x", "y", "z">>, ("x" :> first @@ "z" :> second), stop)
        lists(body, t) == body # Failed /\ \E i \in DOMAIN body : body[i].base = t IN
    /\ got = Failed <=> (first = Failed /\ stop >= 1) \/ (second = Failed /\ stop = 2)
    /\ got # Failed => /\ "x" \in DOMAIN got <=> stop >= 1 /\ lists(first, "x")
                       /\ "z" \in DOMAIN got <=> stop = 2 /\ lists(second, "z")
                       /\ "y" \notin DOMAIN got

(* No token leaves the logo queue unless a call that answered named it, and *)
(* no logo is ever replaced (fetchLogos).                                   *)
LogoAnswers == {Failed} \cup {("x" :> "new"), ("x" :> "new" @@ "z" :> "new"), ("y" :> "new")}
ASSUME LogosAreFound ==
  \A a1 \in LogoAnswers, a2 \in LogoAnswers, known \in {Absent, "old"} :
    LET start == [queue |-> <<"x", "y", "z">>, logos |-> ("x" :> Absent @@ "y" :> Absent @@ "z" :> known)]
        once == F!FetchLogos(start, a1) twice == F!FetchLogos(once, a2) IN
    /\ a1 = Failed => ToSet(once.queue) = {"x", "y", "z"} /\ once.logos = start.logos /\ once.queue[1] = "z"
    /\ a1 # Failed => once.queue = <<"z">>
    /\ a1 # Failed /\ a2 # Failed => twice.queue = <<>>
    /\ twice.logos["z"] = known \/ known = Absent

(* While scans are no more than ScanMax blocks apart, a watched curve's cap *)
(* is the best of its trades that could be priced; a longer gap is skipped. *)
Trade(block, curve, price) == [block |-> block, curve |-> curve, price |-> price, usd |-> 1]
ASSUME CurveCapsRise ==
  \A heads \in {h \in [1..3 -> 1..7] : h[1] <= h[2]}, b1 \in 1..7, b2 \in 1..7, price \in {Absent, 4} :
    LET trades == {Trade(b1, "c", price), Trade(b2, "c", 2), Trade(b2, "other", 9)}
        steps == FoldLeft(LAMBDA seen, h : Append(seen, F!ScanCurveTrades(seen[Len(seen)], h, "c" :> "t", trades)),
                          <<[to |-> 0, peaks |-> "t" :> 0]>>, heads)
        last == steps[4].to
        close == \A i \in 1..3 : heads[i] <= steps[i].to + 4 IN
    /\ \A i \in 1..3 : steps[i].peaks["t"] <= steps[i + 1].peaks["t"] /\ steps[i].to <= steps[i + 1].to
    /\ close => steps[4].peaks["t"] = Max({0} \cup {F!TradeCap(x) : x \in {y \in trades : y.curve = "c" /\ y.block <= last}})
    /\ steps[4].peaks["t"] \in {0, 2, 4}

(* However labels come in, the model that is shown saw four in five of the  *)
(* rows or is younger than the gap; and runs within one gap are no more     *)
(* than the marks there are (retrainIfDue).                                 *)
Sizes == {0, 1, 2, 3, 4, 5, 8, 9}
ASSUME ModelKeepsUp ==
  \A n \in {s \in [1..4 -> Sizes] : \A i \in 1..3 : s[i] <= s[i + 1]}, at \in {s \in [1..4 -> {0, 2, 3, 6}] : \A i \in 1..3 : s[i] <= s[i + 1]} :
    LET steps == FoldLeft(LAMBDA seen, i : Append(seen, F!RetrainIfDue(seen[Len(seen)], n[i], at[i])),
                          <<[trainedAt |-> 0, latest |-> Absent]>>, <<1, 2, 3, 4>>)
        ran == {i \in 1..4 : steps[i + 1] # steps[i]} IN
    /\ \A i \in 1..4 : n[i] >= 2 =>
         LET latest == steps[i + 1].latest IN
         /\ latest # Absent /\ (5 * latest.n > 4 * n[i] \/ at[i] - latest.at < 3)
         /\ \A mark \in {2, 4, 8} : mark <= n[i] => latest.n >= mark
    /\ \A i \in 1..4 : Cardinality({j \in ran : at[j] >= at[i] /\ at[j] - at[i] < 3}) <= 3

(* Progress never falls as the passes walk down, and a finished backfill is *)
(* complete; an old file has both passes where its only one was.            *)
Plans == {[version |-> v, from |-> 1, to |-> 5, pons |-> p, slow |-> s] : v \in {2}, p \in 0..5, s \in 0..5}
ASSUME ProgressRises ==
  /\ \A x \in Plans, y \in Plans : x.pons <= y.pons /\ x.slow <= y.slow => F!Progress(x).progress >= F!Progress(y).progress
  /\ \A x \in Plans : F!Loaded(x) = x /\ (~F!Progress(x).running => F!Progress(x).progress = 1000)
  /\ F!Loaded([version |-> 1, pons |-> 3]) = [version |-> 2, pons |-> 3, slow |-> 3] /\ F!Loaded([version |-> 3]) = Absent
  /\ \A k \in 1..4, b \in 0..9, anchor \in 9..12 :
       F!BlockFor([block |-> anchor, seconds |-> 100, perBlock |-> k], F!SecondsAt([block |-> anchor, seconds |-> 100, perBlock |-> k], b)) = b

(* No rate ever drops a launch a lower one had taken; and a cap no pool     *)
(* could be traded at counts for nothing (sampled, plausible).              *)
Pools == [fdv : {Absent, 6, 7}, marketCap : {5}, liquidity : {1, 2}]
ASSUME SampleAndCap ==
  /\ \A rate \in 0..3, more \in 0..3 : rate <= more =>
       LET all == <<[share |-> 2], [share |-> 0], [share |-> 1]>> IN ToSet(F!Sampled(all, rate)) \subseteq ToSet(F!Sampled(all, more))
  /\ \A p \in Pools, q \in Pools :
       F!MarketCap(<<p, q>>) = Max({F!MarketCap(<<p>>), F!MarketCap(<<q>>)}) /\ F!MarketCap(<<p>>) \in {0, 5, 6}
=============================================================================
