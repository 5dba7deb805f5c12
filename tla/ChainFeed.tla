------------------------------ MODULE ChainFeed ------------------------------
(* What the chain source does besides labelling: its DexScreener client,    *)
(* the caps and logos of the feed, and the early retrainings                *)
(* (src/src/server/sources/chain.ts).                                       *)
EXTENDS Integers, Sequences, FiniteSets
LOCAL INSTANCE SequencesExt
LOCAL INSTANCE FiniteSetsExt
LOCAL INSTANCE Functions

CONSTANTS
  Failed, Limited, Absent,
  Attempts, Spacing, Quiet, Penalty,      \* dexGet: 4, 250 ms, 60 s, 5 s
  DexBatch, LogoBatch,                    \* 30 tokens a call
  MinLiquidity, MaxCapPerLiquidity, ScanMax,
  Marks, MinGap                           \* RETRAIN_AT, RETRAIN_MIN_GAP_MS

(* A sampled launch is in or out by its address alone.                      *)
InSample(share, rate) == share < rate
Sampled(candidates, rate) == SelectSeq(candidates, LAMBDA c : InSample(c.share, rate))

(* dexGet: a request takes the next free moment when it begins to wait.  A  *)
(* request is [sent, result, next]; its outcomes are those of its attempts. *)
Reserve(next, now) == LET at == Max({now, next}) IN [at |-> at, next |-> at + Spacing]
Attempt(r, outcome, took) ==
  LET slot == Reserve(r.next, r.now) sent == Append(r.sent, slot.at) now == slot.at + took
      again == [r EXCEPT !.sent = sent, !.now = now, !.tries = @ + 1] IN
  IF outcome = Limited THEN [again EXCEPT !.next = now + Quiet]
  ELSE IF outcome = Failed THEN [again EXCEPT !.next = now + Penalty * (r.tries + 1)]
  ELSE [again EXCEPT !.next = slot.next, !.result = outcome]
DexGet(next, now, outcomes, took) ==
  FoldLeft(LAMBDA r, o : IF r.result = Failed THEN Attempt(r, o, took) ELSE r,
           [sent |-> <<>>, next |-> next, now |-> now, tries |-> 0, result |-> Failed], SubSeq(outcomes, 1, Attempts))

(* dexPairs: one failed batch fails the lookup, a stop leaves out the rest. *)
(* answers has what each batch is answered, by its first token.              *)
Chunks(tokens) == [i \in 1..(Len(tokens) + DexBatch - 1) \div DexBatch |->
                     SubSeq(tokens, (i - 1) * DexBatch + 1, Min({i * DexBatch, Len(tokens)}))]
OwnPairs(chunk, body) == [t \in {p.base : p \in ToSet(body)} \cap ToSet(chunk) |-> SelectSeq(body, LAMBDA p : p.base = t)]
DexPairs(tokens, answers, stoppedAt) ==
  LET chunks == SubSeq(Chunks(tokens), 1, Min({stoppedAt, Len(Chunks(tokens))}))
      add(out, own) == [t \in DOMAIN out \cup DOMAIN own |-> IF t \in DOMAIN own THEN own[t] ELSE out[t]] IN
  IF \E i \in DOMAIN chunks : answers[Head(chunks[i])] = Failed THEN Failed
  ELSE FoldLeft(LAMBDA out, chunk : add(out, OwnPairs(chunk, answers[Head(chunk)])), <<>>, chunks)

(* A cap counts if the pool could be traded against.                        *)
Cap(p) == IF p.fdv # Absent THEN p.fdv ELSE p.marketCap
Plausible(p) == p.liquidity >= MinLiquidity /\ Cap(p) <= MaxCapPerLiquidity * p.liquidity
MarketCap(pairs) == Max({0} \cup {Cap(p) : p \in {q \in ToSet(pairs) : Plausible(q)}})

(* fetchLogos: the feed is [queue, logos]; a failed call is looked up again.*)
FetchLogos(feed, answer) ==
  LET batch == SubSeq(feed.queue, 1, Min({LogoBatch, Len(feed.queue)}))
      rest == SubSeq(feed.queue, Len(batch) + 1, Len(feed.queue)) IN
  IF answer = Failed THEN [feed EXCEPT !.queue = rest \o batch]
  ELSE [queue |-> rest,
        logos |-> [t \in DOMAIN feed.logos |->
                     IF feed.logos[t] = Absent /\ t \in DOMAIN answer THEN answer[t] ELSE feed.logos[t]]]

(* scanCurveTrades: the best cap of each watched curve since the last scan, *)
(* of at most ScanMax blocks; a trade without a price is skipped.           *)
Scanned(scan, head) == {b \in Max({scan.to + 1, head - ScanMax})..head : head > scan.to}
TradeCap(trade) == IF trade.price = Absent \/ trade.usd = Absent THEN 0 ELSE trade.price * trade.usd
ScanCurveTrades(scan, head, owners, trades) ==
  [to |-> Max({scan.to, head}),
   peaks |-> [t \in DOMAIN scan.peaks |->
                Max({scan.peaks[t]} \cup {TradeCap(x) : x \in {y \in trades : y.block \in Scanned(scan, head)
                                              /\ y.curve \in DOMAIN owners /\ owners[y.curve] = t}})]]

(* retrainIfDue: a mark is crossed, or a quarter more rows than the latest  *)
(* model saw and that some time ago.  The trainer is [trainedAt, latest].   *)
CrossedMark(trainer, n) == \E mark \in ToSet(Marks) : trainer.trainedAt < mark /\ n >= mark
Grown(trainer, n, now) ==
  /\ n >= Marks[1]
  /\ trainer.latest = Absent \/ (4 * n >= 5 * trainer.latest.n /\ now - trainer.latest.at >= MinGap)
RetrainIfDue(trainer, n, now) ==
  IF CrossedMark(trainer, n) \/ Grown(trainer, n, now)
  THEN [trainedAt |-> n, latest |-> [n |-> n, at |-> now]] ELSE trainer

(* progress(): both passes walk down from the newest block.                 *)
Progress(s) ==
  LET span == s.to - s.from done == (s.to - s.pons) + (s.to - s.slow) IN
  [running |-> s.pons > s.from \/ s.slow > s.from,
   progress |-> Max({0, Min({1000, (1000 * done) \div (2 * span)})})]
Loaded(file) ==
  IF file = Absent \/ file.version \notin {1, 2} THEN Absent
  ELSE IF file.version = 2 THEN file ELSE [version |-> 2, pons |-> file.pons, slow |-> file.pons]

(* The anchor turns times into blocks and back.                             *)
SecondsAt(anchor, block) == anchor.seconds - (anchor.block - block) * anchor.perBlock
BlockFor(anchor, seconds) == Max({0, (2 * (anchor.block * anchor.perBlock - anchor.seconds + seconds) + anchor.perBlock) \div (2 * anchor.perBlock)})
=============================================================================
