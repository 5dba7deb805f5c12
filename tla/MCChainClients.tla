--------------------------- MODULE MCChainClients ----------------------------
(* ChainClients for TLC: three callers, more calls than slots; and what is *)
(* computed from the answers (ChainReads), over every short input.         *)
EXTENDS ChainClients
LOCAL INSTANCE SequencesExt
CONSTANTS a, b, c, Native, Weth, NoPool
ThreeCallers == {a, b, c}
TwoCallers == {a, b}

-----------------------------------------------------------------------------
Reads == INSTANCE ChainReads WITH MinSpan <- 1, Near <- 1, Far <- 3, Refetch <- 2, Ahead <- 1, Reach <- 3,
                              Batch <- 2, PoolsPerQuote <- 3, MaxPlaces <- 36

(* A query answered in halves gives exactly the logs of its blocks, in     *)
(* order; it fails only for a block range that could not be split, or that *)
(* failed otherwise (getLogs).                                             *)
Blocks == 1..4
Ranges == {r \in Blocks \X Blocks : r[1] <= r[2]}
Halves(r) == LET m == (r[1] + r[2]) \div 2 IN {<<r[1], m>>, <<m + 1, r[2]>>}
Asked == {<<1, 4>>, <<1, 2>>, <<3, 4>>, <<1, 1>>, <<2, 2>>, <<3, 3>>, <<4, 4>>}
ASSUME SplitsLoseNothing ==
  \A reply \in [Asked -> {"logs", "too big", "fails"}] :
    LET log == <<<<>>, <<"x", "y">>, <<"z">>, <<"w">>>>
        got == Reads!GetLogs(log, [r \in Ranges |-> IF r \in Asked THEN reply[r] ELSE "fails"]) IN
    /\ got[<<1, 4>>].ok => got[<<1, 4>>].value = <<"x", "y", "z", "w">>
    /\ ~got[<<1, 4>>].ok => \E r \in Asked : reply[r] = "fails" \/ (r[1] = r[2] /\ reply[r] = "too big")

(* The binary search finds the first block that is not before the asked    *)
(* second, or the head, whatever part of the times is cached (blockAt).    *)
Clocks == {t \in [1..5 -> 1..3] : \A i \in 1..4 : t[i] <= t[i + 1]}
ASSUME FirstBlockFound ==
  \A time \in Clocks, known \in SUBSET (1..5), s \in 1..4 :
    LET found == Reads!BlockAt([k \in known |-> time[k]], time, s) IN
    /\ found \in 1..5 /\ (found < 5 => time[found] >= s)
    /\ \A k \in 1..found - 1 : time[k] < s

(* A decoded launch names only what its log carries, and a log with fewer  *)
(* indexed fields is none (decodeLaunch); text lies within the answer.     *)
LaunchLogs == {[topics |-> <<e>> \o SubSeq(<<"t1", "t2", "t3">>, 1, n), data |-> SubSeq(<<w, "w2">>, 1, m)] :
                e \in {"v2", "v3", "v4", "pons", "other"}, n \in 0..3, m \in 0..2, w \in {"w1", Native}}
ASSUME LaunchesDecoded ==
  /\ \A l \in LaunchLogs :
       LET p == Reads!DecodeLaunch(l) IN
       p # NoPool => /\ {p.pool, p.tokenA, p.tokenB} \subseteq {l.topics[i] : i \in DOMAIN l.topics} \cup {l.data[i] : i \in DOMAIN l.data} \cup {Weth}
                     /\ Len(l.topics) >= (IF p.kind = "v2" THEN 3 ELSE 4) /\ p.tokenA # p.tokenB
  /\ \A size \in {0, 20, 32, 64, 96, 128}, offset \in {0, 32, 64, 200}, n \in {0, 5, 32, 40, 300} :
       LET text == Reads!DecodeString(size, offset, n) IN
       text.ok => text.value.from <= text.value.to /\ text.value.to <= size

(* A replay from the first transfer on never fails, and counts whoever     *)
(* ends with something; a replay that starts later fails or counts, and    *)
(* fails if somebody sends on what was not seen to arrive (holdersAt).     *)
Moves == {[from |-> x, to |-> y, value |-> 1] : x \in {Native, "o", "p"}, y \in {Native, "o", "p"}}
Backed(ts) == \A n \in 1..Len(ts) : LET held == Reads!Balances(SubSeq(ts, 1, n)) IN \A o \in DOMAIN held : held[o] >= 0
ASSUME CountsAreHonest ==
  \A ts \in UNION {[1..n -> Moves] : n \in 1..4} :
    LET counted == Reads!HoldersAt(ts) IN
    /\ Backed(ts) => counted.ok /\ counted.value = Cardinality({o \in {"o", "p"} :
         Cardinality({i \in DOMAIN ts : ts[i].to = o}) > Cardinality({i \in DOMAIN ts : ts[i].from = o})})
    /\ ~counted.ok => ~Backed(ts)

(* A failed read caches nothing, of a token or of its pools, and a seed    *)
(* never replaces what was read (TokenInfoCache, poolsFor).                *)
Replies == {[ends |-> e, words |-> <<n>>] : e \in {"fails", "reverts", "answers"}, n \in {18, 40}}
Words(r, offset) == [r EXCEPT !.words = <<96, offset, 5>>]
ASSUME ReadsCached ==
  \A d \in Replies, s \in Replies :
    LET once == Reads!Cached(Reads!Failed, Reads!ReadInfo(d, s)) IN
    /\ once.ok <=> "fails" \notin {d.ends, s.ends}
    /\ once.ok => Reads!Seed(once, <<18, 1>>) = once /\ Reads!Cached(once, Reads!Got(<<18, 2>>)) = once
    /\ Reads!Cached(Reads!Failed, Reads!ReadLabel(Words(d, 0), Words(s, 0))).ok <=> once.ok
    /\ LET l == Reads!ReadLabel(Words(d, 200), Words(s, 0)) IN ~l.ok <=> ~once.ok \/ d.ends = "answers"
    /\ LET pools == Reads!PoolsFor(Reads!Failed, Reads!Failed, Reads!Got(<<1, 2, 3, 4>>)) IN
       pools = Reads!Got(<<1, 2, 3>>) /\ Reads!PoolsFor(pools, Reads!Failed, Reads!Failed) = pools
    /\ once.ok => (once.value # Reads!NoToken <=> {d.ends, s.ends} = {"answers"} /\ d.words = <<18>>)

(* Prices of one quote, for three questions in a row at times that move    *)
(* on. An answered price is a candle of the market no further than Far; an *)
(* hour no candle is near of is answered "no price"; what was fetched is   *)
(* never lost; within Refetch hours of a fetch nothing is fetched again;   *)
(* and a cached answer sends nothing (usdAt).                              *)
Candles == {[h \in hs |-> 10 * h + p] : hs \in {{}, {2}, {5}, {1, 2, 5}}, p \in {1}}
Markets == {<<>>} \cup {<<Reads!Got(x)>> : x \in Candles} \cup {<<Reads!Got(x), y>> : x \in Candles, y \in {Reads!Failed, Reads!Got([h \in {3} |-> 39])}}
Fresh == [closes |-> [h \in {} |-> 0], covered |-> {}, fetchedAt |-> -9]
OfMarket(h, v) == v = 10 * h + 1 \/ (h = 3 /\ v = 39)
Sound(q, hour, o, now, m) ==
  LET u == Reads!UsdAt(q, hour, o, now, m)
      seen == u.quote.closes IN
  /\ \A h \in DOMAIN q.closes : h \in DOMAIN seen /\ seen[h] = q.closes[h]
  /\ u.answer.ok /\ u.answer # Reads!NoPrice =>
       \E h \in DOMAIN seen : OfMarket(h, u.answer.value) /\ h \in hour - 3..hour + 3
  /\ u.answer = Reads!NoPrice => ~\E h \in DOMAIN seen : h \in hour - 3..hour + 3
  /\ u.asked => ~o /\ now - q.fetchedAt >= 2
  /\ ~u.answer.ok => u.asked /\ u.quote.fetchedAt = q.fetchedAt /\ u.quote.covered = q.covered
ASSUME PricesSound ==
  \A m \in Markets, h \in 0..5 :
    LET q1 == Reads!UsdAt(Fresh, h, FALSE, 5, m).quote IN
    \A o \in BOOLEAN, g \in 0..6, now \in 6..8 :
      /\ Sound(q1, g, o, now, m)
      /\ \A k \in 0..6 : Sound(Reads!UsdAt(q1, g, FALSE, now, m).quote, k, o, now + 1, m)

(* The peaks of the curves do not depend on the batches they are read in:  *)
(* each is the highest priced trade of its own window, and unpriced if a   *)
(* trade in it has no price (ponsPeaks).                                   *)
Curve(n, first) == [token |-> n, curve |-> n, quote |-> n % 2, firstBlock |-> first]
Trade(n, at, tokens) == [curve |-> n, block |-> at, data |-> <<at * 6, tokens>>]
Rates == [(0..1) \X (1..3) -> {Reads!Failed, Reads!NoPrice, Reads!Got(2)}]
ASSUME PeaksOfEach ==
  \A first \in [1..3 -> 1..3], usd \in {r \in Rates : \A k \in 1..2 : r[<<1, k>>] = r[<<1, k + 1>>]}, last \in 0..2 :
    LET curves == [n \in 1..3 |-> Curve(n, first[n])]
        trades == <<Trade(1, 1, 1), Trade(3, 2, last), Trade(1, 3, 2), Trade(2, 3, 3)>>
        mine(n) == {i \in DOMAIN trades : trades[i].curve = n /\ trades[i].data[2] > 0
                                          /\ trades[i].block \in first[n]..first[n] + 1}
        rate(i) == usd[<<trades[i].curve % 2, trades[i].block>>]
        worth(i) == (trades[i].data[1] \div trades[i].data[2]) * rate(i).value
        all == Reads!PonsPeaks(curves, trades, usd, 1, 3) IN
    /\ all.ok <=> \A n \in 1..3 : \A i \in mine(n) : rate(i).ok
    /\ all.ok => \A n \in 1..3 :
         /\ all.value[n].trades = Cardinality(mine(n))
         /\ all.value[n].unpriced = \E i \in mine(n) : rate(i) = Reads!NoPrice
         /\ all.value[n].peak = Reads!Greatest({0} \cup {worth(i) : i \in mine(n)})

(* The candles asked for are enough for every candle of the window that    *)
(* peakPrice keeps, and batches ask every address once.                    *)
ASSUME CandlesEnough ==
  /\ \A from \in 60..200, length \in {0, 1, 30, 59, 60, 61} :
       LET hours == {60 * k : k \in 0..6} IN
       Cardinality(Reads!Within(hours, from, from + length)) <= Reads!HoursAsked(from, from + length)
  /\ \A n \in 0..5 : \A known \in SUBSET (1..n) :
       Reads!Indexed(known, [i \in 1..n |-> i]) = SelectSeq([i \in 1..n |-> i], LAMBDA i : i \in known)
=============================================================================
