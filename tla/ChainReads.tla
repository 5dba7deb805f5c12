------------------------------ MODULE ChainReads ------------------------------
(***************************************************************************)
(* What the server computes from one answer, or a few, of the chain and of *)
(* GeckoTerminal: rpc.ts (getLogs, blockAt), abi.ts, holders.ts, tokens.ts,*)
(* prices.ts, pons.ts and the readers of gecko.ts.                         *)
(*                                                                         *)
(* Times are hours, blocks are numbers, words and addresses are values.    *)
(***************************************************************************)
EXTENDS Integers, Sequences, FiniteSets
LOCAL INSTANCE SequencesExt
LOCAL INSTANCE FiniteSetsExt
LOCAL INSTANCE Functions

CONSTANTS
  MinSpan,              \* a refused log query of this many blocks more is split
  Near, Far,            \* hours a candle may be away: used at once; used at all
  Refetch,              \* hours between two fetches of one quote
  Ahead, Reach,         \* candles asked for end Ahead hours after; one page holds Reach
  Batch,                \* addresses in one query
  PoolsPerQuote,        \* the deepest pools of a quote that are asked
  MaxPlaces,            \* more decimals than this is not a token
  Native, Weth, NoPool  \* the zero address, the quote it stands for, nothing

Least(S) == CHOOSE x \in S : \A y \in S : x <= y
Greatest(S) == CHOOSE x \in S : \A y \in S : x >= y
Lower(a, b) == IF a < b THEN a ELSE b
Higher(a, b) == IF a > b THEN a ELSE b

Failed == [ok |-> FALSE]
Got(v) == [ok |-> TRUE, value |-> v]

-----------------------------------------------------------------------------
(* getLogs: a range the node refuses, or is too slow on, is asked again in *)
(* halves; reply[<<from, to>>] is "logs", "too big" or "fails". log[b] is  *)
(* the sequence of logs of block b.                                        *)
LogsOf(log, from, to) ==
  LET upTo[b \in 0 .. Len(log)] == IF b < from THEN <<>> ELSE upTo[b - 1] \o log[b] IN upTo[to]
Both(left, right) == IF left.ok /\ right.ok THEN Got(left.value \o right.value) ELSE Failed
GetLogs(log, reply) ==
  LET get[r \in DOMAIN reply] ==
        LET mid == (r[1] + r[2]) \div 2 IN
        IF reply[r] = "logs" THEN Got(LogsOf(log, r[1], r[2]))
        ELSE IF reply[r] = "fails" \/ r[2] - r[1] < MinSpan THEN Failed
        ELSE Both(get[<<r[1], mid>>], get[<<mid + 1, r[2]>>]) IN
  get

(* blockAt: binary search over the times of the blocks 1..head; a block    *)
(* read before is taken from the cache.                                    *)
Timestamp(cache, time, b) == IF b \in DOMAIN cache THEN cache[b] ELSE time[b]
BlockAt(cache, time, seconds) ==
  LET head == Len(time)
      before(b) == Timestamp(cache, time, b) < seconds
      search[r \in (1..head) \X (1..head)] ==
        LET mid == (r[1] + r[2]) \div 2 IN
        IF r[1] >= r[2] THEN r[1]
        ELSE IF before(mid) THEN search[<<mid + 1, r[2]>>] ELSE search[<<r[1], mid>>] IN
  IF before(head) THEN head ELSE search[<<1, head>>]

-----------------------------------------------------------------------------
(* decodeLaunch: the log of a launch, or NoPool. A log has at most four    *)
(* topics, the first its event, and the whole words of its data.           *)
Shaped(l, topics, words) == Len(l.topics) >= topics /\ Len(l.data) >= words
Launch(kind, pool, a, b) == [kind |-> kind, pool |-> pool, tokenA |-> a, tokenB |-> b]
DecodeLaunch(l) ==
  LET t == l.topics
      quote == IF l.data # <<>> THEN l.data[1] ELSE Native IN
  CASE t[1] = "v2" /\ Shaped(l, 3, 1) -> Launch("v2", l.data[1], t[2], t[3])
    [] t[1] = "v3" /\ Shaped(l, 4, 2) -> Launch("v3", l.data[2], t[2], t[3])
    [] t[1] = "v4" /\ Shaped(l, 4, 0) -> Launch("v4", t[2], t[3], t[4])
    [] t[1] = "pons" /\ Shaped(l, 4, 0) -> Launch("pons", t[3], t[2], IF quote = Native THEN Weth ELSE quote)
    [] OTHER -> NoPool

(* decodeString: which bytes of the answer are the text. An offset beyond  *)
(* the answer leaves no length to read, which throws.                      *)
Slice(size, from, length) == [from |-> Lower(from, size), to |-> Lower(from + length, size)]
DecodeString(size, offset, length) ==
  IF size >= 96 /\ offset >= size THEN Failed
  ELSE IF size >= 96 /\ offset = 32 /\ length <= size - 64 THEN Got(Slice(size, 64, length))
  ELSE Got(Slice(size, 0, 32))

-----------------------------------------------------------------------------
(* holdersAt: replay of the transfers [from, to, value] of one token; the  *)
(* balances of the addresses met, and how many hold something, or Failed   *)
(* when somebody sent more than was received.                              *)
Owners(transfers) ==
  UNION {{transfers[i].from, transfers[i].to} : i \in DOMAIN transfers} \ {Native}
Paid(balance, t) ==
  [a \in DOMAIN balance |-> balance[a] - (IF a = t.from THEN t.value ELSE 0) + (IF a = t.to THEN t.value ELSE 0)]
Balances(transfers) == FoldLeft(Paid, [a \in Owners(transfers) |-> 0], transfers)
HoldersAt(transfers) ==
  LET held == Balances(transfers) IN
  IF \E a \in DOMAIN held : held[a] < 0 THEN Failed
  ELSE Got(Cardinality({a \in DOMAIN held : held[a] > 0}))

(* sampleHolders: the first field the explorer gives, if it is a count.    *)
SampleHolders(up, fields) ==
  LET given == SelectSeq(fields, LAMBDA f : f.given) IN
  IF ~up \/ given = <<>> THEN Failed
  ELSE IF ~Head(given).number \/ Head(given).n < 0 THEN Failed ELSE Got(Head(given).n)

-----------------------------------------------------------------------------
(* TokenInfoCache: an entry is Failed while nothing is cached; a failed    *)
(* read is not cached, a revert reads as an empty answer, and a seed fills *)
(* only an empty entry.                                                    *)
Seed(entry, info) == IF entry = Failed THEN Got(info) ELSE entry
NoToken == <<>>
Info(decimals, supply) ==
  IF decimals = <<>> \/ supply = <<>> THEN NoToken
  ELSE IF decimals[1] > MaxPlaces THEN NoToken ELSE decimals \o supply
Cached(entry, read) == IF entry = Failed THEN read ELSE entry
Called(answer) ==
  IF answer.ends = "fails" THEN Failed ELSE Got(IF answer.ends = "reverts" THEN <<>> ELSE answer.words)
ReadInfo(decimals, supply) ==
  LET d == Called(decimals) s == Called(supply) IN IF d.ok /\ s.ok THEN Got(Info(d.value, s.value)) ELSE Failed
Text(words) == IF words = <<>> THEN Got(Slice(0, 0, 0)) ELSE DecodeString(words[1], words[2], words[3])
ReadLabel(name, symbol) ==
  LET n == Called(name) s == Called(symbol) IN
  IF ~n.ok \/ ~s.ok THEN Failed
  ELSE IF Text(n.value).ok /\ Text(s.value).ok THEN Got(<<Text(n.value).value, Text(s.value).value>>) ELSE Failed

-----------------------------------------------------------------------------
(* QuotePrices. A series is a function from the hours it knows; a quote is *)
(* [closes, covered, fetchedAt] with fetchedAt -Refetch before any fetch.  *)
Nearest(series, hour, within) ==
  LET at(d) == {h \in {hour - d, hour + d} : h \in DOMAIN series}
      close == {d \in 0..within : at(d) # {}} IN
  IF close = {} THEN Failed ELSE Got(series[Least(at(Least(close)))])
(* The candles of a page that are new and not zero, before `until`.        *)
HourlyCloses(candles, until) == {h \in DOMAIN candles : h <= until /\ h > until - Reach}
Joined(series, candles, until) ==
  LET new == {h \in HourlyCloses(candles, until) : candles[h] > 0} \ DOMAIN series IN
  [h \in DOMAIN series \cup new |-> IF h \in DOMAIN series THEN series[h] ELSE candles[h]]
(* One pool after the other until the hour has a price near; a pool whose  *)
(* candles are Failed ends the fetch, and keeps what earlier pools gave.   *)
Fetched(series, pools, hour, until) ==
  FoldLeft(LAMBDA f, pool :
      IF ~f.ok \/ Nearest(f.closes, hour, Near).ok THEN f
      ELSE IF ~pool.ok THEN [f EXCEPT !.ok = FALSE]
      ELSE [f EXCEPT !.closes = Joined(@, pool.value, until)],
    [ok |-> TRUE, closes |-> series], pools)

Covers(q, hour) == \E r \in q.covered : hour \in r[1]..r[2]
Recent(q, now) == q.fetchedAt > now - Refetch
(* What the quote is after a call, and its answer: a price, "no price", or *)
(* Failed when a request was. A price is positive.                         *)
NoPrice == Got(0)
UsdAt(q, hour, cachedOnly, now, pools) ==
  LET price == Nearest(q.closes, hour, Near)
      until == Lower(now, hour + Ahead)
      f == Fetched(q.closes, pools, hour, until)
      after == [closes |-> f.closes, covered |-> q.covered \cup {<<until - Reach + 1, until - 1>>}, fetchedAt |-> now]
      fallback(p) == LET far == Nearest(p.closes, hour, Far) IN IF far.ok THEN far ELSE NoPrice IN
  IF price.ok THEN [quote |-> q, answer |-> price, asked |-> FALSE]
  ELSE IF cachedOnly \/ Recent(q, now) \/ Covers(q, hour) THEN [quote |-> q, answer |-> fallback(q), asked |-> FALSE]
  ELSE IF pools = <<>> THEN [quote |-> q, answer |-> NoPrice, asked |-> TRUE]
  ELSE IF ~f.ok THEN [quote |-> [q EXCEPT !.closes = f.closes], answer |-> Failed, asked |-> TRUE]
  ELSE [quote |-> after, answer |-> fallback(after), asked |-> TRUE]

(* poolsFor: a failed listing is asked again, a listed one is kept.        *)
TopPools(listed) == SubSeq(listed, 1, Lower(PoolsPerQuote, Len(listed)))
PoolsFor(known, reference, listed) ==
  IF known.ok THEN known ELSE IF reference.ok THEN reference
  ELSE IF listed.ok THEN Got(TopPools(listed.value)) ELSE Failed

-----------------------------------------------------------------------------
(* Batches of a list, as gecko.pools, gecko.tokens and ponsPeaks ask them. *)
Batches(s) == [i \in 1..((Len(s) + Batch - 1) \div Batch) |->
                 SubSeq(s, (i - 1) * Batch + 1, Lower(i * Batch, Len(s)))]
(* pools and tokens: what the service knows of each batch, in its order.   *)
Indexed(known, addresses) ==
  FlattenSeq([i \in DOMAIN Batches(addresses) |-> SelectSeq(Batches(addresses)[i], LAMBDA a : a \in known)])

(* tradePrice of a trade's words: quote units per token.                   *)
TradePrice(data) == IF Len(data) < 2 THEN Failed ELSE IF data[2] = 0 THEN Failed ELSE Got(data[1] \div data[2])

(* ponsPeaks. A curve is [token, curve, quote, firstBlock], a trade        *)
(* [curve, block, data], in block order; usd[<<quote, block>>] is a price, *)
(* NoPrice or Failed, which fails the whole step.                          *)
Unseen == [ok |-> TRUE, trades |-> 0, peak |-> 0, unpriced |-> FALSE]
After(p, price, rate) ==
  IF ~rate.ok THEN [p EXCEPT !.ok = FALSE]
  ELSE IF rate = NoPrice THEN [p EXCEPT !.trades = @ + 1, !.unpriced = TRUE]
  ELSE [p EXCEPT !.trades = @ + 1, !.peak = Higher(@, price * rate.value)]
PeakOf(c, trades, usd, window) ==
  LET counted == SelectSeq(trades, LAMBDA t : /\ t.curve = c.curve /\ TradePrice(t.data).ok
                                              /\ t.block \in c.firstBlock..c.firstBlock + window) IN
  FoldLeft(LAMBDA p, t : After(p, TradePrice(t.data).value, usd[<<c.quote, t.block>>]), Unseen, counted)
(* One query per batch, over the blocks of all its curves up to the head.  *)
Queried(batch, trades, window, head) ==
  LET first == {batch[i].firstBlock : i \in DOMAIN batch} IN
  SelectSeq(trades, LAMBDA t : /\ t.block \in Least(first)..Lower(head, Greatest(first) + window)
                               /\ \E i \in DOMAIN batch : batch[i].curve = t.curve)
PonsPeaks(curves, trades, usd, window, head) ==
  LET peaks == FlattenSeq([k \in DOMAIN Batches(curves) |->
                 LET batch == Batches(curves)[k] logs == Queried(batch, trades, window, head) IN
                 [i \in DOMAIN batch |-> PeakOf(batch[i], logs, usd, window)]]) IN
  IF \A i \in DOMAIN peaks : peaks[i].ok THEN Got(peaks) ELSE Failed

(* peakPrice: the candles asked for, and the highest of those from the     *)
(* hour before `from` to `to`, or Failed without any. Times in minutes.    *)
HourMinutes == 60
HoursAsked(from, to) == Lower(Reach, ((to - from + HourMinutes - 1) \div HourMinutes) + 2)
Within(hours, from, to) == {h \in hours : h >= from - HourMinutes /\ h <= to}
PeakPrice(high, from, to) ==
  LET some == Within(DOMAIN high, from, to) IN IF some = {} THEN Failed ELSE Got(Greatest({0} \cup {high[h] : h \in some}))
=============================================================================
