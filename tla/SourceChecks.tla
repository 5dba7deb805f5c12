---------------------------- MODULE SourceChecks -----------------------------
(* The two other sources of tokens, over every short run of each.           *)
EXTENDS Integers, Sequences, FiniteSets, TLC
LOCAL INSTANCE SequencesExt
LOCAL INSTANCE FiniteSetsExt

CONSTANTS Failed, Limited, Absent, Unusable

D == INSTANCE LegacySource WITH Batch <- 1, Backoff <- 2, MaxDiscoveryAge <- 2, LabelHours <- 4,
       EntryMc <- 2, TargetMc <- 5

(* DexScreener: two tokens, a launched at 0 and b without a known launch    *)
(* or at 1; ticks at 1..6, each list read, failed or limited, each token    *)
(* priced low, high by its second pair, not at all, or its request failed.  *)
Created == [a |-> {0}, b |-> {1, Absent}]
Pair(key, mc, created, image) == [key |-> key, mc |-> mc, created |-> created, image |-> image]
PairAnswers(key) ==
  D!Errors \cup {<<>>} \cup {<<Pair(key, IF key = "a" THEN 3 ELSE 1, c, Unusable)>> : c \in Created[key]}
    \cup {<<Pair(key, 3, Absent, Absent), Pair(key, 6, c, "logo")>> : c \in Created[key]}
Lists == {<<Failed, <<[key |-> "a", icon |-> Absent]>>>>, <<<<[key |-> "a", icon |-> Unusable], [key |-> "b", icon |-> "icon"]>>, Limited>>}
Replies == [lists : Lists, pairs : {[a |-> x, b |-> y] : x \in PairAnswers("a"), y \in PairAnswers("b")}, holders : {Failed, 7}]
After(s, x, now) == D!Tick(s, x.lists, x.pairs, x.holders, now)
Times == 1..6
Reached[now \in {0} \cup Times] ==
  IF now = 0 THEN {D!Fresh} ELSE {After(s, x, now) : s \in Reached[now - 1], x \in Replies}

(* A tick that fails anywhere loses nothing it has seen: a peak never       *)
(* falls, a logo stays, no token is in the queue and in the study at once,  *)
(* one is admitted only while its peak since launch can be known, and a     *)
(* label - given once, 48 hours after launch - is by the peak alone.        *)
Kept(old, new) ==
  \A k \in DOMAIN old.tokens :
    IF k \in DOMAIN new.tokens
    THEN /\ new.tokens[k].peak >= old.tokens[k].peak
         /\ old.tokens[k].logo # Absent => new.tokens[k].logo = old.tokens[k].logo
         /\ old.tokens[k].status # "pending" => new.tokens[k] = old.tokens[k]
    ELSE old.tokens[k].status = "pending" /\ old.tokens[k].peak < 2
ASSUME TicksKeepPeaks ==
  \A now \in Times : \A s \in Reached[now - 1] : \A x \in Replies :
    LET new == After(s, x, now) IN
    /\ Kept(s, new)
    /\ DOMAIN new.queue \cap DOMAIN new.tokens = {}
    /\ \A k \in DOMAIN new.tokens :
         /\ k \notin DOMAIN s.tokens => now - new.tokens[k].launched <= 2
         /\ new.tokens[k].status # "pending" =>
              /\ now - new.tokens[k].launched >= 4 /\ new.tokens[k].peak >= 2
              /\ new.tokens[k].status = "passed" <=> new.tokens[k].peak >= 5
    /\ s.stats.errors # new.stats.errors => new.stats.labelled = s.stats.labelled
    /\ new.stats.discovered = new.stats.belowEntry + Cardinality(DOMAIN new.tokens)
    /\ \A k \in DOMAIN new.queue : now - new.queue[k].seenAt <= 2 \/ s.stats.errors # new.stats.errors \/ now < s.backoff

(* The simulated market: what it feeds the agent has its label already -    *)
(* launched 48 hours ago or more, on its side of the target and above the   *)
(* entry line - and an arrival keeps the hour it was drawn for.             *)
M == INSTANCE Simulated WITH LabelHours <- 48, EntryMc <- 10000, TargetMc <- 30000, MaxPeak <- 2500000, Top <- 3, Nobody <- Absent

Draws == [day : {2, 3, 11}, hour : {0, 13, 23}, minute : {0, 59}, u : {0, 400, 999}, p : {400}, spread : {0, 500, 999}]
Nows == {20 * M!Day, 20 * M!Day + 13 * 60 + 30, 21 * M!Day - 1}
LabelHolds(token, now) ==
  /\ now - token.launchedAt >= 48 * 60
  /\ token.status = "passed" <=> token.peakMc >= 30000
  /\ token.peakMc \in 10000..2500000
  /\ token.hour \in 0..23
ASSUME SimulatedIsLabelled ==
  \A now \in Nows, d \in Draws :
    LET arrival == M!Arrival(now, d) history == M!History(now, <<d, [d EXCEPT !.hour = 0], [d EXCEPT !.day = 3]>>) IN
    /\ LabelHolds(arrival, now) /\ arrival.hour = d.hour /\ now - arrival.launchedAt <= 4 * M!Day
    /\ \A i \in DOMAIN history : LabelHolds(history[i], now) /\ \A j \in DOMAIN history : i < j => history[i].launchedAt <= history[j].launchedAt
ASSUME DrawsAndDistances ==
  /\ \A w \in [1..3 -> 1..2] : LET total == w[1] + w[2] + w[3] IN
       \A h \in 0..2 : Cardinality({r \in 1..total : M!SampleHour(w, r) = h}) = w[h + 1]
  /\ \A h \in 0..47, c \in 0..47 : M!CircularDistance(h, c) \in 0..24 /\ M!CircularDistance(h, c) = M!CircularDistance(c, h)
                                    /\ M!CircularDistance((h + 1) % 48, (c + 1) % 48) = M!CircularDistance(h, c)

(* Timers of several cycles may fire in any order: no name is taken twice,  *)
(* only a leader of its cycle, and none after the source has stopped.       *)
Orders == {o \in [1..3 -> 1..3] : \A i, j \in 1..3 : i # j => o[i] # o[j]}
Cycles == {<<"x">>, <<"x", "y">>, <<"w", "y", "x", "z">>}
ASSUME StolenOnce ==
  \A first \in Cycles, second \in Cycles, third \in Cycles, order \in Orders, stop \in 0..3 :
    LET cycles == <<first, second, third>>
        armed == FoldLeft(LAMBDA s, i : M!OnCycle(s, i, cycles[i], 100), M!Quiet, <<1, 2, 3>>)
        fired(s, i) == IF \E timer \in s.timers : timer.id = order[i] THEN M!Fire(s, CHOOSE timer \in s.timers : timer.id = order[i]) ELSE s
        end == FoldLeft(LAMBDA s, i : fired(IF i = stop THEN M!Stop(s) ELSE s, i), armed, <<1, 2, 3>>) IN
    /\ \A i, j \in DOMAIN end.thefts : i # j => end.thefts[i].name # end.thefts[j].name
    /\ \A i \in DOMAIN end.thefts : end.thefts[i].name \in {cycles[end.thefts[i].cycle][r] : r \in 1..3 \cap DOMAIN cycles[end.thefts[i].cycle]}
    /\ stop # 0 => Len(end.thefts) < stop
    /\ end.timers = {}
=============================================================================
