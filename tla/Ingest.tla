------------------------------- MODULE Ingest -------------------------------
(***************************************************************************)
(* The live data source, src/src/server/sources/chain.ts.                  *)
(*                                                                         *)
(* Three loops share one event loop and interleave at every await:         *)
(*                                                                         *)
(*   backfill  labels Pons (curve) launches of the past, newest first;     *)
(*   slow      labels everything else: the young tokens that turned 48h    *)
(*             when there are any (labelQueued), else history (slowStep);  *)
(*   live      liveTick: discovers launches, labels the curves that turned *)
(*             48h, queues the other tokens that did, keeps a watch list.  *)
(*                                                                         *)
(* What a token is goes to Agent.tokens (status), which state.json stores  *)
(* every 30 seconds; how far the loops have come goes to chain.json, which *)
(* is stored whenever a cursor moves.  The process may crash between the   *)
(* two, or be stopped while a step is under way.                           *)
(*                                                                         *)
(* Blocks and time are one clock: a block is its own launch time.          *)
(***************************************************************************)
EXTENDS Integers, FiniteSets, Sequences

CONSTANTS
  Launch,          \* pool launches on the chain: records [token, block, curve]
  Sampled,         \* the tokens the history sample keeps (inSample)
  Oldest,          \* backfillFrom: oldest block of the study
  Edge,            \* backfillTo + 1: first block the live loop follows
  Chunk,           \* CHUNK: blocks per history step
  Window,          \* WINDOW_MS: age at which a token is labelled
  Grace,           \* STALE_GRACE_MS: how much longer an unfollowed one is shown
  SlowBatch,       \* SLOW_LIVE_BATCH
  MaturedPerTick,  \* MATURED_PER_TICK
  MaxClock,        \* bound: the last block of the model
  MaxCrashes,      \* bound: crashes followed by a restart
  MaxFails,        \* bound: steps cut short by a failed lookup
  MaxSaves,        \* bound: saves of state.json
  CanStop          \* whether stop() is ever called

ASSUME IngestAssumption ==
  /\ Launch \subseteq [token : {l.token : l \in Launch}, block : Nat, curve : BOOLEAN]
  /\ Oldest \in Nat /\ Edge \in Nat /\ Oldest < Edge
  /\ \A l \in Launch : Oldest <= l.block
  /\ Chunk \in Nat \ {0} /\ Window \in Nat /\ Grace \in Nat
  /\ SlowBatch \in Nat \ {0} /\ MaturedPerTick \in Nat \ {0}
  /\ MaxClock \in Nat /\ MaxCrashes \in Nat /\ MaxFails \in Nat /\ MaxSaves \in Nat
  /\ CanStop \in BOOLEAN

(* External: the launchpad creates the token, so a token has one curve and *)
(* no pool before it.                                                      *)
ASSUME CurveComesFirst ==
  \A l, k \in Launch :
    l.curve /\ k.token = l.token /\ k # l => ~k.curve /\ l.block <= k.block

Tokens == {l.token : l \in Launch}
Blocks == {l.block : l \in Launch}
Labels == {"passed", "stalled"}
Status == {"absent", "pending"} \cup Labels
PonsLoops == {"backfill", "live"}   \* the two callers of resolvePons

(* A token with the block of its first pool of the range that was read.    *)
Candidate == [token : Tokens, first : Blocks, curve : BOOLEAN]

VARIABLES
  clock,      \* block height, and the time
  stopped,    \* stop() was called
  status,     \* Agent.tokens: "absent", "pending" (watched) or the label
  rejected,   \* tokens that stayed under the entry line
  quotes,     \* tokens found to be older than their launch
  young,      \* the live window: candidates waiting for their 48h
  slowLive,   \* queue of non-curve candidates that turned 48h
  scannedTo,  \* the live loop has read launches up to this block
  pons,       \* what each caller of resolvePons has in hand
  slow,       \* where the slow loop is
  live,       \* where liveTick is
  saved,      \* chain.json: the cursors (always equal to those in memory) and rejected
  stored,     \* the statuses in state.json
  crashes, fails, saves,
  \* History variables: read by the properties only.
  dropped,    \* tokens a lookup answered "not a launch" or "never traded" for
  lost,       \* tokens whose label a crash lost
  abandoned   \* tokens a stopped loop left without an answer

memory == <<status, rejected, quotes>>
files == <<saved, stored>>
window == <<young, slowLive, scannedTo>>
loops == <<pons, slow, live>>
world == <<clock, stopped>>
budget == <<crashes, fails, saves>>
history == <<dropped, lost, abandoned>>
vars == <<memory, window, loops, files, world, budget, history>>

-----------------------------------------------------------------------------
TokensOf(cs) == {c.token : c \in cs}
QueueSet == {slowLive[i] : i \in DOMAIN slowLive}
LeastOf(S) == CHOOSE x \in S : \A y \in S : x <= y
Lower(a, b) == IF a < b THEN a ELSE b
Higher(a, b) == IF a > b THEN a ELSE b

(* group(): one candidate per launched token of a block range, known quote *)
(* assets left out; it carries the first pool's block.                     *)
InRange(lo, hi) == {l \in Launch : lo <= l.block /\ l.block <= hi}
Group(lo, hi) ==
  { [token |-> t,
     first |-> LeastOf({l.block : l \in {k \in InRange(lo, hi) : k.token = t}}),
     curve |-> \E l \in InRange(lo, hi) : l.token = t /\ l.curve] :
    t \in {l.token : l \in InRange(lo, hi)} \ quotes }

(* open(): the candidates that still have no outcome; the mutant forgets   *)
(* to look at the label.                                                   *)
OpenUnlabelled(cs) == {c \in cs : c.token \notin rejected \cup quotes}
Open(cs) == {c \in cs : /\ c.token \notin rejected \cup quotes
                        /\ status[c.token] \in {"absent", "pending"}}

(* drop(): off the watch list, if that is where it is.                     *)
Drop(t) == status' = IF status[t] = "pending" THEN [status EXCEPT ![t] = "absent"] ELSE status

(* save(): a cursor and the rejected tokens go to chain.json together.     *)
Save(cursor, value) == saved' = [saved EXCEPT ![cursor] = value, !.rejected = rejected]

Idle == [pc |-> "idle", todo |-> {}, priced |-> {}, naming |-> {}]
SlowIdle == [pc |-> "idle", job |-> "none", todo |-> {}, looking |-> {}, naming |-> {}, size |-> 0]
LiveIdle == [pc |-> "idle", now |-> 0, matured |-> {}, naming |-> {}]

(* First start: init() has just made and saved its plan.                   *)
Init ==
  /\ clock = Edge + Window /\ stopped = FALSE
  /\ status = [t \in Tokens |-> "absent"]
  /\ rejected = {} /\ quotes = {}
  /\ young = {} /\ slowLive = <<>> /\ scannedTo = Edge - 1
  /\ pons = [p \in PonsLoops |-> Idle] /\ slow = SlowIdle /\ live = LiveIdle
  /\ saved = [backfill |-> Edge - 1, slow |-> Edge - 1, live |-> Edge - 1, rejected |-> {}]
  /\ stored = status
  /\ crashes = 0 /\ fails = 0 /\ saves = 0
  /\ dropped = {} /\ lost = {} /\ abandoned = {}

-----------------------------------------------------------------------------
(* resolvePons, on behalf of loop p.  Every open token is judged (a drop   *)
(* each for the unpriced and the never traded), then the priced ones are   *)
(* finished one at a time; only the second part looks at `stopped`.        *)

PonsOpen(p, cs) ==
  pons' = [pons EXCEPT ![p] = [Idle EXCEPT !.pc = "judge",
                                           !.todo = TokensOf(Open({c \in cs : c.curve}))]]

PonsUntraded(p, t) ==
  /\ pons[p].pc = "judge" /\ t \in pons[p].todo
  /\ Drop(t) /\ dropped' = dropped \cup {t}
  /\ pons' = [pons EXCEPT ![p].todo = @ \ {t}]
  /\ UNCHANGED <<rejected, quotes, window, slow, live, files, world, budget, lost, abandoned>>

PonsPriced(p, t) ==
  /\ pons[p].pc = "judge" /\ t \in pons[p].todo
  /\ pons' = [pons EXCEPT ![p].todo = @ \ {t}, ![p].priced = @ \cup {t}]
  /\ UNCHANGED <<memory, window, slow, live, files, world, budget, history>>

(* The graduated tokens' DEX peaks and the names are in.                   *)
PonsAllPriced(p) ==
  /\ pons[p].pc = "judge" /\ pons[p].todo = {}
  /\ pons' = [pons EXCEPT ![p].pc = "finish"]
  /\ UNCHANGED <<memory, window, slow, live, files, world, budget, history>>

(* finish(): under the entry line.                                         *)
PonsBelow(p, t) ==
  /\ pons[p].pc = "finish" /\ pons[p].naming = {} /\ ~stopped
  /\ t \in pons[p].priced
  /\ rejected' = rejected \cup {t} /\ Drop(t)
  /\ pons' = [pons EXCEPT ![p].priced = @ \ {t}]
  /\ UNCHANGED <<quotes, window, slow, live, files, world, budget, history>>

(* finish(): at or over it, waiting for the token's name...                *)
PonsName(p, t) ==
  /\ pons[p].pc = "finish" /\ pons[p].naming = {} /\ ~stopped
  /\ t \in pons[p].priced
  /\ pons' = [pons EXCEPT ![p].priced = @ \ {t}, ![p].naming = {t}]
  /\ UNCHANGED <<memory, window, slow, live, files, world, budget, history>>

(* ...and then labelled, whatever became of it meanwhile.                  *)
PonsLabel(p, t) ==
  /\ t \in pons[p].naming
  /\ \E s \in Labels : status' = [status EXCEPT ![t] = s]
  /\ pons' = [pons EXCEPT ![p].naming = @ \ {t}]
  /\ UNCHANGED <<rejected, quotes, window, slow, live, files, world, budget, history>>

(* resolvePons returns: all finished, or stopped before the next one.      *)
PonsReturns(p) ==
  /\ pons[p].pc = "finish" /\ pons[p].naming = {}
  /\ pons[p].priced = {} \/ stopped
  /\ pons' = [pons EXCEPT ![p] = Idle]
  /\ abandoned' = abandoned \cup pons[p].priced

PonsStep(p) ==
  \/ \E t \in Tokens : \/ PonsUntraded(p, t) \/ PonsPriced(p, t)
                       \/ PonsBelow(p, t) \/ PonsName(p, t) \/ PonsLabel(p, t)
  \/ PonsAllPriced(p)

-----------------------------------------------------------------------------
(* The backfill loop: backfillStep.                                        *)

BackfillLow == Higher(Oldest, saved.backfill - Chunk + 1)

BackfillStart ==
  /\ ~stopped /\ pons["backfill"].pc = "idle"
  /\ saved.backfill > Oldest
  /\ PonsOpen("backfill", {c \in Group(BackfillLow, saved.backfill) : c.token \in Sampled})
  /\ UNCHANGED <<memory, window, slow, live, files, world, budget, history>>

BackfillDone ==
  /\ PonsReturns("backfill")
  /\ Save("backfill", BackfillLow - 1)
  /\ UNCHANGED <<memory, window, slow, live, stored, world, budget, dropped, lost>>

(* A lookup of resolvePons throws: the chunk is read again later.          *)
BackfillFail ==
  /\ fails < MaxFails /\ fails' = fails + 1
  /\ pons["backfill"].pc = "judge"
  /\ pons' = [pons EXCEPT !["backfill"] = Idle]
  /\ UNCHANGED <<memory, window, slow, live, files, world, crashes, saves, history>>

Backfill == BackfillStart \/ PonsStep("backfill") \/ BackfillDone

-----------------------------------------------------------------------------
(* The slow loop.                                                          *)

SlowLow == Higher(Oldest, saved.slow - Chunk + 1)

(* Both jobs call resolveDex on the candidates without a curve.            *)
DexOpen(job, cs, size) ==
  slow' = [SlowIdle EXCEPT !.pc = "dex", !.job = job, !.size = size,
                           !.todo = TokensOf(Open({c \in cs : ~c.curve}))]

SlowStart ==
  /\ ~stopped /\ slow.pc = "idle"
  /\ slowLive = <<>> /\ saved.slow > Oldest
  /\ DexOpen("history", {c \in Group(SlowLow, saved.slow) : c.token \in Sampled}, 0)
  /\ UNCHANGED <<memory, window, pons, live, files, world, budget, history>>

QueueStart ==
  /\ ~stopped /\ slow.pc = "idle"
  /\ slowLive # <<>>
  /\ LET n == Lower(SlowBatch, Len(slowLive))
     IN  DexOpen("queue", {slowLive[i] : i \in 1..n}, n)
  /\ UNCHANGED <<memory, window, pons, live, files, world, budget, history>>

DexNext(t) == slow.pc = "dex" /\ slow.looking = {} /\ slow.naming = {} /\ ~stopped /\ t \in slow.todo

(* Its first pair is older than the launch: an existing token.             *)
DexOlder(t) ==
  /\ DexNext(t)
  /\ quotes' = quotes \cup {t} /\ Drop(t) /\ dropped' = dropped \cup {t}
  /\ slow' = [slow EXCEPT !.todo = @ \ {t}]
  /\ UNCHANGED <<rejected, window, pons, live, files, world, budget, lost, abandoned>>

DexUnlisted(t) ==
  /\ DexNext(t)
  /\ Drop(t) /\ dropped' = dropped \cup {t}
  /\ slow' = [slow EXCEPT !.todo = @ \ {t}]
  /\ UNCHANGED <<rejected, quotes, window, pons, live, files, world, budget, lost, abandoned>>

(* It has pools: their candles are looked up...                            *)
DexLookup(t) ==
  /\ DexNext(t)
  /\ slow' = [slow EXCEPT !.todo = @ \ {t}, !.looking = {t}]
  /\ UNCHANGED <<memory, window, pons, live, files, world, budget, history>>

(* ...and show no trade, a peak under the entry line, or one over it.      *)
DexUntraded(t) ==
  /\ t \in slow.looking
  /\ Drop(t) /\ dropped' = dropped \cup {t}
  /\ slow' = [slow EXCEPT !.looking = @ \ {t}]
  /\ UNCHANGED <<rejected, quotes, window, pons, live, files, world, budget, lost, abandoned>>

DexBelow(t) ==
  /\ t \in slow.looking
  /\ rejected' = rejected \cup {t} /\ Drop(t)
  /\ slow' = [slow EXCEPT !.looking = @ \ {t}]
  /\ UNCHANGED <<quotes, window, pons, live, files, world, budget, history>>

DexName(t) ==
  /\ t \in slow.looking
  /\ slow' = [slow EXCEPT !.looking = @ \ {t}, !.naming = @ \cup {t}]
  /\ UNCHANGED <<memory, window, pons, live, files, world, budget, history>>

DexLabel(t) ==
  /\ t \in slow.naming
  /\ \E s \in Labels : status' = [status EXCEPT ![t] = s]
  /\ slow' = [slow EXCEPT !.naming = @ \ {t}]
  /\ UNCHANGED <<rejected, quotes, window, pons, live, files, world, budget, history>>

DexReturns(job) ==
  /\ slow.pc = "dex" /\ slow.job = job
  /\ slow.looking = {} /\ slow.naming = {}
  /\ slow.todo = {} \/ stopped
  /\ slow' = SlowIdle
  /\ abandoned' = abandoned \cup slow.todo

(* slowStep: the cursor moves.                                             *)
SlowDone ==
  /\ DexReturns("history")
  /\ Save("slow", SlowLow - 1)
  /\ UNCHANGED <<memory, window, pons, live, stored, world, budget, dropped, lost>>

(* labelQueued: slowLive.splice(0, batch.length); the mutant forgets it.   *)
NotSpliced == slowLive
Spliced == SubSeq(slowLive, slow.size + 1, Len(slowLive))
QueueDone ==
  /\ DexReturns("queue")
  /\ slowLive' = Spliced
  /\ UNCHANGED <<memory, young, scannedTo, pons, live, files, world, budget, dropped, lost>>

(* GeckoTerminal fails: the step is retried later as a whole.              *)
SlowFail ==
  /\ fails < MaxFails /\ fails' = fails + 1
  /\ slow.looking # {}
  /\ slow' = SlowIdle
  /\ UNCHANGED <<memory, window, pons, live, files, world, crashes, saves, history>>

DexStep == \E t \in Tokens : \/ DexOlder(t) \/ DexUnlisted(t) \/ DexLookup(t)
                             \/ DexUntraded(t) \/ DexBelow(t) \/ DexName(t) \/ DexLabel(t)
Slow == SlowStart \/ QueueStart \/ DexStep \/ SlowDone \/ QueueDone

-----------------------------------------------------------------------------
(* The live loop: liveTick, from its timer to its save.                    *)

(* The launches since the last tick; the mutant skips a block.             *)
LaunchesAfterGap == Group(scannedTo + 2, clock)
NewLaunches == Group(scannedTo + 1, clock)

(* They join the live window; a token already there only gains pools.      *)
LiveScan ==
  /\ ~stopped /\ live.pc = "idle"
  /\ young' = young \cup {c \in NewLaunches : c.token \notin TokensOf(young)}
  /\ scannedTo' = Higher(scannedTo, clock)
  /\ live' = [LiveIdle EXCEPT !.pc = "scanned"]
  /\ UNCHANGED <<memory, slowLive, pons, slow, files, world, budget, history>>

(* The candidates that turned 48h, at most MATURED_PER_TICK of them; which *)
(* ones the Map's order puts first is left open.                           *)
LiveMature ==
  /\ live.pc = "scanned"
  /\ LET ripe == {c \in young : c.first + Window <= clock}
     IN  \E m \in SUBSET ripe :
           /\ Cardinality(m) = Lower(MaturedPerTick, Cardinality(ripe))
           /\ live' = [live EXCEPT !.pc = IF m = {} THEN "trades" ELSE "label",
                                   !.now = clock, !.matured = m]
           /\ IF m = {} THEN UNCHANGED pons ELSE PonsOpen("live", m)
  /\ UNCHANGED <<memory, window, slow, files, world, budget, history>>

(* The ways to append the non-curve ones of a set to the queue.            *)
Orderings(S) == UNION { {q \in [1..n -> S] : /\ \A i, j \in 1..n : q[i] = q[j] => i = j
                                             /\ \A c \in S : \E i \in 1..n : q[i] = c} :
                        n \in 0..MaturedPerTick }

(* slowLive.push(...).                                                     *)
Pushed(q) == slowLive \o q

(* The curves are labelled; the others queue for the slow loop.            *)
LiveMatured ==
  /\ live.pc = "label"
  /\ PonsReturns("live")
  /\ \E q \in Orderings({c \in live.matured : ~c.curve}) : slowLive' = Pushed(q)
  /\ young' = {c \in young : c.token \notin TokensOf(live.matured)}
  /\ live' = [live EXCEPT !.pc = "trades", !.matured = {}]
  /\ UNCHANGED <<memory, scannedTo, slow, files, world, budget, dropped, lost>>

(* scanCurveTrades, then dropStale: watched tokens long past their window  *)
(* that nobody follows any more leave the feed.  The mutant forgets to ask *)
(* whether they are still watched.                                         *)
StaleLabelled(now) == {t \in Tokens : /\ status[t] # "absent"
                                      /\ t \notin TokensOf(young \cup QueueSet)
                                      /\ \E l \in Launch : l.token = t /\ l.block + Window + Grace <= now}
Stale(now) == {t \in Tokens : /\ status[t] = "pending"
                              /\ t \notin TokensOf(young \cup QueueSet)
                              /\ \E l \in Launch : l.token = t /\ l.block + Window + Grace <= now}
LiveDropStale ==
  /\ live.pc = "trades"
  /\ status' = [t \in Tokens |-> IF t \in Stale(live.now) THEN "absent" ELSE status[t]]
  /\ live' = [live EXCEPT !.pc = "watch"]
  /\ UNCHANGED <<rejected, quotes, window, pons, slow, files, world, budget, history>>

(* watch(): a young curve over the entry line is not shown yet; its name   *)
(* is read, and then it is shown, whatever became of it meanwhile.         *)
LiveNameCurve(c) ==
  /\ live.pc = "watch" /\ live.naming = {}
  /\ c \in young /\ c.curve /\ status[c.token] = "absent"
  /\ live' = [live EXCEPT !.naming = {c.token}]
  /\ UNCHANGED <<memory, window, pons, slow, files, world, budget, history>>

LiveShowCurve(t) ==
  /\ t \in live.naming
  /\ status' = [status EXCEPT ![t] = "pending"]
  /\ live' = [live EXCEPT !.naming = @ \ {t}]
  /\ UNCHANGED <<rejected, quotes, window, pons, slow, files, world, budget, history>>

(* The rest of watch(), once DexScreener has answered, and the save: the   *)
(* listed non-curve tokens are shown, those without a market removed, and  *)
(* liveFrom moves to just below the oldest candidate still waiting.        *)
(* The mutant forgets the minimum.                                         *)
Waiting == {c.first : c \in young \cup QueueSet}
LiveFromHead == scannedTo
LiveFrom == IF Waiting = {} THEN scannedTo ELSE LeastOf(Waiting) - 1
YoungCurves == TokensOf({c \in young : c.curve})
LiveSave ==
  /\ live.pc = "watch" /\ live.naming = {}
  /\ \E gone \in SUBSET {t \in Tokens \ YoungCurves : status[t] = "pending"},
        shown \in SUBSET {t \in TokensOf(young) \ YoungCurves : status[t] = "absent"} :
       status' = [t \in Tokens |-> IF t \in gone THEN "absent"
                                   ELSE IF t \in shown THEN "pending" ELSE status[t]]
  /\ Save("live", LiveFrom)
  /\ live' = LiveIdle
  /\ UNCHANGED <<rejected, quotes, window, pons, slow, stored, world, budget, history>>

(* A call of the tick throws: what it has done stays, nothing is saved.    *)
LiveFail ==
  /\ fails < MaxFails /\ fails' = fails + 1
  /\ \/ live.pc \in {"scanned", "trades"}
     \/ live.pc = "label" /\ pons["live"].pc = "judge"
     \/ live.pc = "watch" /\ live.naming = {}
  /\ live' = LiveIdle
  /\ pons' = [pons EXCEPT !["live"] = Idle]
  /\ UNCHANGED <<memory, window, slow, files, world, crashes, saves, history>>

Live == \/ LiveScan \/ LiveMature \/ PonsStep("live") \/ LiveMatured \/ LiveDropStale
        \/ \E c \in young : LiveNameCurve(c)
        \/ \E t \in Tokens : LiveShowCurve(t)
        \/ LiveSave

-----------------------------------------------------------------------------
(* Around the loops.                                                       *)

Tick ==
  /\ clock < MaxClock /\ clock' = clock + 1
  /\ UNCHANGED <<memory, window, loops, files, stopped, budget, history>>

(* runtime.ts: state.json, every 30 seconds and on SIGTERM.                *)
SaveState ==
  /\ ~stopped /\ saves < MaxSaves /\ saves' = saves + 1
  /\ stored' = status
  /\ UNCHANGED <<memory, window, loops, saved, world, crashes, fails, history>>

(* Runtime.stop: stop() saves chain.json, then state.json is saved.  Steps *)
(* under way run on.                                                       *)
Stop ==
  /\ CanStop /\ ~stopped
  /\ stopped' = TRUE
  /\ saved' = [saved EXCEPT !.rejected = rejected]
  /\ stored' = status
  /\ UNCHANGED <<memory, window, loops, clock, budget, history>>

(* Where the live loop resumes; the mutant starts again at the edge.       *)
ResumeAtEdge == Edge - 1
ResumeAt == saved.live

(* The process dies and starts again: Agent.restore and init().            *)
Restart ==
  /\ crashes < MaxCrashes /\ crashes' = crashes + 1
  /\ stopped' = FALSE
  /\ status' = stored /\ rejected' = saved.rejected /\ quotes' = {}
  /\ young' = {} /\ slowLive' = <<>> /\ scannedTo' = ResumeAt
  /\ pons' = [p \in PonsLoops |-> Idle] /\ slow' = SlowIdle /\ live' = LiveIdle
  /\ lost' = lost \cup {t \in Tokens : status[t] \in Labels /\ stored[t] \notin Labels}
  /\ UNCHANGED <<files, clock, fails, saves, dropped, abandoned>>

Fail == BackfillFail \/ SlowFail \/ LiveFail
Next == Backfill \/ Slow \/ Live \/ Fail \/ Tick \/ SaveState \/ Stop \/ Restart

Spec == Init /\ [][Next]_vars

(* Timers and resumed awaits are run by the event loop: a loop whose next  *)
(* step is ready takes it, and time passes.                                *)
Fairness == WF_vars(Backfill) /\ WF_vars(Slow) /\ WF_vars(Live) /\ WF_vars(Tick)
FairSpec == Spec /\ Fairness

-----------------------------------------------------------------------------
TypeOK ==
  /\ clock \in Nat /\ stopped \in BOOLEAN
  /\ status \in [Tokens -> Status] /\ stored \in [Tokens -> Status]
  /\ rejected \subseteq Tokens /\ quotes \subseteq Tokens
  /\ young \subseteq Candidate /\ slowLive \in Seq(Candidate) /\ scannedTo \in Int
  /\ pons \in [PonsLoops -> [pc : {"idle", "judge", "finish"}, todo : SUBSET Tokens,
                             priced : SUBSET Tokens, naming : SUBSET Tokens]]
  /\ slow \in [pc : {"idle", "dex"}, job : {"none", "history", "queue"}, todo : SUBSET Tokens,
               looking : SUBSET Tokens, naming : SUBSET Tokens, size : Nat]
  /\ live \in [pc : {"idle", "scanned", "label", "trades", "watch"}, now : Nat,
               matured : SUBSET Candidate, naming : SUBSET Tokens]
  /\ saved \in [backfill : Int, slow : Int, live : Int, rejected : SUBSET Tokens]
  /\ crashes \in Nat /\ fails \in Nat /\ saves \in Nat
  /\ dropped \subseteq Tokens /\ lost \subseteq Tokens /\ abandoned \subseteq Tokens

(* Has an answer: a label, under the entry line, or not a launch at all.   *)
HasOutcome(t) == status[t] \in Labels \/ t \in rejected \cup dropped
Accounted(t) == HasOutcome(t) \/ t \in lost \cup abandoned

HasCurve(t) == \E l \in Launch : l.token = t /\ l.curve

(* What chain.json says is done with.                                      *)
PastCurves == {l \in Launch : l.curve /\ l.token \in Sampled /\ saved.backfill < l.block /\ l.block < Edge}
PastOthers == {l \in Launch : ~HasCurve(l.token) /\ l.token \in Sampled /\ saved.slow < l.block /\ l.block < Edge}
PastLive == {l \in Launch : Edge <= l.block /\ l.block <= saved.live}

(* No launch is skipped.  A launch the cursors of chain.json have passed   *)
(* has its outcome, through failed and retried steps, interleaved loops    *)
(* and restarts, with two exceptions: a label that a crash lost before     *)
(* state.json was saved, and a step that stop() cut short.                 *)
LaunchesAccounted == \A l \in PastCurves \cup PastOthers \cup PastLive : Accounted(l.token)

(* A live launch that was read is answered or still followed, and by a     *)
(* candidate old enough to keep liveFrom behind it.                        *)
LiveLaunchesFollowed ==
  \A l \in Launch : Edge <= l.block /\ l.block <= scannedTo =>
    \/ Accounted(l.token)
    \/ \E c \in young \cup QueueSet : c.token = l.token /\ c.first <= l.block

(* labelQueued splices the queue by a length it took before it awaited:    *)
(* what it works on is still the head of the queue.                        *)
SlowBatchIsQueueHead ==
  slow.job = "queue" =>
    /\ slow.size <= Len(slowLive)
    /\ slow.todo \cup slow.looking \cup slow.naming \subseteq {slowLive[i].token : i \in 1..slow.size}

(* A label never leaves the study while the process runs: no loop, watch   *)
(* list update or cleanup puts a labelled token back or removes it.        *)
LabelsStay ==
  [][crashes' = crashes => \A t \in Tokens : status[t] \in Labels => status'[t] \in Labels]_vars

(* README, "Each token is labelled once": the label of a token launched on *)
(* one venue never changes, even when its step fails and is repeated.      *)
(* That of a graduated curve can: the backfill and the slow loop may both  *)
(* have it in hand.                                                        *)
LabelledOnce(t) == status[t] \in Labels /\ status'[t] \in Labels => status'[t] = status[t]
OneVenue(t) == \A l, k \in Launch : l.token = t /\ k.token = t => l.curve = k.curve
OneVenueLabelledOnce ==
  [][crashes' = crashes => \A t \in Tokens : OneVenue(t) => LabelledOnce(t)]_vars

(* The cursors of chain.json never turn back, so no launch is counted      *)
(* again once it is behind them.                                           *)
CursorsNeverTurnBack ==
  [][/\ saved'.backfill <= saved.backfill /\ saved'.slow <= saved.slow
     /\ saved'.live >= saved.live]_saved

(* Every launch of the study is answered in the end: history down to (not  *)
(* including) its oldest block, and every live launch.                     *)
Studied == {l \in Launch : Edge <= l.block \/ (l.token \in Sampled /\ Oldest < l.block)}
EveryLaunchAnswered == \A t \in TokensOf(Studied) : <>Accounted(t)
=============================================================================
