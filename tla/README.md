# Wassily: a formal model

Wassily labels every token launched on Robinhood Chain by what it did in its
first 48 hours, trains a model on the labels, writes token-name ideas and
commits to them by hash before showing them, and offers a paper-trading book
and a quick-buy button on top. The program is a Next.js server with one
process-wide runtime (`src/src/server`), a browser client (`src/src/client`,
`src/src/store`), engine code both share (`src/src/engine`, `src/src/math`),
and a second implementation of the server in Python (`src/backend/wassily`).

All of the server runs in one event loop, so a handler is atomic up to its next
`await`. What goes wrong goes wrong there: two loops that hold the same token
across an `await`, state checked before one and used after it, two files
written at different times and a crash in between, a stop in mid-step. The
modules below model each component as its steps between awaits.

## The system

| Component | State | Operations | Talks to |
|---|---|---|---|
| Chain ingest (`sources/chain.ts`) | cursors in `chain.json`; in memory: live window `young`, queue `slowLive`, `rejected`, `quotes` | five loops: live tick, backfill, slow (queue first, then history), holders, logos; `init`, `stop` | RPC, GeckoTerminal, DexScreener; writes Agent.tokens |
| Holder counts (`sources/chain.ts`) | `holderQueue`, `youngHolders`, the counts on the tokens | batches of three replays, three tries; re-queued at start; recounted when the hour mark changes | RPC; gates history (`historyWaits`) and training |
| Agent (`agent.ts`) | `tokens`, `runs`, `runId`, a ledger per persona | `upsert` (with the theft check), `remove`, `runCycle`, timer, snapshot and restore | ledger, event listeners |
| Idea ledger (`engine/ledger.ts`, `engine/ideas.ts`) | last 48 cycles, eliminated leaders, thefts, stolen names | `publish`, `findCommitted`, `recordTheft` | the generator |
| Runtime and files (`runtime.ts`, `persist.ts`) | `state.json` (every 30 s and at exit), `commitments.jsonl` (append, at every cycle) | start, save timer, signals, `stop` | all of the above |
| Trade service (`trade/service.ts`, `engine/tradeSignal.ts`) | market checks, rate-limit windows | signals, quotes, unsigned swaps | agent, Kyber, Gecko |
| Paper trader (`trade/paper.ts`) | open and closed positions in `paper.json` | a tick every two minutes: open, value, close, save | trade service, Kyber |
| Quick buy (`client/tradeActions.ts`, `client/wallet.ts`, `store/useTrade.ts`, `engine/portfolio.ts`) | trades, open confirmations, wallet account in the browser | buy, sell, confirm, account switch | wallet, API routes |
| API clients (`chain/rpc.ts`, `chain/gecko.ts`, `chain/prices.ts`, `chain/tokens.ts`, `trade/kyber.ts`) | slots, lanes, pace, caches | limited concurrency, priorities, retries, back-off | the network |
| Live store (`client/live.ts`, `store/useStore.ts`, `api/stream`) | what the page shows | bootstrap, server-sent events, refresh | the server |
| Model and statistics (`engine/*`, `math/*`) | none | features, training, AUC, floors, simulation | pure functions |
| Python backend (`backend/wassily`) | `cursor`, `backfill` and `pending` in `chain.json`; tokens, ledgers and run id in `state.json`; the log | a source's task (live range, backfill, labels) and an agent's (train in a thread, publish, log, save); stop, restart | RPC, GeckoTerminal; event bus, API |
| Pages (`components`, `views`, `app`) | presentation | rendering | stores |

### What is hard, and what has to hold

- **Ingest.** Three labelling loops hold the same tokens across awaits and share
  `young`, `slowLive`, `status` and the cursors; `chain.json` is written at every
  step, `state.json` every 30 seconds. No launch may be skipped, none be followed
  without holding `liveFrom` back, a label must not be lost or changed.
- **Holder counts.** A token trains once its holders are counted; counting is
  retried, jumps queues and races the label. A labelled token must have a job,
  training counts must all be of one hour mark, failing tokens must not starve
  the others.
- **Ideas.** A commitment must be on file before it is shown, must stay, and a
  token launched after it under its name must be recorded.
- **Quick buy.** Chains of awaits of several tokens, tabs and accounts share a
  wallet, a dialog and `localStorage`. What the chain confirmed must be on
  record, and what is on record must add up to what is held.
- **Paper trader.** One tick at a time, with an await per quote, a stop or crash
  between any two, and a file written at the end. A token is bought once, exits
  need their confirmations, results on file stay.
- **RPC and Gecko clients.** Slots, lanes and a shared pace that refusals push
  back while calls already have their turn: no waiter may be left next to a free
  slot, no lane starve, and a pause must be one.
- **Trade service.** Market answers are written by a timer and by buyers, across
  awaits in which the watch list, the model and the jar change: what is offered
  must be what was last found out, and calldata go out only for what was offered.
- **Live store.** Polls, a stream that drops and reconnects, and fetches that
  overtake one another: the page must end with the server's numbers.
- **Python backend.** A failed stage leaves the round where it is and the next one
  runs; labelled launches leave `chain.json` at the end of a round and reach
  `state.json` after a run or a stop; tokens arrive while the thread trains.
- **Pure parts.** Decoding, caches of prices, folds, ranks, bounds, average costs,
  rounding: off-by-ones and the empty, the equal and the missing.

## The modules

| Module | Models | Proofs |
|---|---|---|
| `Ingest` | the labelling loops of `sources/chain.ts`, `chain.json`, `state.json` | `IngestProofs` |
| `HolderCounts` | the holder queue of `sources/chain.ts` | `HolderProofs` |
| `CommitReveal` | abstract: commit, reveal, retire | |
| `Commitments` | `agent.ts`, `engine/ledger.ts`, `engine/ideas.ts`, `persist.ts`; implements `CommitReveal` | `CommitmentProofs` |
| `PythonBackend` | `runtime/agent.py`, `engine/ledger.py`, `sources/chain.py`, `sources/simulated.py`, `store/persistence.py`; implements `CommitReveal` | `PythonProofs` |
| `Servers` | composes the two: a behaviour is one of them | `PythonProofs` |
| `QuickBuy` | `client/tradeActions.ts`, `client/wallet.ts`, `store/useTrade.ts`, `engine/portfolio.ts` | `QuickBuyProofs` |
| `PaperTrader` | `trade/paper.ts` | `PaperProofs` |
| `TradeService` | `trade/service.ts`, the gates of `engine/tradeSignal.ts`, the quote and build routes | `TradeProofs` |
| `RpcClient` | the calls of `chain/rpc.ts` | with `ChainClients` |
| `GeckoClient` | the calls of `chain/gecko.ts` | with `ChainClients` |
| `ChainClients` | composes the two | `ClientProofs` |
| `LivePage` | `client/live.ts`, `store/useStore.ts`, `hooks/useProof.ts` and the routes they read | `ClientProofs` |
| `MC*` | small chains, tokens, names and files for TLC | |

Components that only compute, or that one call at a time changes, are operators
without state. Each is checked against a reference statement over every short
input by named assumptions, which TLC evaluates before it explores the run that
hosts them:

| Module | Models | Assumptions (and theorems) in | With the runs |
|---|---|---|---|
| `ChainReads` | what is computed from answers of the chain: split log queries, blocks of a time, decoded launches, holders, token and price caches, peaks of curves, candles | `MCChainClients`, `ClientProofs` | `clients` |
| `ChainFeed` | DexScreener's client, market caps, logos, the scan of curve trades, early retraining, progress (`sources/chain.ts`) | `FeedChecks` | `market` |
| `LegacySource` | `sources/dexscreener.ts`, `server/holders.ts`, `sources/dexImage.ts` | `SourceChecks` | `market` |
| `Simulated` | `engine/simulator.ts`, `sources/simulated.ts` | `SourceChecks` | `market` |
| `Study` | the counting parts of `math/*`, `engine/trainer.ts`, `model.ts`, `features.ts`, `proof.ts`, `findings.ts`, `botPlan.ts` | `StudyChecks`, `ClientProofs` | `page` |
| `Answers` | `agent.ts` (population, warm-up, training rows, replay, start), `serialize.ts`, the paper book's summary | `AnswerChecks` | `paper_book` |
| `Book` | `engine/portfolio.ts`, the arithmetic of `PortfolioTab.tsx` and `CalendarTab.tsx` (theorems: `QuickBuyProofs`) | `MCQuickBuy` | `quick_*` |
| `Wallet` | `client/wallet.ts`, the session in `tradeActions.ts`, settings and toasts of `useTrade.ts`, `trade/kyber.ts` | `WalletChecks`, `TradeProofs` | `quick_*` |

The components are composed through their environment: `Ingest`'s watch list
and labels are steps of the environment in `HolderCounts` and the `Upsert`,
`Label` and `Remove` steps in `Commitments`, and the changes of `TradeService`'s
watch; the signals that `PaperTrader` reads are any set of tokens. Operators that
only mutation tests use (a bug somebody could plausibly write) stand directly
before the definition they replace.

### `Ingest`: the labelling loops

`status` is `Agent.tokens` (absent, pending, or the label); `saved` is
`chain.json`, `stored` the statuses of `state.json`. `pons`, `slow` and `live`
are the program counters and local variables of the three loops, `young`,
`slowLive` and `scannedTo` the live window. A block is its own launch time, so
one `clock` is both the chain's head and the time.

`Backfill…` and `Slow…` are `backfillStep` and `slowStep` from their first read to
the cursor they save, `Queue…` is `labelQueued`, `Pons…` and `Dex…` the resolvers
they share, one action per group of awaits. `Live…` is `liveTick`: scan, mature,
drop what is stale, name and show the watch list, save. `…Fail` is a lookup that
throws, at which a loop starts over and the live tick is skipped. `Stop` sets
`stopped`, which the steps under way see where the code looks at it. `Restart`
restores `state.json`, keeps `chain.json` and reads the live window again.

Data is cut to what decides: a price is above the entry line or not, a peak is
passed or stalled, a name arrives or not. `group()`'s minimum number of quote
pools, the 30-minute schedule of lookups, logos and holder counts are left out.

### `HolderCounts`: counting holders

`tokens[t]` has the two flags of a record and the hour mark its count was taken
at; `holderQueue` and `flight` are the queue and the batch; `youngHolders` is as
in the code. `TakeBatch`, `Replayed` and `LookupFails` are `holdersBatch`;
`QueueYoung` is `queueYoungHolders`; `Show`, `Hide`, `DropStale`, `Mature`,
`History`, `Finish` and `Leave` are what the loops of `Ingest` do to a record.
`Restart` loads `state.json`, resets the counts of another hour mark and queues
what is missing. `gaveUp`, `carried` and `skipped` are history.

### `CommitReveal` and `Commitments`: ideas

`CommitReveal` is the promise: rows are committed, only what is committed is
revealed, neither is ever taken back, and a retired name is not committed again.
In `Commitments` the log (`commitments.jsonl`) is `committed`, what responses have
shown is `revealed`, and the names `state.json` knows as stolen are `retired`.
`RunCycle` is a whole run (nothing in it awaits once the cycles are generated):
each persona in turn publishes to its ledger and appends its rows. `AppendFails`
and `KilledInRun` cut it short at a persona. `Upsert` (through `Watch`, `Label` and
`ReadName`) is `Agent.upsert` with the theft check; `Serve` is a response that
shows the ideas of one persona. The model, its scores and the generator's order
are abstracted to "any set of allowed names with a leader".

### `PythonBackend`: the second server

`source` is the task of the chosen source: what it awaits, the head its tick reads
up to and the launches it still has to label. `InitSource`, `LiveTick`, `LiveScan`,
`Backfill` and `Finish` are `init`, the two halves of `live_tick`, `backfill_step` and
`_finish`; each carries on with the stage that comes next, and the round ends in
`_save` (`Save`). `Fails` is `_guard`. `Arrive` is the simulated market. `training` is the run
in the thread: `Train` is `retrain` up to the thread, `CommitRun` all of `commit_run`,
since nothing in it awaits. `KilledInRun` is a crash between two personas' lines
of the log, `Crash` one anywhere else, `StopSource` and `StopAgent` the two halves of
`Runtime.stop`, after which, as after a crash, a new process starts. `served`,
`judged` and `lost` are history. A block is its own time; which launches of one age
are looked up first (a stable sort in the code, whose order the saved file decides)
is left open.

### `QuickBuy`: trades in the browser

`flow[tab][token]` is the promise chain `busy` stands for, `dialog` the one
confirmation dialog, `txs` everything sent to the chain and what became of it,
`stored` `localStorage` by account, `trades` what a tab has in memory. `Buy…` and
`Sell…` are `quickBuy` and `sell` between two awaits that read or change shared
state. `Mine` is the chain; `SetWallet`, `Load`, `Throws` and `Answer` are the
user, a timeout and the wallet. `orphaned` is history: trades that can no longer
be recorded, and why. Prices and gas are left out (a unit of token is a unit of
ETH); transactions of one account are mined in the order of their nonces, which is
the order the wallet sent them in; the daily loss cap is a refusal that may happen; `buildSwap` and
`ensureChain` are part of the step after them. `AnswerLost` is a wallet that sends and
answers nothing, or no hash. `localStorage` may refuse: a write that throws leaves
the record in the tab's memory (`AddTrade`), a list that cannot be read is an empty
one (`SetWallet`), which the next record overwrites. `upsets` bounds these refusals
together with the accounts left and the pages loaded again; connecting a wallet is
free, so all of them happen to tabs that trade.

### `PaperTrader`: the paper book

`positions` and `file` are the list in memory and `paper.json`; `tick` holds what
the tick under way has read: its time, the signals still to buy and the open
positions still to value. `Buy`, `BuyNothing` and `BuyFails` are one round of the
first loop of `tick()`, `Price` the ETH price, `Value` one round of the second,
`TickEnd` the save. `Stop` saves in mid-tick and the tick goes on. `Restart` loads
and repairs the file; one that cannot be read is an empty book (`Load`), which the next
save writes over it (`unread`, history), and a save may fail (`Save`). A quote is past the take profit, past the stop loss, in
between, or none; `priced` and `answers` keep the last ones so that the exits can
be held against them.

### `TradeService`: offers, quotes and swaps

`markets[t]` is the router's last answer about a token with its age, `checker` the
market check under way (`refreshMarkets`: which tokens are due, which of its
awaits it is at), `request[v]` what a visitor's quote or build waits for, or the
quote the page holds, `builds` the wallet's builds of the last minute, `eth` the age
of the cached price. `RunStarts`, `CheckerEth`, `BuyAnswered` and `SaleAnswered` are
one check; `QuoteBuy`, `QuoteSell`, `QuotePriced`, `RouteAnswered`, `Build`, `BuildSized`
and `CalldataAnswered` the two routes. `Change` is the agent. A tick is a minute:
a check and a request have time-outs that let at most one pass. Scores are an
order, gates a status; the server is live and not stopping.

### `RpcClient` and `GeckoClient`: slots, lanes, pauses

In `RpcClient` a call is idle, in line, woken, waiting for its turn, sent or
backing off. `active` and `waiting` are the counter and the array of `withSlot`:
`Leave` is its `finally`, which wakes the first in line, and `Resume` the loop that
looks again, since a new `Call` may be there first. `nextAt` and `gap` are the
shared pace. In `GeckoClient` `lanes` are the two queues, `pump` the one loop that
sleeps and releases. Times are ticks from now; replies are an answer, a refusal
or a failure. `quiet`, `noise`, `passed`, `hush` and `released` are history: what
is left of a pause and what left in it, who was passed. `ChainClients` uses one
of the two, chosen at the start: they share nothing.

### `LivePage`: the page's copy

`rows` and `run` are the server, `wire` the event stream, `polls` and `asks` the
fetches in flight, each asked, then answered with what the route read, then
arrived. `counters`, `model`, `feed`, `ideas` and `failed` are the store; `sim`, `mounted`
and `boots` the proof panel with its sliders and its bootstrap fetches. `OnToken` and
`OnModel` are `onmessage`; `Drop` loses what was on the wire. `due` is history: a model
announced whose ideas have not come.

## The runs

Every passing run explores its state space to the end. A mutation of the model
that a plausible bug would be is listed for every property, and violates it
under the same configuration. `servers` has both implementations of the server: a
behaviour is one of the two, and its properties of the other hold of the initial
state. `commit_log` has the Node server's promise and its records without failing
appends; `servers` the records with one (`RecordsStand`: `RetainedTheftsNoted`,
`OneRecordPerTheft` and `LeadersRecorded` of the Node part) and what it costs
(`FailedAppendsCostOne`: a cycle that is kept and not in the log, and the personas
behind it left out of the run). Two runs choose at the start what there is of
everything, since all of it at once is too much for TLC: a visit in `MCQuickBuy` has
two tabs, or two accounts and two tokens; a scene in `MCTradeService` has a visitor,
or three candidates. The actions are those of the component. Type invariants are
proved, not run.

| Run | Properties | What it shows | Bounds |
|---|---|---|---|
| `ingest_crash` | `LaunchesAccounted`, `LiveLaunchesFollowed`, `OneVenueLabelledOnce`, `CursorsNeverTurnBack` | no launch is skipped, relabelled or read again, and the live window loses none, through a crash and a stop at any await | a curve of history that graduates, a pool of the live window; one crash, one save, chunks of 2 blocks |
| `ingest_answered` | `LabelsStay`, `EveryLaunchAnswered` | every launch of the study is answered in the end | history and live, one failed lookup, fair loops |
| `holders_counts` | `LabelledHasJob`, `WatchedCurvesQueued`, `CountsAtOneMark`, `CountsStay`, `EveryLabelledCounted`, `HistoryResumes` | nothing labelled or watched is forgotten, counts are of one mark although a crash came between the mark and the recounts, no count is taken away, tokens that always fail hold up neither the rest nor history | three tokens, two of them broken, one of them watched, one slot, a save, two restarts, one new mark |
| `commit_log` | `LedgerWithinLog`, `RetainedTheftsNoted`, `OneRecordPerTheft`, `KeepsPromise` | `Commitments` implements `CommitReveal`; thefts are recorded, once | two personas, two names, two runs, a crash also inside a run |
| `servers` | `LaunchesKept`, `TheftsNoted`, `RecordsStand`, `FailedAppendsCostOne`, `KeepsPromise`, `LaunchesAnswered` | Python: no launch is skipped, every one is answered, behind newer ones and a failed stage, thefts are recorded, and it implements `CommitReveal` too. Node: no theft or revision is missing from the lists; each failed append costs the log one kept cycle at most | Python: a curve and a pool of one token, a pool of another, one lookup a round, two personas of which one finds no names, one cycle kept, a failed stage, a stop, two crashes; one run on the chain, two on the simulated market. Node: two tokens, three runs with two cycles kept, lists of one entry, a failed append, an unread name |
| `quick_tabs` | `DialogAnswersItsFlow`, `BooksMatchChain`, `ConfirmedIsRecorded` | tabs of one account overwrite each other's list, several tokens share the dialog, accounts are left before the receipt, and what is on record still adds up; a confirmed trade is recorded, or lost in a way that is named | two tabs with one account and one token, or one tab with two accounts and two tokens, one without a Transfer event; three transactions and two times an account left, a page loaded or `localStorage` refusing, in one tab four of these five |
| `paper_book` | `OncePerToken`, `OpenWithinLimit`, `ExitsConfirmed`, `ResultsStay`, `EveryPositionCloses` | the rules of the book, through a crash, a failed call, save or load, and a stop | two tokens for one place, with and without an early file; 3 missed and 2 confirmed quotes as in the code |
| `market` | `OfferIsFresh`, `SwapsWereOffered`, `CandidatesChecked` | an offer rests on a recent check that no buyer has contradicted for long, calldata go out for offers only; the better scored candidates do not keep the others from being asked about, as long as there are no more than the runs can ask about before a missing market is due again | one check a run; two candidates, which may share a symbol, and a visitor, with one failure and one change at any await; or three candidates, where two fit, and one failure or change; lifetimes of 1 to 4 ticks in the code's order |
| `clients` | `SlotsUsed`, `LowLaneServed`, `QuietAfterRefusal`, `EveryCallEnds` | slots are neither lost nor overbooked, both lanes are served, pauses are kept by all but calls under way, every call ends | three callers, two slots, four calls with one retry, pauses of 2 ticks |
| `page` | `BootLowerFits`, `NumbersConverge`, `IdeasFollow` | whatever is lost or overtaken, the page ends with the server's numbers; a model that is announced to it is followed by an answer about its ideas or an error; a bootstrap of its own sliders only is shown | one token, two polls and two asks in flight, three events of the world, two messages on the wire |
| `commit_run_reused` (violation) | `OneRunPerId` | a finding, below | one crash before `state.json` is saved |
| `quick_proceeds` (violation) | `ProceedsAreTheSales` | a finding, below | two tokens, one tab |

The bounds are the smallest at which each hazard occurs with something beside
it: a list longer than its cap, two pools due for one lookup, a crash between
the two files and one inside a step, one more token than there is room for. Four
hazards are met by the theorems only, which know no bound: a live tick that appends
while a batch is in hand (`BatchIsHead`), more matured tokens than a tick takes
(`LiveFollowed`), a failed step repeated after it labelled (`OneVenueOneLabel`), and
a curve that is watched a second time (`WatchedNeverForgotten`).
Two calls in flight are enough for one to overtake the other, three callers of
two slots for one to wait and be overtaken. Every bound is a constant that guards
an action of its own (a crash, a failed lookup, a save, a call, an event of the
world); none cuts a handler short. What is true for any bound is what
the theorems are about. Runs do not check for deadlock: clocks, saves and
transactions run out, and a stopped loop stops.

### Fairness

Liveness is checked under weak fairness of the steps that the JavaScript event
loop takes by itself: a loop or tick whose timer has fired or whose await has
been answered goes on, and time passes. Network calls have timeouts, so
every await is answered, if only by an error; that GeckoTerminal's is rests on the
runtime's own limits, since `gecko.ts:121` gives `fetch` none. Failures are bounded, since a
service that never answers again lets nobody finish. In `TradeService` that is the
timer with its check and the replies to a request, in the clients the timers, the
continuations and the replies (a new caller is not fair, and may take a woken
one's slot each time), in `LivePage` the poll's timer, routes, answers and messages,
and the reconnection, which is the `EventSource`'s own; in
`PythonBackend` the source's task, the blocks mined, and the end of a stop (not the
agent's timer: labels do not wait for it). Nothing is assumed of
users, crashes, stops, saves, transactions, drops of the stream or new launches.

## What is proved

For every value of the constants that satisfies the assumption named in the
module; TLC has checked the same properties on the instances above.

- **`IngestProofs`**: `TypeOK`, `LaunchesAccounted`, `LiveLaunchesFollowed`,
  `SlowBatchIsQueueHead`, `LabelsStay`, `CursorsNeverTurnBack`. Cursors say
  nothing of what is under way, so `IInv` adds, per loop, what the step in hand
  covers (`BackfillInv`, `SlowInv`, `LiveInv`): everything between the old cursor
  and the new one is answered, in hand, or the loop is stopped. `FollowInv` says
  which candidate keeps a live launch, `FilesInv` what `chain.json` may say while
  `state.json` is behind. `OneVenueLabelledOnce` takes `OnceInv`: what the slow loop
  holds has a pool, so a token of one venue is in the hands of one loop, in one
  place of it, and is put down with its label.
- **`HolderProofs`**: `TypeOK`, `LabelledHasJob` (with `OneJobPerSlot`: a job that
  fails is the one that goes back), `CountsAtOneMark` (with `OldCounts`: where
  counts of another mark can still be) and `CountsStay` (with `VenueInv`: one pass
  at a time holds a token of one venue). `WatchedCurvesQueued` takes `CurveInv`: no
  pass holds a token of the watch list, so only a count or the last failure takes
  the job of a watched curve.
- **`CommitmentProofs`**: `TypeOK`; `LedgerWithinLog`, `ServedWasLogged` and the
  refinement of `CommitReveal` under the assumption that no append fails (with
  one, TLC finds the ledger ahead of the log); `RetainedTheftsNoted` with failing
  appends, by `TheftInv`, which also speaks of the ledgers and tokens in
  `state.json`, since a restart brings them back. `ListInv` says of both what the two
  lists hold: one record per stolen name, and one per kept pair of cycles whose
  leader lost its rank; from it `OneRecordPerTheft` and `LeadersRecorded`.
- **`PythonProofs`**: `TypeOK`; `LaunchesKept`, by `LaunchInv`, which says the same of
  `chain.json` whenever it was written, since a restart goes on from there, and that
  every known token is pending or answered, since a known one is not admitted
  again; `TheftsNoted`, by `SameLabel` (a token is followed under one pool, in memory
  and in the file, so that a label given again after a crash is the same) and
  `TheftInv` (kept cycles are in the order of their dates, so the earliest one with
  the name decides; the same of `state.json`); the refinement of `CommitReveal`, by
  `PromiseInv`: both kept ledgers are in the log, and the file knows no theft that
  memory does not. Of `Servers`: a step of one server is a stutter of the other, so
  the composition implements both specifications (`ServersBehave`), and what
  `CommitmentProofs` says of the records holds in it (`RecordsStand`).
- **`QuickBuyProofs`**: `TypeOK`, `DialogAnswersItsFlow`, `ConfirmedIsRecorded` and
  `BooksMatchChain`. That
  a confirmed trade is recorded is not inductive: until it is mined nothing has
  been confirmed. `Kept` says it of every transaction that was sent, whatever
  comes of it (its chain still follows it, it is on record, in `localStorage` or in a
  tab's memory, or it is orphaned),
  and `Covered` that the chain which follows it is the only one. `BooksInv` is for
  the books: a record, and a chain that waits for a receipt, tells the truth about
  its transaction (`RecordsTrue`, `FlowsTrue`); an account's transactions are mined
  in the order of their nonces (`NonceOrder`); a balance is what the trades mined so
  far add up to (`ChainAdds`). When every trade is on record the two lists hold the
  same trades, and `AddsAgree` compares what they add up to: at the least number of
  trades where they differ, the last trade is the same and the rest agreed. That
  `Held`, a recursive function, has the values its equation gives (`HeldAdds`) is
  itself shown, by building the function up to each length.
  Of `Book`, whatever the list of trades: `PagesAgree` (the portfolio and the calendar,
  which keep the same average cost in two functions, hold as much of every token at
  the same cost after every trade, and the day of a trade gains what its position
  realizes) and `ResultsAddUp` (a position's result is what its sales took less what
  was spent, plus the cost of what is left; once all is sold nothing is left of the
  cost). The last part assumes that each buy brought tokens (`Bought`). The code can
  record one that brought none, when neither the receipt nor the balance can be read
  (`tradeActions.ts:155`); its cost then stays with a position that counts as closed.
  Both speak of trades in time order; that `InTimeOrder` sorts them is checked by TLC.
  `StreaksAreRuns`, whatever the results of the days: the best streak is the longest run
  of days that won, and the current one the longest run up to the last day of its sign.
  The loops are recursive functions again; after each day the invariant says which run
  ends there (`EndsWith`), which is the longest (`LongestIs`), and, going back, what has
  ended the count (`Ended`).
- **`PaperProofs`**: `TypeOK`, the three invariants of the run and `ResultsStay`. The exits
  need `Counts`: the counters of an open position count the end of the history
  they stand for. `TickReads` says that what a tick has read still holds when it
  is used: no other step touches the book while one is under way, so the list of
  open positions and of tokens to buy stays true. `FileBehind` says that memory
  agrees with the file on every result in it, unless the file could not be read, so no
  save can take one back.
  `IInv` is stated of the repaired file too, since that is what a crash restores.
- **`ClientProofs`**: `TypeOK`, `SlotsUsed`, `LowLaneServed` and `QuietAfterRefusal` of
  `ChainClients`, for any callers, slots, shares, attempts and pauses. A step of one
  client is a stutter of the other, so `Inv` is an invariant of each.
  `RpcInv`: `Line` says that the array of waiters is exactly the calls in line, each
  once, so the one woken is not the one that leaves; the sum of slots taken and
  callers woken then never falls below the limit while somebody waits. `QuietInv`
  counts those that may still leave in the pause (`Early`): their turn was given
  before the refusal, so they hold slots, and the refused call held another. A new
  turn is after the pause.
  `GeckoInv`: every call that passes the low lane counts towards its share
  (`ShareInv`), the pump runs exactly while a call waits (`PumpRuns`), and after the
  one call already on its way it sleeps until the time that was moved back
  (`PauseInv`).
  Of `LivePage`, `BootLowerFits`, for any settings and models: `PanelInv` adds that a
  fetch the panel still owns was asked for the sliders as they stand, whatever
  disowned it or moved them since.
  Of the operators of `ChainReads`: `FirstBlockAtOrAfter` (the binary search of
  `blockAt` ends at the block its comment promises, for every chain and cache),
  `LogsInHalves` (a query split as often as the node asks loses no log, repeats none
  and keeps their order, or fails for a range inside it that could not be split) and
  `PricesAreNear` (a quote's price is the nearest candle known, never one beyond
  `Far`). Of those of `Study`: `FillsToTarget` (the bisection of the slider ends at
  numbers that reach the target, where one step fewer do not, whatever floor the bound
  gives), `UnlockedIsProven` (the jar is full exactly for a floor at the target with
  every gate passed) and `PercentilesRise` (percentiles of a sorted list lie between
  its extremes and rise with the share asked, across the joints of the pieces).
  Searches and queries are recursive
  functions over ranges: that such a function exists, and what it gives, goes by the
  length of the range. The two bisections share that argument (`SearchExists`,
  `SearchEnds`): what a search preserves while its range shrinks, it ends with.
- **`TradeProofs`**: `OfferIsFresh`, `SwapsWereOffered`, for any tokens, visitors and
  ages. That an offer rests on a recent check takes `AnswersSound`: an answer that
  there is a market is at most one check older than it looks, and than what a buyer
  was told since, whatever the order in which checks of the poller and of visitors
  end. `BuildsBacked` says when a build under way began. `Typed` leaves out of `TypeOK`
  the order of a run's tokens and of the ages of builds: `SelectSeq` makes them, which
  the prover cannot open, and neither theorem needs them. Of `Wallet`,
  `ListensToItsWallet`, for any run of connecting, disconnecting, account changes and
  restores: the page listens to the wallet it shows and shows that account's trades.
  What the tab remembers may be another wallet, but only after a restore was under way
  while the user connected or disconnected. `SessionSteps` is the invariant; a run is
  a function on `0..n`, and goes by `UpTo`, induction over the steps of one run.

Model-checked only: liveness, since fairness is out of the prover's reach
(`EveryLaunchAnswered`, `LaunchesAnswered`, `EveryLabelledCounted`, `HistoryResumes`,
`EveryPositionCloses`, `CandidatesChecked`, `EveryCallEnds`, `NumbersConverge`,
`IdeasFollow`). `SlowBatchIsQueueHead` and `ServedWasLogged` are proved
only. The other operators checked by assumptions are checked on short inputs: the
prover opens neither recursive operators nor folds over data, and what is proved of
recursive functions (`Book`, `ChainReads`, `Study`) is proved by the length of their input.

## Where the code and its documents differ

Two are runs that TLC finds violated:

- `commit_run_reused`: "Anyone holding the model and the run id can replay this
  exact cycle" (`ideas.ts:36`). The run id is stored with `state.json`; after a
  crash the next run has the same id and another model.
- `quick_proceeds`: `ethWei` is "ETH sent (buy) or received (sell)"
  (`portfolio.ts:13`), but a sale's proceeds are a difference of two balances, and
  trades of other tokens run in between.

Others were met while modelling. The properties are stated so that they hold,
with these cases named in them or in their assumptions:

- `liveFrom`, "every launch at or below this block has an outcome"
  (`chain.ts:56`): a label given just before a crash is in neither file, and
  nothing reads its launch again (`lost` in `LaunchesAccounted`).
- A step that `stop()` cuts short still moves its cursor (`abandoned`).
- The oldest block of the study is not read when a chunk ends just above it
  (`Studied` leaves it out).
- A token that graduated within the history may be labelled by two loops, the
  later label replacing the first (`OneVenueLabelledOnce` is of one venue).
- A token shown again after its job was dropped is not queued again unless it is
  a curve (`WatchedCurvesQueued`); a labelled token is given up on at its third
  failure while the warm-up goes on reporting it as pending (`gaveUp`); watched
  tokens keep the count of the old hour mark through an upgrade, and a crash
  brings old counts back (`carried`, `skipped`).
- A failed append leaves a cycle published and served that the log does not have
  (the assumption of three theorems; `FailedAppendsCostOne` bounds it). A commitment
  older than the kept cycles is not compared with new tokens, and a token that is
  renamed not compared again (`renamed`).
- Python: "a restart resumes where it stopped" (`backend/README.md:102`) holds of the
  position, but labels given since the last run are in memory only, and a crash
  loses those whose launch has left `chain.json` (`lost`).
- "An existing token that merely opens a new pool is not a launch"
  (`sources/chain.py:243`): the backfill walks down and meets the later pool first,
  and a restart forgets the tokens that were measured and dropped.
- "One failing stage must not stop the loop" (`sources/chain.py:191`): a curve whose
  quote token has no market fails the label stage in every round
  (`chain/prices.py:63`), and nothing behind it is labelled any more. `Fails` is
  bounded, as every failure here. And while more launches become due than
  `DEX_PER_TICK` per round, the older ones wait behind the newer
  (`sources/chain.py:259-275`); there are finitely many in the model.
- Python dates a cycle by the start of its training (`runtime/agent.py:166`): a
  launch during the training counts as the theft of a name nobody had seen. Copycats
  of the simulated market, meant for the theft record (`sources/simulated.py:21`), are
  dated two days back or more, and never count. A failed append (`agent.py:192`)
  leaves a published cycle out of the log there too.
- "Record what the chain confirmed" (`tradeActions.ts:1`): a trade whose chain threw is
  not, be it for a receipt that took too long or for a wallet that sent it and lost its
  answer (`wallet.ts:109`). A trade is recorded under the account connected when its
  receipt comes. A list in `localStorage` is overwritten by another tab's; one that
  cannot be read, by the next record; and a write that throws leaves the trade in
  memory, until the page or the account is left (`useTrade.ts:58-73`). All are
  `orphaned`. Limits on open positions are checked before the awaits, so trades
  started together all pass them.
- "Checks in a row" (`paper.ts:22`) may have a missing quote between them, and
  after a crash the three "running" (`paper.ts:43`) may have had a good one. A
  `paper.json` that cannot be read is an empty book, which the next save writes over
  it (`paper.ts:235`).
- The last known ETH price serves however old it is, though it is meant for "a
  brief outage" of its source (`service.ts`); a check under way may put a button
  back that a buyer's "no market" took away; candidates whose calls fail stay due,
  ahead of others. With more candidates than the runs of five minutes can ask about,
  better scored ones without a market are due again first, and the lowest scored is
  never asked about (`service.ts:126-132`; `Crowded` in `CandidatesChecked`).
- The page: an older answer with ideas that arrives last replaces newer ones, and an
  announcement that is lost is not made up for by the polls (`IdeasFollow` is of those
  that arrive, `NumbersConverge` of numbers only); a failed poll says disconnected while the stream is open, until the
  stream reopens; the snapshot of the start may replace newer rows of the feed;
  "the model behind these scores" (`ConfidenceBanner.tsx:34`) is the live model,
  the ideas may be a cycle older; a bootstrap that failed is not asked for again
  until the sliders or the model change.
- Prices: "retrying will not change it" (`prices.ts:14`) is also said when a fetch
  was skipped; "at most one fresh fetch" (`prices.ts:7`) does not hold of
  concurrent callers; an hour once read keeps its first close (`prices.ts:53`).
- `decodeString` throws on an offset behind an answer of three words or more.
- With fewer rows of a class than folds the AUC is NaN: every gate stays shut
  (`UnmeasuredStaysShut`), but `confidenceLabel` calls it "qualified" (`bounds.ts:248`);
  `fillTargetFor` may return a step more than the smallest evidence.
- `PortfolioTab` pairs an old value with the position a partial sale left until the
  next quote; a position opened again keeps the hash of its first purchase.
- DexScreener's client: another caller's failure can shorten the pause of a 429
  (`chain.ts:831`); a stop in `dexPairs` leaves tokens looking unlisted. In
  `dexscreener.ts` a list that is limited does not end the tick.
- `restoreSession`: a late answer replaces a wallet connected meanwhile, or brings
  back one that was disconnected (`LateRestoreShows`).
- A score or floor within half a unit of the fourth place below a threshold is
  served as reaching it (`ShownAsMeasured`); after restarts within a cycle a model
  may be nearly two cycles old (`ModelIsFresh`).

## What is not modelled, and the plan

`PROJECT.json` lists every component with its state of affairs.

- Floating-point computation over whole data sets (gradient descent, normal
  quantiles, bootstrap draws), SHA-256 and the composition of names: out of TLC's
  reach. What counts or ranks in them is in `Study`.
- Rendering (`components`, `views`, `app/*/page.tsx`) other than the arithmetic in
  `Book`, exports (`dataset.csv`, `methodology.json`) and static configuration: they
  read and decide nothing.
- Of the modelled components: version 1 snapshots, jumps of the system clock, the
  30-minute schedule of lookups, the validation of addresses and amounts, gas, the
  schedule of exit alerts.
- Of the Python backend: the event bus, which drops a subscriber's oldest events as
  `LivePage`'s `Drop` does, the runs that seed a new market with dates in the past,
  appends that fail (in `Commitments` they are modelled), its clients of the chain
  (ports of the ones in `ChainReads`), its model and statistics (ports of those in
  `Study`), and the routes that do not show ideas.

Done: `Ingest`, `HolderCounts`, `CommitReveal` and `Commitments`, `QuickBuy`,
`PythonBackend`, `PaperTrader`, `RpcClient` and `GeckoClient`, `TradeService` and
`LivePage` with their proofs, the accounts and streaks of `Book`, and the searches, split
queries and prices of `ChainReads`, the slider, the jar and the percentiles of `Study`
and the session of `Wallet`; the other operator modules with their checks. Next:

1. Theorems about the rest of `Book`: the totals of the portfolio tab and of a month,
   which are folds over sets.
2. Failing appends and the event bus of the Python backend.
3. `TradeService` composed with `PaperTrader`, whose signals it provides.
