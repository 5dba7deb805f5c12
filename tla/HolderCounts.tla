----------------------------- MODULE HolderCounts -----------------------------
(***************************************************************************)
(* Holder counts of src/src/server/sources/chain.ts: a labelled token      *)
(* trains once its holders, as of an hour mark after its launch, have been *)
(* replayed from its transfers.                                            *)
(*                                                                         *)
(* One loop, holdersBatch, takes jobs off holderQueue.  Jobs come from     *)
(* finish() when a token is labelled without a count (pushed), from        *)
(* queueYoungHolders for watched tokens (unshifted, ahead of the rest) and *)
(* from init() for the labelled tokens a restart finds without one.  The   *)
(* loops that watch, label and drop tokens are Ingest's; here they are the *)
(* environment, one step per change they make to a token's record.  A stop *)
(* saves state.json and ends the process: SaveState, then Restart.         *)
(***************************************************************************)
EXTENDS Integers, FiniteSets, Sequences

CONSTANTS
  Tokens,       \* launched tokens
  Live,         \* those the live loop follows; the others are history
  Curves,       \* those launched on a Pons curve
  TwoVenues,    \* those of history that both history passes may hold
  Broken,       \* tokens whose transfers can never be read
  Parallel,     \* HOLDERS_PARALLEL
  Backlog,      \* HOLDER_BACKLOG_MAX
  MaxTries,     \* a job is dropped at this failure
  MaxShows,     \* bound: tokens put on the watch list
  MaxFails,     \* bound: failed lookups of tokens that are not broken
  MaxSaves,     \* bound: saves of state.json
  MaxCrashes,   \* bound: restarts
  MaxUpgrades   \* bound: restarts with another hour mark

ASSUME HolderAssumption ==
  /\ IsFiniteSet(Tokens)
  /\ Live \subseteq Tokens /\ Curves \subseteq Tokens /\ TwoVenues \subseteq Tokens \ Live
  /\ Broken \subseteq Tokens
  /\ Parallel \in Nat \ {0} /\ Backlog \in Nat /\ MaxTries \in Nat \ {0}
  /\ MaxShows \in Nat /\ MaxFails \in Nat /\ MaxSaves \in Nat
  /\ MaxCrashes \in Nat /\ MaxUpgrades \in Nat

Slots == 1..Parallel
Passes == {"backfill", "slow", "live"}   \* who holds a token between open() and finish()
Passed(t) == IF t \in Live THEN {"live"}
             ELSE IF t \in TwoVenues THEN {"backfill", "slow"}
             ELSE IF t \in Curves THEN {"backfill"} ELSE {"slow"}

(* A token's record: holdersMissing, holdersIncomplete, and the hour mark  *)
(* its count was taken at (0 for none).                                    *)
Record == [status : {"absent", "pending", "labelled"}, missing : BOOLEAN, partial : BOOLEAN, mark : Nat]
Absent == [status |-> "absent", missing |-> TRUE, partial |-> FALSE, mark |-> 0]
Uncounted(s) == [Absent EXCEPT !.status = s]
Job == [token : Tokens, tries : 0..(MaxTries - 1)]
NewJob(t) == [token |-> t, tries |-> 0]

VARIABLES
  tokens,        \* Agent.tokens
  young,         \* tokens in the live window
  due,           \* <<token, pass>>: opened, and not yet finished or dropped
  holderQueue,   \* jobs waiting
  flight,        \* the batch: at most one job per slot
  youngHolders,  \* "watched tokens whose 1h holder count is queued or taken"
  mark,          \* SITE.holderSampleHours of the running program
  savedMark,     \* holdersSampledHours in chain.json
  stored,        \* the tokens in state.json
  shows, fails, saves, crashes, upgrades,
  \* History variables: read by the properties only.
  gaveUp,        \* tokens a job was dropped for since the start
  carried,       \* watched tokens whose count an upgrade left alone
  skipped        \* tokens whose old count came back from state.json after a recount

ingest == <<young, due>>
jobs == <<holderQueue, flight, youngHolders>>
files == <<savedMark, stored>>
budget == <<shows, fails, saves, crashes, upgrades>>
history == <<gaveUp, carried, skipped>>
vars == <<tokens, ingest, jobs, mark, files, budget, history>>

-----------------------------------------------------------------------------
Lower(a, b) == IF a < b THEN a ELSE b
StatusOf(t) == tokens[t].status
HasCount(r) == ~r.missing \/ r.partial
(* init() and queueYoungHolders: a count is still to be taken.             *)
Awaits(r) == r.missing /\ ~r.partial
Unresolved(t) == StatusOf(t) = "labelled" /\ Awaits(tokens[t])
Following(t) == t \in young \/ \E p \in Passes : <<t, p>> \in due

Init ==
  /\ tokens = [t \in Tokens |-> Absent] /\ stored = tokens
  /\ young = Live /\ due = {}
  /\ holderQueue = <<>> /\ flight = [i \in Slots |-> {}] /\ youngHolders = {}
  /\ mark = 1 /\ savedMark = 1
  /\ shows = 0 /\ fails = 0 /\ saves = 0 /\ crashes = 0 /\ upgrades = 0
  /\ gaveUp = {} /\ carried = {} /\ skipped = {}

-----------------------------------------------------------------------------
(* The ingest loops.                                                       *)

(* showPending: a young token over the entry line.                         *)
Show(t) ==
  /\ shows < MaxShows /\ shows' = shows + 1
  /\ t \in young /\ StatusOf(t) = "absent"
  /\ tokens' = [tokens EXCEPT ![t] = Uncounted("pending")]
  /\ UNCHANGED <<ingest, jobs, mark, files, fails, saves, crashes, upgrades, history>>

(* watch(): no market any more.  Young curves are not looked up.           *)
Hide(t) ==
  /\ StatusOf(t) = "pending" /\ t \notin young \cap Curves
  /\ tokens' = [tokens EXCEPT ![t] = Absent]
  /\ UNCHANGED <<ingest, jobs, mark, files, budget, history>>

(* dropStale: neither young nor in the slow queue.                         *)
DropStale(t) ==
  /\ StatusOf(t) = "pending" /\ ~Following(t)
  /\ tokens' = [tokens EXCEPT ![t] = Absent]
  /\ youngHolders' = youngHolders \ {t}
  /\ UNCHANGED <<ingest, holderQueue, flight, mark, files, budget, history>>

(* A live token turns 48h; a token that has its label already is not       *)
(* opened.  (Nor is one found under the line before a restart: opening it  *)
(* here only adds behaviours.)                                             *)
Mature(t) ==
  /\ t \in young
  /\ young' = young \ {t}
  /\ due' = due \cup (IF StatusOf(t) = "labelled" THEN {} ELSE {<<t, "live">>})
  /\ UNCHANGED <<tokens, jobs, mark, files, budget, history>>

(* A history pass takes its next step, unless historyWaits().              *)
HistoryWaits == Len(holderQueue) > Backlog
History(p) ==
  /\ ~HistoryWaits
  /\ \A t \in Tokens : <<t, p>> \notin due
  /\ \E S \in SUBSET {t \in Tokens : p \in Passed(t) /\ StatusOf(t) # "labelled"} :
       S # {} /\ due' = {<<t, p>> : t \in S} \cup due
  /\ UNCHANGED <<tokens, young, jobs, mark, files, budget, history>>

(* finish(): the label.  A watched token keeps the count it has.           *)
Counted(t) == StatusOf(t) = "pending" /\ HasCount(tokens[t])
Finish(t, p) ==
  /\ <<t, p>> \in due
  /\ due' = due \ {<<t, p>>}
  /\ tokens' = [tokens EXCEPT ![t] = IF Counted(t) THEN [@ EXCEPT !.status = "labelled"]
                                     ELSE Uncounted("labelled")]
  /\ holderQueue' = IF Counted(t) THEN holderQueue ELSE Append(holderQueue, NewJob(t))
  /\ UNCHANGED <<young, flight, youngHolders, mark, files, budget, history>>

(* ...or no label: under the entry line, or never traded.                  *)
Leave(t, p) ==
  /\ <<t, p>> \in due
  /\ due' = due \ {<<t, p>>}
  /\ tokens' = [tokens EXCEPT ![t] = IF @.status = "pending" THEN Absent ELSE @]
  /\ UNCHANGED <<young, jobs, mark, files, budget, history>>

Ingest == \/ \E t \in Tokens : Show(t) \/ Hide(t) \/ DropStale(t) \/ Mature(t)
          \/ \E t \in Tokens, p \in Passes : Finish(t, p) \/ Leave(t, p)
          \/ \E p \in {"backfill", "slow"} : History(p)

-----------------------------------------------------------------------------
(* The holder counts.                                                      *)

(* queueYoungHolders, for a watched token past the hour mark.              *)
QueueYoung(t) ==
  /\ t \in young \ youngHolders
  /\ StatusOf(t) = "pending" /\ Awaits(tokens[t])
  /\ youngHolders' = youngHolders \cup {t}
  /\ holderQueue' = <<NewJob(t)>> \o holderQueue
  /\ UNCHANGED <<tokens, ingest, flight, mark, files, budget, history>>

(* holdersBatch: the next jobs, once the whole batch before is done.       *)
TakeBatch ==
  /\ \A i \in Slots : flight[i] = {}
  /\ holderQueue # <<>>
  /\ LET n == Lower(Parallel, Len(holderQueue))
     IN  /\ flight' = [i \in Slots |-> IF i <= n THEN {holderQueue[i]} ELSE {}]
         /\ holderQueue' = SubSeq(holderQueue, n + 1, Len(holderQueue))
  /\ UNCHANGED <<tokens, ingest, youngHolders, mark, files, budget, history>>

(* The replay has every transfer, or some came before its range.  The      *)
(* mutant forgets an earlier count then.                                   *)
AsMissing(r) == [r EXCEPT !.missing = TRUE, !.partial = TRUE, !.mark = mark]
AsPartial(r) == [r EXCEPT !.partial = TRUE, !.mark = mark]
AsCounted(r) == [r EXCEPT !.missing = FALSE, !.partial = FALSE, !.mark = mark]
Replayed(i, j) ==
  /\ j \in flight[i] /\ j.token \notin Broken
  /\ flight' = [flight EXCEPT ![i] = {}]
  /\ \E r \in {AsCounted(tokens[j.token]), AsPartial(tokens[j.token])} :
       tokens' = IF StatusOf(j.token) = "absent" THEN tokens ELSE [tokens EXCEPT ![j.token] = r]
  /\ UNCHANGED <<ingest, holderQueue, youngHolders, mark, files, budget, history>>

(* The lookup fails: again later, at the back, or never.  The mutants      *)
(* do not count the tries, put the job back in front, and keep a watched   *)
(* token from being queued again.                                          *)
MayRetry(j) == j.tries + 1 < MaxTries
SameTry(j) == j
NextTry(j) == [j EXCEPT !.tries = @ + 1]
BackInFront(j) == <<NextTry(j)>> \o holderQueue
BackInLine(j) == Append(holderQueue, NextTry(j))
StillYoung(t) == youngHolders
NoLongerYoung(t) == youngHolders \ {t}
LookupFails(i, j) ==
  /\ j \in flight[i]
  /\ IF j.token \in Broken THEN UNCHANGED fails ELSE fails < MaxFails /\ fails' = fails + 1
  /\ flight' = [flight EXCEPT ![i] = {}]
  /\ IF MayRetry(j)
     THEN holderQueue' = BackInLine(j) /\ UNCHANGED <<youngHolders, gaveUp>>
     ELSE /\ youngHolders' = NoLongerYoung(j.token)
          /\ gaveUp' = gaveUp \cup {j.token}
          /\ UNCHANGED holderQueue
  /\ UNCHANGED <<tokens, ingest, mark, files, shows, saves, crashes, upgrades, carried, skipped>>

JobEnds == \E i \in Slots : \E j \in flight[i] : Replayed(i, j) \/ LookupFails(i, j)
Count == \/ \E t \in Tokens : QueueYoung(t)
         \/ TakeBatch \/ JobEnds

-----------------------------------------------------------------------------
(* state.json, every 30 seconds and when the process is told to stop.      *)
SaveState ==
  /\ saves < MaxSaves /\ saves' = saves + 1
  /\ stored' = tokens
  /\ UNCHANGED <<tokens, ingest, jobs, mark, savedMark, shows, fails, crashes, upgrades, history>>

(* init(): counts taken at another hour mark than the program's are taken  *)
(* again; the mutant leaves out the ones that were incomplete.             *)
RecountKnown(r) == r.status = "labelled" /\ ~r.missing
Recount(r) == r.status = "labelled" /\ HasCount(r)
Restored(m) == [t \in Tokens |-> IF m # savedMark /\ Recount(stored[t])
                                 THEN Uncounted("labelled") ELSE stored[t]]
(* ...and the labelled tokens without one are queued, in some order; the   *)
(* mutant picks them before the recount.                                   *)
Orderings(S) == {q \in [1..Cardinality(S) -> S] : \A x \in S : \E i \in 1..Cardinality(S) : q[i] = x}
RequeuedEarlier(r) == {NewJob(t) : t \in {u \in Tokens : stored[u].status = "labelled" /\ Awaits(stored[u])}}
Requeued(r) == {NewJob(t) : t \in {u \in Tokens : r[u].status = "labelled" /\ Awaits(r[u])}}

(* The process ends and starts again, perhaps with another hour mark.  The *)
(* live loop reads every waiting launch again, and may read finished ones. *)
Restart ==
  /\ crashes < MaxCrashes /\ crashes' = crashes + 1
  /\ \/ mark' = mark /\ UNCHANGED upgrades
     \/ upgrades < MaxUpgrades /\ upgrades' = upgrades + 1 /\ mark' = mark + 1
  /\ tokens' = Restored(mark')
  /\ savedMark' = mark'
  /\ \E q \in Orderings(Requeued(tokens')) : holderQueue' = q
  /\ flight' = [i \in Slots |-> {}] /\ youngHolders' = {} /\ due' = {}
  /\ \E again \in SUBSET {t \in Live : ~Following(t)} :
       young' = {t \in Live : Following(t)} \cup again
  /\ gaveUp' = {}
  /\ carried' = carried \cup {t \in Tokens : stored[t].status = "pending" /\ HasCount(stored[t])
                                             /\ mark' # savedMark}
  /\ skipped' = skipped \cup {t \in Tokens : Recount(stored[t]) /\ stored[t].mark # mark'
                                             /\ mark' = savedMark}
  /\ UNCHANGED <<stored, shows, fails, saves>>

Next == Ingest \/ Count \/ SaveState \/ Restart

Spec == Init /\ [][Next]_vars

(* The loop takes its next batch, and every request ends (it has a         *)
(* timeout).                                                               *)
Fairness == WF_vars(TakeBatch) /\ WF_vars(JobEnds)
FairSpec == Spec /\ Fairness

-----------------------------------------------------------------------------
TypeOK ==
  /\ tokens \in [Tokens -> Record] /\ stored \in [Tokens -> Record]
  /\ young \subseteq Live /\ due \subseteq Tokens \X Passes
  /\ holderQueue \in Seq(Job) /\ flight \in [Slots -> SUBSET Job]
  /\ youngHolders \subseteq Tokens
  /\ mark \in Nat /\ savedMark \in Nat
  /\ shows \in Nat /\ fails \in Nat /\ saves \in Nat /\ crashes \in Nat /\ upgrades \in Nat
  /\ gaveUp \subseteq Tokens /\ carried \subseteq Tokens /\ skipped \subseteq Tokens

HasJob(t) == \/ \E i \in DOMAIN holderQueue : holderQueue[i].token = t
             \/ \E i \in Slots : \E j \in flight[i] : j.token = t

(* A labelled token without a count has a job that will bring one, however *)
(* it was watched, hidden, labelled, counted and restarted before; unless  *)
(* its lookups failed too often.  (Agent.warmup reports those, too, as     *)
(* "holder counts still being replayed".)                                  *)
LabelledHasJob == \A t \in Tokens : Unresolved(t) => HasJob(t) \/ t \in gaveUp

(* The counts the model trains on were all taken at the same age: the hour *)
(* mark of the running program.  Two kinds of token are excepted, the ones *)
(* that were watched during an upgrade and the ones whose recount a crash  *)
(* undid.                                                                  *)
AtMark(t) == StatusOf(t) = "labelled" /\ HasCount(tokens[t]) => tokens[t].mark = mark
CountsAtOneMark == \A t \in Tokens \ (carried \cup skipped) : AtMark(t)

(* Once a token of one venue trains it keeps training: no late second job, *)
(* failed lookup or watch list update takes its count away.                *)
CountsStay ==
  [][crashes' = crashes =>
       \A t \in Tokens \ TwoVenues :
         StatusOf(t) = "labelled" /\ ~tokens[t].missing => ~(tokens'[t].missing)]_vars

(* youngHolders, "watched tokens whose 1h holder count is queued or        *)
(* taken": true of the curves, which stay on the watch list.               *)
QueuedOrTaken(t) == StatusOf(t) = "pending" => HasJob(t) \/ HasCount(tokens[t])
WatchedCurvesQueued == \A t \in youngHolders \cap Curves \cap young : QueuedOrTaken(t)

(* Every labelled token gets its count in the end.  Tokens whose lookups   *)
(* always fail, and which a later tick queues again ahead of the others,   *)
(* do not keep the loop from the rest.                                     *)
EveryLabelledCounted == \A t \in Tokens \ Broken : Unresolved(t) ~> ~Unresolved(t)

(* History does not wait for ever on a backlog of failing lookups.         *)
HistoryResumes == HistoryWaits ~> ~HistoryWaits
=============================================================================
