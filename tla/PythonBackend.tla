---------------------------- MODULE PythonBackend -----------------------------
(***************************************************************************)
(* The second implementation of the server: src/backend/wassily, its agent *)
(* (runtime/agent.py with engine/ledger.py and ideas.py), its sources      *)
(* (sources/chain.py, simulated.py) and its files (store/persistence.py).  *)
(*                                                                         *)
(* Two asyncio tasks share the agent.  The source reads launches forwards  *)
(* from the head and backwards through history, and labels those that are  *)
(* old enough; the agent trains in a thread, then publishes, logs and      *)
(* saves in one step.  The files are written at different times:           *)
(* chain.json after every round of the source, state.json only after a run *)
(* and at a stop.                                                          *)
(*                                                                         *)
(* A block is its own time.  Prices and holders are abstracted to whether  *)
(* a launch is kept; the model and its words to any set of allowed names.  *)
(* Appends to the log succeed.                                             *)
(***************************************************************************)
EXTENDS Integers, Sequences, FiniteSets, SequencesExt

CONSTANTS
  Tokens, NameOf, Names,
  Pools,      \* the launch events of the chain: [token, block, curve]
  Sampled,    \* in_sample: the tokens of history that are read
  Days,       \* BACKFILL_DAYS, in blocks; 0 for none
  Span, PerTick, Window,   \* SCAN_SPAN, DEX_PER_TICK, LABEL_SECONDS
  NPersonas, Vocabulary, Keep,
  FirstHead, MaxHead, MaxFails, MaxStops, MaxCrashes,   \* bounds of the model
  MaxRuns     \* its trainings, with the chain (TRUE) and with the simulated market

Personas == 1..NPersonas

PythonAssumption ==
  /\ NameOf \in [Tokens -> Names] /\ Sampled \subseteq Tokens
  /\ Pools \subseteq [token : Tokens, block : Nat \ {0}, curve : BOOLEAN]
  /\ \A p, q \in Pools : p.token = q.token /\ p.block = q.block => p = q
  /\ Vocabulary \in [Personas -> SUBSET Names]
  /\ {Days, Window, FirstHead, MaxHead, MaxFails, MaxStops, MaxCrashes} \subseteq Nat
  /\ {Span, PerTick, NPersonas, Keep} \subseteq Nat \ {0} /\ FirstHead > 0
  /\ MaxRuns \in [BOOLEAN -> Nat]

VARIABLES
  now,       \* the head of the chain
  live,      \* DATA_SOURCE: the chain or the simulated market
  source,    \* the source's task: what it awaits, the head of its tick, the launches it labels
  cursor, back, pending, known,      \* ChainSource; back is the BackfillProgress
  tokens,    \* Agent.tokens: a token's launch, 0 while it has no label
  ledgers, runId,
  training,  \* the run in the thread, and when it began
  chainFile, stateFile, log,         \* chain.json, state.json, commitments.jsonl
  fails, stops, crashes,
  \* History variables: read by the properties only.
  served,    \* rows a response has shown
  judged,    \* tokens measured and not kept: below the entry, or no token
  lost       \* labelled, and in neither file at a crash

chain == <<cursor, back, pending, known>>
agent == <<tokens, ledgers, runId>>
files == <<chainFile, stateFile, log>>
budgets == <<fails, stops, crashes>>
vars == <<now, live, source, chain, agent, training, files, budgets, served, judged, lost>>

-----------------------------------------------------------------------------
Untrained == [on |-> FALSE, at |-> 0]
Await(at, to, due) == [at |-> at, to |-> to, due |-> due]
Unread == [from |-> 0, to |-> 0, at |-> 0]
NoFile == [cursor |-> 0, back |-> Unread, pending |-> {}]
Resting == Await("live", 0, {})
Ready == source.at \notin {"init", "arrivals"}
Starting(isLive) == Await(IF isLive THEN "init" ELSE "arrivals", 0, {})
Snapshot == [tokens |-> tokens, ledgers |-> ledgers, runId |-> runId]
Empty == [tokens |-> [t \in Tokens |-> 0], runId |-> 0,
          ledgers |-> [p \in Personas |-> [cycles |-> <<>>, stolen |-> {}]]]

Init ==
  /\ now = FirstHead /\ live \in BOOLEAN /\ source = Starting(live)
  /\ cursor = 0 /\ back = Unread /\ pending = {} /\ known = {}
  /\ tokens = Empty.tokens /\ ledgers = Empty.ledgers /\ runId = 0 /\ training = Untrained
  /\ chainFile = NoFile /\ stateFile = Empty /\ log = {}
  /\ fails = 0 /\ stops = 0 /\ crashes = 0
  /\ served = {} /\ judged = {} /\ lost = {}

(* Time passes, and with it the head of the chain.                         *)
Mine ==
  /\ now < MaxHead /\ now' = now + 1
  /\ UNCHANGED <<live, source, chain, agent, training, files, budgets, served, judged, lost>>

-----------------------------------------------------------------------------
(* Agent.upsert and the ledger's record of thefts.                         *)

Holding(l, n) == {i \in DOMAIN l.cycles : n \in l.cycles[i].names}
(* find_committed: the earliest kept cycle, of a name not yet taken.       *)
Stolen(l, n, launched) ==
  /\ n \notin l.stolen /\ Holding(l, n) # {}
  /\ \E i \in Holding(l, n) : (\A j \in Holding(l, n) : i <= j) /\ launched > l.cycles[i].at
Upsert(t, launched) ==
  /\ tokens' = [tokens EXCEPT ![t] = launched]
  /\ ledgers' = [p \in Personas |->
       IF tokens[t] = 0 /\ Stolen(ledgers[p], NameOf[t], launched)
       THEN [ledgers[p] EXCEPT !.stolen = @ \cup {NameOf[t]}] ELSE ledgers[p]]

-----------------------------------------------------------------------------
(* ChainSource.                                                            *)

Position == [cursor |-> cursor, back |-> back, pending |-> pending]
Waiting == {p.token : p \in pending}

(* init: resume from chain.json, or begin at the head and look Days back.  *)
BeginAt(head) ==
  [cursor |-> head, pending |-> {},
   back |-> [from |-> IF Days = 0 THEN head + 1 ELSE Max({1, head - Days}), to |-> head, at |-> head]]
InitSource ==
  /\ source.at = "init"
  /\ LET from == IF chainFile = NoFile THEN BeginAt(now) ELSE chainFile IN
     /\ cursor' = from.cursor /\ back' = from.back /\ pending' = from.pending
     /\ known' = {t \in Tokens : tokens[t] # 0} \cup {p.token : p \in from.pending}
  /\ source' = Resting
  /\ UNCHANGED <<now, live, agent, training, files, budgets, served, judged, lost>>

(* launches and _admit: of a token not known yet, its first pool in the    *)
(* range; of history, the sampled tokens only.                             *)
Between(first, last) == {p \in Pools : p.block \in first..last}
Admit(found) ==
  LET new == {p \in found : /\ p.token \notin known
                            /\ \A q \in found : q.token = p.token => p.block <= q.block} IN
  pending' = pending \cup new /\ known' = known \cup {p.token : p \in new}

(* label_due: all curves that are old enough, and so many of the others,   *)
(* the newest of them.                                                     *)
Others(due) == {p \in due : ~p.curve}
Labels(waiting) == LET due == {p \in waiting : now >= p.block + Window} IN
  {some \in SUBSET due :
     /\ due \ Others(due) \subseteq some
     /\ Cardinality(Others(some)) = Min({PerTick, Cardinality(Others(due))})
     /\ \A p \in Others(some), q \in due \ some : p.block >= q.block}
(* The order it labels them in: curves first, then the newest.             *)
Before(p, q) == IF p.curve = q.curve THEN p.block > q.block ELSE p.curve

(* The end of a round, and the round's last stage, which awaits nothing    *)
(* when no launch is due.                                                  *)
Save == chainFile' = Position' /\ source' = Resting
BeginLabel == \E due \in Labels(pending') :
  IF due = {} THEN Save ELSE source' = Await("label", 0, due) /\ UNCHANGED chainFile
Done(b) == b.at < b.from
BeginBackfill ==
  IF Done(back) THEN BeginLabel ELSE source' = Await("back", 0, {}) /\ UNCHANGED chainFile

(* live_tick: the head, then one range of blocks after the other.          *)
LiveTick ==
  /\ source.at = "live" /\ UNCHANGED chain
  /\ IF cursor < now THEN source' = Await("scan", now, {}) /\ UNCHANGED chainFile ELSE BeginBackfill
  /\ UNCHANGED <<now, live, agent, training, stateFile, log, budgets, served, judged, lost>>
LiveScan ==
  /\ source.at = "scan"
  /\ LET end == Min({source.to, cursor + Span}) IN
     /\ Admit(Between(cursor + 1, end)) /\ cursor' = end /\ UNCHANGED back
     /\ IF end < source.to THEN UNCHANGED <<source, chainFile>> ELSE BeginBackfill
  /\ UNCHANGED <<now, live, agent, training, stateFile, log, budgets, served, judged, lost>>

(* backfill_step: one range, walking down.                                 *)
Backfill ==
  /\ source.at = "back"
  /\ LET start == Max({back.from, back.at - Span + 1}) IN
     /\ Admit({p \in Between(start, back.at) : p.token \in Sampled})
     /\ back' = [back EXCEPT !.at = start - 1] /\ UNCHANGED cursor
     /\ BeginLabel
  /\ UNCHANGED <<now, live, agent, training, stateFile, log, budgets, served, judged, lost>>

(* _finish, from its last await on: a launch that is measured leaves the   *)
(* pending ones, for the agent or for good.                                *)
NextLaunch(p) == LET rest == source.due \ {p} IN
  IF rest = {} THEN Save ELSE source' = [source EXCEPT !.due = rest] /\ UNCHANGED chainFile
(* MUTANT: a launch that is not kept stays pending.                        *)
FinishKeepsPending(p) ==
  /\ source.at = "label" /\ \A q \in source.due : ~Before(q, p)
  /\ \/ pending' = pending \ {p} /\ Upsert(p.token, p.block) /\ UNCHANGED judged
     \/ UNCHANGED <<pending, tokens, ledgers>> /\ judged' = judged \cup {p.token}
  /\ UNCHANGED <<cursor, back, known>> /\ NextLaunch(p)
  /\ UNCHANGED <<now, live, runId, training, stateFile, log, budgets, served, lost>>
Finish(p) ==
  /\ source.at = "label" /\ \A q \in source.due : ~Before(q, p)
  /\ pending' = pending \ {p}
  /\ \/ Upsert(p.token, p.block) /\ UNCHANGED judged
     \/ judged' = judged \cup {p.token} /\ UNCHANGED <<tokens, ledgers>>
  /\ UNCHANGED <<cursor, back, known>> /\ NextLaunch(p)
  /\ UNCHANGED <<now, live, runId, training, stateFile, log, budgets, served, lost>>

(* _guard: a stage that fails is left where it is, and the next one runs.  *)
(* MUTANT: a range that could not be read is passed over.                  *)
FailsPast ==
  /\ source.at \in {"scan", "back", "label"} /\ fails < MaxFails /\ fails' = fails + 1
  /\ cursor' = IF source.at = "scan" THEN source.to ELSE cursor
  /\ UNCHANGED <<back, pending, known>>
  /\ CASE source.at = "scan" -> BeginBackfill
       [] source.at = "back" -> BeginLabel
       [] OTHER -> Save
  /\ UNCHANGED <<now, live, agent, training, stateFile, log, stops, crashes, served, judged, lost>>
Fails ==
  /\ source.at \in {"live", "scan", "back", "label"} /\ fails < MaxFails /\ fails' = fails + 1
  /\ UNCHANGED chain
  /\ CASE source.at \in {"live", "scan"} -> BeginBackfill
       [] source.at = "back" -> BeginLabel
       [] OTHER -> Save
  /\ UNCHANGED <<now, live, agent, training, stateFile, log, stops, crashes, served, judged, lost>>

(* SimulatedSource: a token that reaches its label now, and was launched   *)
(* before its window.                                                      *)
Arrive(t) ==
  /\ source.at = "arrivals" /\ tokens[t] = 0
  /\ \E launched \in 1..now - Window : Upsert(t, launched)
  /\ UNCHANGED <<now, live, source, chain, runId, training, files, budgets, served, judged, lost>>

-----------------------------------------------------------------------------
(* Agent.                                                                  *)

(* retrain: the rows are copied and the time noted before the thread.      *)
Train ==
  /\ ~training.on /\ runId < MaxRuns[live]
  /\ training' = [on |-> TRUE, at |-> now] /\ runId' = runId + 1
  /\ UNCHANGED <<now, live, source, chain, tokens, ledgers, files, budgets, served, judged, lost>>
TrainFails ==
  /\ training.on /\ training' = Untrained
  /\ UNCHANGED <<now, live, source, chain, agent, files, budgets, served, judged, lost>>

(* generate_cycle: a name that is deployed by now is rejected, a taken one *)
(* excluded.                                                               *)
Deployed == {NameOf[t] : t \in {u \in Tokens : tokens[u] # 0}}
(* MUTANT: only taken names are left out.                                  *)
AllowedButTaken(p) == Vocabulary[p] \ ledgers[p].stolen
Allowed(p) == (Vocabulary[p] \ Deployed) \ ledgers[p].stolen
Cycles == {cycle \in [Personas -> SUBSET Names] : \A p \in Personas : cycle[p] \subseteq Allowed(p)}

Published(l, names) ==
  LET cycles == Append(l.cycles, [at |-> training.at, names |-> names]) IN
  [l EXCEPT !.cycles = IF Len(cycles) > Keep THEN Tail(cycles) ELSE cycles]
Rows(p, c) == [persona : {p}, at : {c.at}, name : c.names]
Logged(cycle, last) == UNION {Rows(p, [at |-> training.at, names |-> cycle[p]]) : p \in 1..last}

(* commit_run: publish and log for every persona, then save.               *)
CommitRun ==
  /\ training.on /\ training' = Untrained
  /\ \E cycle \in Cycles :
       /\ ledgers' = [p \in Personas |-> Published(ledgers[p], cycle[p])]
       /\ log' = log \cup Logged(cycle, NPersonas)
  /\ UNCHANGED <<tokens, runId, chainFile>>
  /\ stateFile' = Snapshot'
  /\ UNCHANGED <<now, live, source, chain, budgets, served, judged, lost>>

Shown(p, l) == UNION {Rows(p, l.cycles[i]) : i \in DOMAIN l.cycles}
(* GET /api/ideas/current and cycle.                                       *)
Serve(p) ==
  /\ served' = served \cup Shown(p, ledgers[p])
  /\ UNCHANGED <<now, live, source, chain, agent, training, files, budgets, judged, lost>>

-----------------------------------------------------------------------------
(* The end of the process, and the next one.                               *)

(* Runtime.start: the agent is restored; the source's own file is read     *)
(* when it is ready.                                                       *)
Boot(state) ==
  /\ tokens' = state.tokens /\ ledgers' = state.ledgers /\ runId' = state.runId
  /\ training' = Untrained /\ source' = Starting(live)
  /\ cursor' = 0 /\ back' = Unread /\ pending' = {} /\ known' = {}

Labelled(state) == {t \in Tokens : state.tokens[t] # 0}
Read(f, p) ==
  \/ p.block \in f.back.to + 1..f.cursor
  \/ p.block \in Max({f.back.from, f.back.at + 1})..f.back.to /\ p.token \in Sampled
(* A label only memory had, of a launch that will not be read again.       *)
Gone == {p.token : p \in {q \in Pools : Read(chainFile, q) /\ q \notin chainFile.pending}}
          \cap (Labelled(Snapshot) \ Labelled(stateFile))
Ends == Boot(stateFile) /\ lost' = lost \cup Gone /\ UNCHANGED <<now, live, chainFile, stateFile, served, judged>>

Crash ==
  /\ crashes < MaxCrashes /\ crashes' = crashes + 1
  /\ Ends /\ UNCHANGED <<log, fails, stops>>
(* MUTANT: the state is saved first, and the process ends before the log   *)
(* is written.                                                             *)
KilledAfterSave(k) ==
  /\ training.on /\ crashes < MaxCrashes /\ crashes' = crashes + 1
  /\ \E cycle \in Cycles :
       LET saved == [Snapshot EXCEPT !.ledgers = [p \in Personas |->
                       IF p <= k THEN Published(ledgers[p], cycle[p]) ELSE ledgers[p]]]
       IN Boot(saved) /\ stateFile' = saved
  /\ UNCHANGED <<now, live, chainFile, log, fails, stops, served, judged, lost>>
(* The process ends in commit_run, after k personas' commitments.          *)
KilledInRun(k) ==
  /\ training.on /\ crashes < MaxCrashes /\ crashes' = crashes + 1
  /\ \E cycle \in Cycles : log' = log \cup Logged(cycle, k)
  /\ Ends /\ UNCHANGED <<fails, stops>>

(* Runtime.stop: the source's task is cancelled where it awaits, then the  *)
(* agent's; each saves its file.                                           *)
StopSource ==
  /\ stops < MaxStops /\ stops' = stops + 1 /\ source.at # "stopped"
  /\ chainFile' = IF Ready THEN Position ELSE chainFile
  /\ source' = Await("stopped", 0, {})
  /\ UNCHANGED <<now, live, chain, agent, training, stateFile, log, fails, crashes, served, judged, lost>>
StopAgent ==
  /\ source.at = "stopped"
  /\ stateFile' = Snapshot /\ Boot(Snapshot)
  /\ UNCHANGED <<now, live, chainFile, log, budgets, served, judged, lost>>

Source == InitSource \/ LiveTick \/ LiveScan \/ Backfill \/ \E p \in source.due : Finish(p)
Next ==
  \/ Mine \/ Source \/ Fails \/ Train \/ TrainFails \/ CommitRun
  \/ Crash \/ StopSource \/ StopAgent
  \/ \E t \in Tokens : Arrive(t)
  \/ \E p \in Personas : Serve(p) \/ KilledInRun(p)

Spec == Init /\ [][Next]_vars
(* The tasks go on, blocks are mined, a stop comes to its end.             *)
Fairness == WF_vars(Mine) /\ WF_vars(Source) /\ WF_vars(StopAgent)

-----------------------------------------------------------------------------
(* What the source has read is pending, labelled, measured and not kept,   *)
(* or among the labels a crash between the two files took, whatever fails, *)
(* stops or ends (live_tick, backfill_step, label_due, _save, _restore).   *)
LaunchesKept ==
  Ready /\ source.at # "stopped" =>
    \A p \in Pools : Read(Position, p) => p.token \in Waiting \cup Labelled(Snapshot) \cup judged \cup lost

(* Of finitely many launches each that waits for its label gets an answer, *)
(* although every stage may fail, more may be due than a round looks up,   *)
(* and the newest come first (label_due, _finish).  While more become due  *)
(* than the rounds look up, the older ones wait.                           *)
LaunchesAnswered == \A t \in Tokens : t \in Waiting ~> t \notin Waiting

(* A labelled token that was launched after its name was committed in a    *)
(* cycle still kept is recorded as a theft, although tokens arrive while   *)
(* the thread trains and cycles are dated by its start (_check_theft,      *)
(* retrain, commit_run).                                                   *)
TheftsNoted ==
  \A p \in Personas, t \in Labelled(Snapshot) : \A i \in DOMAIN ledgers[p].cycles :
    LET c == ledgers[p].cycles[i] IN
    NameOf[t] \in c.names /\ tokens[t] > c.at => NameOf[t] \in ledgers[p].stolen

(* The second implementation keeps the promise of CommitReveal too: nothing*)
(* is shown before it is in the log, the log only grows, and a name that   *)
(* state.json knows as taken is not committed again.                       *)
Promise == INSTANCE CommitReveal WITH
  committed <- log, revealed <- served,
  retired <- UNION {{p} \X stateFile.ledgers[p].stolen : p \in Personas}
KeepsPromise == Promise!Spec
=============================================================================
