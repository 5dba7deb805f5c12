----------------------------- MODULE PythonProofs -----------------------------
(***************************************************************************)
(* Proofs about PythonBackend, for any chain, sample, personas, names and  *)
(* bounds: what the source has read is kept, thefts are recorded, and it   *)
(* implements CommitReveal; and about Servers, where it stands beside the  *)
(* node server.                                                            *)
(***************************************************************************)
EXTENDS Servers, TLAPS, SequenceTheorems, FiniteSetTheorems, WellFoundedInduction

-----------------------------------------------------------------------------
(* Types.                                                                  *)

Cycle == [at : Nat, names : SUBSET Names]
Ledger == [cycles : Seq(Cycle), stolen : SUBSET Names]
State == [tokens : [Tokens -> Nat], ledgers : [Personas -> Ledger], runId : Nat]
Place == [cursor : Int, back : [from : Int, to : Int, at : Int], pending : SUBSET Pools]
Stage == [at : {"init", "arrivals", "live", "scan", "back", "label", "stopped"}, to : Int, due : SUBSET Pools]

TypeOK ==
  /\ now \in Nat /\ live \in BOOLEAN /\ source \in Stage /\ training \in [on : BOOLEAN, at : Nat]
  /\ cursor \in Int /\ back \in [from : Int, to : Int, at : Int] /\ pending \in SUBSET Pools
  /\ tokens \in [Tokens -> Nat] /\ ledgers \in [Personas -> Ledger] /\ runId \in Nat
  /\ chainFile \in Place /\ stateFile \in State
  /\ known \subseteq Tokens /\ judged \subseteq Tokens

(* Of a set of numbers that is not empty, one is the least.                *)
LEMMA LeastExists ==
  ASSUME NEW S \in SUBSET Nat, S # {}
  PROVE  \E i \in S : \A j \in S : i <= j
<1>1. PICK i \in S : \A j \in S : ~ (<<j, i>> \in OpToRel(<, Nat))
  BY NatLessThanWellFounded, WFMin
<1>2. ASSUME NEW j \in S, j < i PROVE FALSE
  <2>1. <<j, i>> \in OpToRel(<, Nat)
    BY <1>2 DEF OpToRel
  <2> QED BY <1>1, <2>1, Zenon
<1> QED BY <1>2

-----------------------------------------------------------------------------
LEMMA Constants ==
  ASSUME PythonAssumption
  PROVE  /\ NPersonas \in Nat /\ Keep \in Nat /\ Span \in Nat /\ Span > 0 /\ Days \in Nat /\ FirstHead \in Nat /\ Window \in Nat
         /\ \A p \in Pools : p.token \in Tokens /\ p.block \in Nat /\ p.block > 0
         /\ \A p, q \in Pools : p.token = q.token /\ p.block = q.block => p = q
         /\ \A t \in Tokens : NameOf[t] \in Names
<1>1. Pools \subseteq [token : Tokens, block : Nat \ {0}, curve : BOOLEAN]
  BY DEF PythonAssumption
<1>2. \A p \in Pools : p.token \in Tokens /\ p.block \in Nat /\ p.block > 0
  BY <1>1
<1>3. NPersonas \in Nat /\ Keep \in Nat /\ Span \in Nat /\ Span > 0 /\ Days \in Nat /\ FirstHead \in Nat /\ Window \in Nat
  BY DEF PythonAssumption
<1> QED BY <1>2, <1>3 DEF PythonAssumption

LEMMA MaxOfTwo ==
  ASSUME NEW a \in Int, NEW b \in Int
  PROVE  /\ Max({a, b}) \in Int /\ Max({a, b}) \in {a, b} /\ a <= Max({a, b}) /\ b <= Max({a, b})
         /\ Min({a, b}) \in Int /\ Min({a, b}) \in {a, b} /\ Min({a, b}) <= a /\ Min({a, b}) <= b
<1>1. (\A y \in {a, b} : a >= y) \/ (\A y \in {a, b} : b >= y)
  OBVIOUS
<1>2. (\A y \in {a, b} : a <= y) \/ (\A y \in {a, b} : b <= y)
  OBVIOUS
<1>3. \E x \in {a, b} : \A y \in {a, b} : x >= y
  BY <1>1
<1>4. \E x \in {a, b} : \A y \in {a, b} : x <= y
  BY <1>2
<1>5. Max({a, b}) \in {a, b} /\ \A y \in {a, b} : Max({a, b}) >= y
  BY <1>3 DEF Max
<1>6. Min({a, b}) \in {a, b} /\ \A y \in {a, b} : Min({a, b}) <= y
  BY <1>4 DEF Min
<1> QED BY <1>5, <1>6

(* What a stage leaves to do: the round goes on, or is over and saved.     *)
LEMMA RoundGoesOn ==
  ASSUME TypeOK, pending' \in SUBSET Pools, Save \/ BeginLabel \/ BeginBackfill
  PROVE  /\ source' \in Stage /\ source'.at \in {"live", "back", "label"}
         /\ chainFile' = chainFile \/ chainFile' = Position'
<1>1. ASSUME Save PROVE source' \in Stage /\ source'.at = "live" /\ chainFile' = Position'
  BY <1>1 DEF Save, Resting, Await, Stage
<1>2. ASSUME BeginLabel PROVE /\ source' \in Stage /\ source'.at \in {"live", "label"}
                              /\ chainFile' = chainFile \/ chainFile' = Position'
  <2>1. PICK due \in Labels(pending') :
          IF due = {} THEN Save ELSE source' = Await("label", 0, due) /\ UNCHANGED chainFile
    BY <1>2 DEF BeginLabel
  <2>2. due \in SUBSET Pools
    BY <2>1 DEF Labels
  <2> QED BY <1>1, <2>1, <2>2 DEF Await, Stage
<1>3. ASSUME BeginBackfill PROVE /\ source' \in Stage /\ source'.at \in {"live", "back", "label"}
                                 /\ chainFile' = chainFile \/ chainFile' = Position'
  BY <1>2, <1>3 DEF BeginBackfill, Await, Stage
<1> QED BY <1>1, <1>2, <1>3

LEMMA NextLaunchFacts ==
  ASSUME TypeOK, source.at = "label", NEW p, NextLaunch(p)
  PROVE  /\ source' \in Stage /\ source'.at \in {"live", "label"}
         /\ chainFile' = chainFile \/ chainFile' = Position'
BY DEF NextLaunch, Save, Resting, Await, Stage, TypeOK

LEMMA PublishedType ==
  ASSUME PythonAssumption, TypeOK, NEW l \in Ledger, NEW names \in SUBSET Names
  PROVE  Published(l, names) \in Ledger /\ Published(l, names).stolen = l.stolen
<1> DEFINE c == [at |-> training.at, names |-> names]
           cs == Append(l.cycles, c)
<1>1. c \in Cycle /\ l.cycles \in Seq(Cycle)
  BY DEF Cycle, Ledger, TypeOK
<1>2. cs \in Seq(Cycle) /\ Len(cs) = Len(l.cycles) + 1
  BY <1>1, AppendProperties
<1>3. cs # <<>>
  BY <1>1, AppendProperties
<1>4. Tail(cs) \in Seq(Cycle)
  BY <1>2, <1>3, HeadTailProperties
<1>5. Published(l, names) = [l EXCEPT !.cycles = IF Len(cs) > Keep THEN Tail(cs) ELSE cs]
  BY DEF Published
<1> HIDE DEF cs
<1> QED BY <1>2, <1>4, <1>5 DEF Ledger

LEMMA UpsertType ==
  ASSUME PythonAssumption, TypeOK, NEW t \in Tokens, NEW launched \in Nat, Upsert(t, launched)
  PROVE  /\ tokens' \in [Tokens -> Nat] /\ ledgers' \in [Personas -> Ledger]
         /\ \A p \in Personas : ledgers'[p].cycles = ledgers[p].cycles /\ ledgers[p].stolen \subseteq ledgers'[p].stolen
<1>1. NameOf[t] \in Names
  BY Constants
<1>2. ASSUME NEW p \in Personas
      PROVE  /\ ledgers'[p] \in Ledger
             /\ ledgers'[p].cycles = ledgers[p].cycles /\ ledgers[p].stolen \subseteq ledgers'[p].stolen
  <2>1. ledgers'[p] = IF tokens[t] = 0 /\ Stolen(ledgers[p], NameOf[t], launched)
                      THEN [ledgers[p] EXCEPT !.stolen = @ \cup {NameOf[t]}] ELSE ledgers[p]
    BY DEF Upsert
  <2>2. ledgers[p] \in Ledger
    BY DEF TypeOK
  <2> QED BY <1>1, <2>1, <2>2 DEF Ledger
<1>3. ledgers' = [p \in Personas |-> ledgers'[p]]
  BY DEF Upsert
<1>4. tokens' \in [Tokens -> Nat]
  BY DEF Upsert, TypeOK
<1> QED BY <1>2, <1>3, <1>4

LEMMA AdmitType ==
  ASSUME PythonAssumption, TypeOK, NEW found \in SUBSET Pools, Admit(found)
  PROVE  pending' \in SUBSET Pools /\ known' \subseteq Tokens
BY Constants DEF Admit, TypeOK

LEMMA TypeInit == ASSUME PythonAssumption, Init PROVE TypeOK
<1>1. <<>> \in Seq(Cycle)
  BY EmptySeq
<1>2. Empty \in State
  BY <1>1 DEF Empty, State, Ledger
<1>3. NoFile \in Place /\ Unread \in [from : Int, to : Int, at : Int]
  BY DEF NoFile, Unread, Place
<1>4. source \in Stage /\ training \in [on : BOOLEAN, at : Nat]
  BY DEF Init, Starting, Await, Stage, Untrained
<1>5. FirstHead \in Nat
  BY Constants
<1>6. tokens \in [Tokens -> Nat] /\ ledgers \in [Personas -> Ledger]
  BY <1>2 DEF Init, State
<1> QED BY <1>2, <1>3, <1>4, <1>5, <1>6 DEF Init, TypeOK

LEMMA BootType ==
  ASSUME TypeOK, NEW state \in State, Boot(state), UNCHANGED <<now, live, judged>>,
         chainFile' \in Place, stateFile' \in State
  PROVE  TypeOK'
<1>1. source' \in Stage /\ training' \in [on : BOOLEAN, at : Nat]
  BY DEF Boot, Starting, Await, Stage, Untrained
<1>2. tokens' \in [Tokens -> Nat] /\ ledgers' \in [Personas -> Ledger] /\ runId' \in Nat
  BY DEF Boot, State
<1>3. cursor' \in Int /\ back' \in [from : Int, to : Int, at : Int] /\ pending' \in SUBSET Pools /\ known' \subseteq Tokens
  BY DEF Boot, Unread
<1> QED BY <1>1, <1>2, <1>3 DEF TypeOK

LEMMA SnapshotType == ASSUME TypeOK PROVE Snapshot \in State
BY DEF TypeOK, Snapshot, State

LEMMA PositionType == ASSUME TypeOK PROVE Position \in Place
BY DEF TypeOK, Position, Place

(* A step of the chain's source that keeps the files or saves chain.json.  *)
LEMMA SourceType ==
  ASSUME TypeOK, source' \in Stage, chainFile' = chainFile \/ chainFile' = Position',
         cursor' \in Int, back' \in [from : Int, to : Int, at : Int], pending' \in SUBSET Pools,
         known' \subseteq Tokens, judged' \subseteq Tokens, tokens' \in [Tokens -> Nat],
         ledgers' \in [Personas -> Ledger], UNCHANGED <<now, live, runId, training, stateFile>>
  PROVE  TypeOK'
<1>1. Position' \in Place
  BY DEF Position, Place
<1> QED BY <1>1 DEF TypeOK

LEMMA TypeStep ==
  ASSUME PythonAssumption, TypeOK, [Next]_vars
  PROVE  TypeOK'
<1>1. CASE Mine
  BY <1>1 DEF Mine, TypeOK, chain, agent, files
<1>2. CASE InitSource
  <2>1. BeginAt(now) \in Place
    <3>1. now \in Nat /\ Days \in Nat
      BY Constants DEF TypeOK
    <3>2. 1 \in Int /\ now - Days \in Int
      BY <3>1
    <3>3. Max({1, now - Days}) \in Int
      BY ONLY <3>2, MaxOfTwo
    <3> QED BY <3>1, <3>3 DEF BeginAt, Place
  <2>2. PICK from \in Place : cursor' = from.cursor /\ back' = from.back /\ pending' = from.pending
                              /\ known' = {t \in Tokens : tokens[t] # 0} \cup {p.token : p \in from.pending}
    BY <1>2, <2>1 DEF InitSource, TypeOK
  <2>3. source' \in Stage
    BY <1>2 DEF InitSource, Resting, Await, Stage
  <2>4. known' \subseteq Tokens /\ cursor' \in Int /\ back' \in [from : Int, to : Int, at : Int] /\ pending' \in SUBSET Pools
    BY <2>2, Constants DEF Place
  <2> QED BY <1>2, <2>3, <2>4 DEF InitSource, TypeOK, agent, files
<1>3. CASE LiveTick
  <2>1. source' \in Stage /\ (chainFile' = chainFile \/ chainFile' = Position') /\ UNCHANGED chain
    <3>1. CASE cursor < now
      BY <1>3, <3>1 DEF LiveTick, Await, Stage, TypeOK
    <3>2. CASE ~ (cursor < now)
      BY <1>3, <3>2, RoundGoesOn DEF LiveTick, TypeOK, chain
    <3> QED BY <3>1, <3>2, <1>3 DEF LiveTick
  <2> QED BY <1>3, <2>1, SourceType DEF LiveTick, TypeOK, chain, agent
<1>4. CASE LiveScan
  <2> DEFINE end == Min({source.to, cursor + Span})
  <2>1. end \in Int
    <3>1. source.to \in Int /\ cursor + Span \in Int
      BY Constants DEF TypeOK, Stage
    <3> QED BY ONLY <3>1, MaxOfTwo
  <2>2. pending' \in SUBSET Pools /\ known' \subseteq Tokens
    BY <1>4, AdmitType DEF LiveScan, Between
  <2>3. source' \in Stage /\ (chainFile' = chainFile \/ chainFile' = Position')
    <3>1. CASE end < source.to
      <4>1. UNCHANGED <<source, chainFile>>
        BY <1>4, <3>1 DEF LiveScan
      <4> QED BY <4>1 DEF TypeOK
    <3>2. CASE ~ (end < source.to)
      BY <1>4, <2>2, <3>2, RoundGoesOn DEF LiveScan
    <3> QED BY <3>1, <3>2
  <2> QED BY <1>4, <2>1, <2>2, <2>3, SourceType DEF LiveScan, TypeOK, agent
<1>5. CASE Backfill
  <2> DEFINE start == Max({back.from, back.at - Span + 1})
  <2>1. start - 1 \in Int
    <3>1. back.from \in Int /\ back.at - Span + 1 \in Int
      BY Constants DEF TypeOK
    <3>2. start \in Int
      BY ONLY <3>1, MaxOfTwo
    <3> QED BY <3>2
  <2>2. pending' \in SUBSET Pools /\ known' \subseteq Tokens
    BY <1>5, AdmitType DEF Backfill, Between
  <2>3. source' \in Stage /\ (chainFile' = chainFile \/ chainFile' = Position')
    BY <1>5, <2>2, RoundGoesOn DEF Backfill
  <2>4. back' \in [from : Int, to : Int, at : Int]
    BY <1>5, <2>1 DEF Backfill, TypeOK
  <2> QED BY <1>5, <2>2, <2>3, <2>4, SourceType DEF Backfill, TypeOK, agent
<1>6. ASSUME NEW p \in source.due, Finish(p) PROVE TypeOK'
  <2>1. p \in Pools /\ p.token \in Tokens /\ p.block \in Nat
    BY Constants DEF TypeOK, Stage
  <2>2. /\ tokens' \in [Tokens -> Nat] /\ ledgers' \in [Personas -> Ledger] /\ judged' \subseteq Tokens
    BY <1>6, <2>1, UpsertType DEF Finish, TypeOK
  <2>3. source' \in Stage /\ (chainFile' = chainFile \/ chainFile' = Position')
    BY <1>6, NextLaunchFacts DEF Finish
  <2>4. pending' \in SUBSET Pools /\ UNCHANGED <<now, live, runId, training, stateFile, cursor, back, known>>
    BY <1>6 DEF Finish, TypeOK
  <2>5. cursor \in Int /\ back \in [from : Int, to : Int, at : Int] /\ known \subseteq Tokens
    BY DEF TypeOK
  <2> QED BY <2>2, <2>3, <2>4, <2>5, SourceType
<1>7. CASE Fails
  <2>1. UNCHANGED chain /\ pending' \in SUBSET Pools
    BY <1>7 DEF Fails, chain, TypeOK
  <2>2. source' \in Stage /\ (chainFile' = chainFile \/ chainFile' = Position')
    BY <1>7, <2>1, RoundGoesOn DEF Fails
  <2>3. UNCHANGED <<now, live, tokens, ledgers, runId, training, stateFile, judged>>
    BY <1>7 DEF Fails, agent
  <2> QED BY <2>1, <2>2, <2>3, SourceType DEF TypeOK, chain
<1>8. CASE Train
  BY <1>8 DEF Train, TypeOK, chain, files
<1>9. CASE TrainFails
  BY <1>9 DEF TrainFails, TypeOK, chain, agent, files, Untrained
<1>10. CASE CommitRun
  <2>1. PICK cycle \in Cycles : ledgers' = [p \in Personas |-> Published(ledgers[p], cycle[p])]
    BY <1>10 DEF CommitRun
  <2>2. ledgers' \in [Personas -> Ledger]
    <3>1. \A p \in Personas : cycle[p] \in SUBSET Names /\ ledgers[p] \in Ledger
      BY DEF Cycles, TypeOK
    <3> QED BY <2>1, <3>1, PublishedType
  <2>3. UNCHANGED <<now, live, source, chain, judged, tokens, runId, chainFile>> /\ training' = Untrained /\ stateFile' = Snapshot'
    BY <1>10 DEF CommitRun
  <2>4. Snapshot' \in State
    BY <2>2, <2>3 DEF Snapshot, State, TypeOK
  <2> QED BY <2>2, <2>3, <2>4 DEF TypeOK, chain, Untrained
<1>11. ASSUME Ends PROVE TypeOK'
  BY <1>11, BootType DEF Ends, TypeOK
<1>12. CASE StopSource
  <2>1. source' \in Stage
    BY <1>12 DEF StopSource, Await, Stage
  <2>2. chainFile' \in Place
    BY <1>12, PositionType DEF StopSource, TypeOK
  <2> QED BY <1>12, <2>1, <2>2 DEF StopSource, TypeOK, chain, agent
<1>13. CASE StopAgent
  BY <1>13, SnapshotType, BootType DEF StopAgent, TypeOK
<1>14. ASSUME NEW t \in Tokens, Arrive(t) PROVE TypeOK'
  <2>1. PICK launched \in 1..now - Window : Upsert(t, launched)
    BY <1>14 DEF Arrive
  <2>2. launched \in Nat
    BY Constants DEF TypeOK
  <2>3. tokens' \in [Tokens -> Nat] /\ ledgers' \in [Personas -> Ledger]
    BY <2>1, <2>2, UpsertType
  <2> QED BY <1>14, <2>3 DEF Arrive, TypeOK, chain, files
<1>15. ASSUME NEW p \in Personas, Serve(p) PROVE TypeOK'
  BY <1>15 DEF Serve, TypeOK, chain, agent, files
<1>16. CASE UNCHANGED vars
  BY <1>16 DEF vars, TypeOK, chain, agent, files
<1> QED BY <1>1, <1>2, <1>3, <1>4, <1>5, <1>6, <1>7, <1>8, <1>9, <1>10, <1>11, <1>12, <1>13, <1>14, <1>15, <1>16
  DEF Next, Source, Crash, KilledInRun

(* Every variable keeps its type: ledgers, files and the launches in hand. *)
THEOREM TypeCorrect == ASSUME PythonAssumption PROVE Spec => []TypeOK
<1>1. Init => TypeOK
  BY TypeInit
<1>2. TypeOK /\ [Next]_vars => TypeOK'
  BY TypeStep
<1> QED BY <1>1, <1>2, PTL DEF Spec

-----------------------------------------------------------------------------
(* What was read is kept.                                                  *)

Tracked == source.at \notin {"init", "arrivals", "stopped"}
Answered == Labelled(Snapshot) \cup judged \cup lost
Covers(f) == \A p \in Pools : Read(f, p) => p.token \in {q.token : q \in f.pending} \cup Answered

(* A token is known for a reason; chain.json, whatever happened since it   *)
(* was written, misses no launch that is not answered.                     *)
LaunchInv ==
  /\ Tracked => Covers(Position)
  /\ Covers(chainFile)
  /\ known \subseteq Waiting \cup Labelled(Snapshot) \cup judged

LEMMA LabelledFacts ==
  /\ Labelled(Snapshot) = {t \in Tokens : tokens[t] # 0}
  /\ Labelled(Snapshot)' = {t \in Tokens : tokens'[t] # 0}
  /\ Waiting = {q.token : q \in pending} /\ Waiting' = {q.token : q \in pending'}
  /\ Position.pending = pending /\ Position.cursor = cursor /\ Position.back = back
  /\ Position'.pending = pending' /\ Position'.cursor = cursor' /\ Position'.back = back'
BY DEF Labelled, Snapshot, Waiting, Position

(* Of the launches found of one token the first is admitted, unless the    *)
(* token is known.                                                         *)
LEMMA AdmitFacts ==
  ASSUME PythonAssumption, TypeOK, NEW n \in Nat, NEW found \in SUBSET Pools,
         \A p \in found : p.block <= n, Admit(found)
  PROVE  /\ \A p \in found : p.token \in known'
         /\ \A t \in known' : t \in known \/ t \in Waiting'
         /\ pending \subseteq pending' /\ known \subseteq known'
<1> DEFINE new == {p \in found : /\ p.token \notin known
                                 /\ \A q \in found : q.token = p.token => p.block <= q.block}
<1>1. pending' = pending \cup new /\ known' = known \cup {p.token : p \in new}
  BY DEF Admit
<1>2. ASSUME NEW p \in found, p.token \notin known PROVE \E q \in new : q.token = p.token
  <2> DEFINE blocks == {q.block : q \in {r \in found : r.token = p.token}}
  <2>1. blocks \in SUBSET (1..n) /\ blocks # {}
    BY Constants
  <2>2. PICK b \in blocks : \A c \in blocks : b <= c
    <3> HIDE DEF blocks
    <3> QED BY <2>1, LeastExists
  <2>3. PICK q \in found : q.token = p.token /\ q.block = b
    OBVIOUS
  <2>4. q \in new
    BY <1>2, <2>2, <2>3
  <2> QED BY <2>3, <2>4
<1>3. \A p \in found : p.token \in known'
  BY <1>1, <1>2
<1>4. \A t \in known' : t \in known \/ t \in Waiting'
  BY <1>1 DEF Waiting
<1> QED BY <1>1, <1>3, <1>4

(* A stage that reads more: what it reads is known afterwards.             *)
LEMMA ReadingKeeps ==
  ASSUME PythonAssumption, TypeOK, LaunchInv, Tracked, NEW n \in Nat, NEW found \in SUBSET Pools,
         \A p \in found : p.block <= n, Admit(found), UNCHANGED <<tokens, judged, lost>>,
         \A p \in Pools : Read(Position', p) => Read(Position, p) \/ p \in found,
         chainFile' = chainFile \/ chainFile' = Position'
  PROVE  LaunchInv'
<1>1. /\ \A p \in found : p.token \in known'
      /\ \A t \in known' : t \in known \/ t \in Waiting'
      /\ pending \subseteq pending' /\ known \subseteq known'
  BY AdmitFacts
<1>2. Labelled(Snapshot)' = Labelled(Snapshot) /\ Answered' = Answered
  BY LabelledFacts DEF Answered
<1>3. Waiting \subseteq Waiting'
  BY <1>1 DEF Waiting
<1>4. (known \subseteq Waiting \cup Labelled(Snapshot) \cup judged)'
  BY <1>1, <1>2, <1>3 DEF LaunchInv
<1>5. ASSUME NEW p \in Pools, Read(Position', p) PROVE p.token \in Waiting' \cup Answered'
  <2>1. CASE Read(Position, p)
    BY <1>2, <1>3, <2>1, LabelledFacts DEF LaunchInv, Covers
  <2>2. CASE p \in found
    BY <1>1, <1>4, <2>2 DEF Answered
  <2> QED BY <1>5, <2>1, <2>2
<1>6. \A p \in Pools : Read(chainFile, p) => p.token \in {q.token : q \in chainFile.pending} \cup Answered'
  BY <1>2 DEF LaunchInv, Covers
<1>7. Covers(Position)'
  BY <1>5, LabelledFacts DEF Covers
<1>8. Covers(chainFile)'
  <2>1. CASE chainFile' = chainFile
    BY <1>6, <2>1 DEF Covers, Read
  <2>2. CASE chainFile' = Position'
    BY <1>5, <2>2, LabelledFacts DEF Covers, Read
  <2> QED BY <2>1, <2>2
<1> QED BY <1>4, <1>7, <1>8 DEF LaunchInv

LEMMA NothingRead ==
  ASSUME PythonAssumption, TypeOK, LaunchInv, Tracked, UNCHANGED chain, UNCHANGED <<tokens, judged, lost>>,
         chainFile' = chainFile \/ chainFile' = Position'
  PROVE  LaunchInv'
<1>1. Admit({})
  BY DEF Admit, chain
<1>2. Position' = Position
  BY DEF Position, chain
<1> QED BY <1>1, <1>2, ReadingKeeps DEF Read

LEMMA FinishKeeps ==
  ASSUME PythonAssumption, TypeOK, LaunchInv, NEW p \in source.due, Finish(p)
  PROVE  LaunchInv'
<1>1. p \in Pools /\ p.token \in Tokens /\ p.block \in Nat /\ p.block > 0
  BY Constants DEF TypeOK, Stage
<1>2. UNCHANGED <<cursor, back, known, lost>> /\ pending' = pending \ {p} /\ Tracked
      /\ (chainFile' = chainFile \/ chainFile' = Position')
  BY NextLaunchFacts DEF Finish, Tracked
<1>3. /\ Labelled(Snapshot) \subseteq Labelled(Snapshot)' /\ judged \subseteq judged'
      /\ p.token \in Labelled(Snapshot)' \cup judged'
  <2>1. CASE Upsert(p.token, p.block) /\ UNCHANGED judged
    <3>1. tokens' = [tokens EXCEPT ![p.token] = p.block]
      BY <2>1 DEF Upsert
    <3> QED BY <1>1, <2>1, <3>1, LabelledFacts DEF TypeOK
  <2>2. CASE judged' = judged \cup {p.token} /\ UNCHANGED <<tokens, ledgers>>
    BY <2>2, LabelledFacts
  <2> QED BY <2>1, <2>2 DEF Finish
<1>4. \A t \in Waiting : t \in Waiting' \/ t = p.token
  BY <1>2 DEF Waiting
<1>5. (known \subseteq Waiting \cup Labelled(Snapshot) \cup judged)'
  BY <1>2, <1>3, <1>4 DEF LaunchInv
<1>6. ASSUME NEW q \in Pools, Read(Position', q) PROVE q.token \in Waiting' \cup Answered'
  <2>1. Read(Position, q)
    BY <1>2, <1>6, LabelledFacts DEF Read
  <2>2. q.token \in Waiting \cup Answered
    BY <1>2, <2>1, LabelledFacts DEF LaunchInv, Covers
  <2> QED BY <1>2, <1>3, <1>4, <2>2 DEF Answered
<1>7. Covers(Position)'
  BY <1>6, LabelledFacts DEF Covers, Read
<1>8. Covers(chainFile)'
  <2>1. CASE chainFile' = chainFile
    BY <1>2, <1>3, <2>1 DEF LaunchInv, Covers, Answered, Read
  <2>2. CASE chainFile' = Position'
    BY <1>6, <2>2, LabelledFacts DEF Covers, Read
  <2> QED BY <1>2, <2>1, <2>2
<1> QED BY <1>5, <1>7, <1>8 DEF LaunchInv

(* A new process tracks nothing yet; what only memory had is lost, unless  *)
(* it is still pending in chain.json.                                      *)
LEMMA BootKeeps ==
  ASSUME TypeOK, LaunchInv, NEW state \in State, Boot(state), UNCHANGED <<chainFile, judged>>, lost \subseteq lost',
         \A p \in Pools : Read(chainFile, p) /\ p \notin chainFile.pending /\ p.token \in Labelled(Snapshot) =>
           p.token \in Labelled(state) \cup lost'
  PROVE  LaunchInv'
<1>1. known' = {} /\ ~ Tracked'
  BY DEF Boot, Tracked, Starting, Await
<1>2. Labelled(Snapshot)' = Labelled(state)
  BY DEF Boot, Labelled, Snapshot
<1>3. Covers(chainFile)'
  <2>1. ASSUME NEW p \in Pools, Read(chainFile, p)
        PROVE  p.token \in {q.token : q \in chainFile.pending} \cup Answered'
    BY <1>2, <2>1 DEF LaunchInv, Covers, Answered
  <2> QED BY <2>1 DEF Covers, Read
<1> QED BY <1>1, <1>3 DEF LaunchInv

LEMMA SnapshotLabels == ASSUME TypeOK PROVE Snapshot \in State /\ stateFile \in State
BY SnapshotType DEF TypeOK

LEMMA LaunchInit == ASSUME PythonAssumption, Init PROVE LaunchInv
<1>1. ~ Tracked /\ known = {} /\ chainFile = NoFile
  BY DEF Init, Tracked, Starting, Await
<1>2. ASSUME NEW p \in Pools, Read(NoFile, p) PROVE FALSE
  <2>1. 0 \in Int /\ 0 + 1 \in Int
    OBVIOUS
  <2>2. 0 + 1 <= Max({0, 0 + 1}) /\ Max({0, 0 + 1}) \in Int
    BY ONLY <2>1, MaxOfTwo
  <2>3. p.block \in Nat
    BY Constants
  <2>4. NoFile.cursor = 0 /\ NoFile.back.to = 0 /\ NoFile.back.from = 0 /\ NoFile.back.at = 0
    BY DEF NoFile, Unread
  <2>5. p.block \in 0 + 1..0 \/ p.block \in Max({0, 0 + 1})..0
    BY <1>2, <2>4 DEF Read
  <2> QED BY <2>2, <2>3, <2>5
<1> QED BY <1>1, <1>2 DEF LaunchInv, Covers

LEMMA LaunchStep ==
  ASSUME PythonAssumption, TypeOK, LaunchInv, [Next]_vars
  PROVE  LaunchInv'
<1>1. ASSUME UNCHANGED <<source, chain, tokens, chainFile, judged, lost>> PROVE LaunchInv'
  <2>1. Position' = Position /\ Labelled(Snapshot)' = Labelled(Snapshot) /\ Answered' = Answered /\ Waiting' = Waiting
    BY <1>1, LabelledFacts DEF Position, Answered, chain
  <2> QED BY <1>1, <2>1 DEF LaunchInv, Covers, Read, Tracked, chain
<1>2. CASE InitSource
  <2>1. Labelled(Snapshot)' = Labelled(Snapshot) /\ Answered' = Answered /\ chainFile' = chainFile
    BY <1>2, LabelledFacts DEF InitSource, agent, files, Answered
  <2>2. Covers(chainFile)'
    BY <2>1 DEF LaunchInv, Covers, Read
  <2>3. known' = {t \in Tokens : tokens[t] # 0} \cup {p.token : p \in pending'}
    BY <1>2 DEF InitSource
  <2>4. (known \subseteq Waiting \cup Labelled(Snapshot) \cup judged)'
    BY <2>1, <2>3, LabelledFacts
  <2>5. ASSUME NEW p \in Pools, Read(Position', p) PROVE p.token \in Waiting' \cup Answered'
    <3>1. CASE chainFile = NoFile
      <4>1. Position'.cursor = now /\ Position'.back.to = now /\ Position'.back.at = now /\ Position'.back.from \in Int
        <5>1. 1 \in Int /\ now - Days \in Int /\ now + 1 \in Int
          BY Constants DEF TypeOK
        <5>2. Max({1, now - Days}) \in Int
          BY ONLY <5>1, MaxOfTwo
        <5>3. cursor' = BeginAt(now).cursor /\ back' = BeginAt(now).back
          BY <1>2, <3>1 DEF InitSource
        <5>4. /\ cursor' = now /\ back'.to = now /\ back'.at = now
              /\ back'.from = IF Days = 0 THEN now + 1 ELSE Max({1, now - Days})
          BY <5>3 DEF BeginAt
        <5> QED BY <5>1, <5>2, <5>4, LabelledFacts
      <4>2. Max({Position'.back.from, now + 1}) >= now + 1 /\ Max({Position'.back.from, now + 1}) \in Int
        <5>1. Position'.back.from \in Int /\ now + 1 \in Int
          BY <4>1 DEF TypeOK
        <5>2. Max({Position'.back.from, now + 1}) >= now + 1 /\ Max({Position'.back.from, now + 1}) \in Int
          BY <5>1, MaxOfTwo
        <5> QED BY <5>2
      <4>3. p.block \in Nat /\ now \in Nat
        BY Constants DEF TypeOK
      <4> QED BY <2>5, <4>1, <4>2, <4>3 DEF Read
    <3>2. CASE chainFile # NoFile
      <4>1. Position'.cursor = chainFile.cursor /\ Position'.back = chainFile.back /\ pending' = chainFile.pending
        BY <1>2, <3>2, LabelledFacts DEF InitSource
      <4>2. Read(chainFile, p)
        BY <2>5, <4>1 DEF Read
      <4> QED BY <2>1, <4>1, <4>2, LabelledFacts DEF LaunchInv, Covers
    <3> QED BY <3>1, <3>2
  <2>6. Covers(Position)'
    BY <2>5, LabelledFacts DEF Covers, Read
  <2> QED BY <2>2, <2>4, <2>6 DEF LaunchInv
<1>3. CASE LiveTick
  <2>1. Tracked /\ UNCHANGED <<chain, tokens, judged, lost>> /\ pending' \in SUBSET Pools
    BY <1>3 DEF LiveTick, Tracked, agent, chain, TypeOK
  <2>2. chainFile' = chainFile \/ chainFile' = Position'
    BY <1>3, <2>1, RoundGoesOn DEF LiveTick
  <2> QED BY <2>1, <2>2, NothingRead
<1>4. CASE LiveScan
  <2> DEFINE end == Min({source.to, cursor + Span})
  <2>1. source.to \in Int /\ cursor + Span \in Int /\ cursor \in Int
    BY Constants DEF TypeOK, Stage
  <2>2. end \in Int
    BY ONLY <2>1, MaxOfTwo
  <2> DEFINE found == Between(cursor + 1, end)
  <2>3. Admit(found) /\ cursor' = end /\ UNCHANGED back /\ Tracked /\ UNCHANGED <<tokens, judged, lost>>
    BY <1>4 DEF LiveScan, Tracked, agent
  <2>4. found \in SUBSET Pools /\ \A p \in found : p.block \in cursor + 1..end /\ p.block \in Nat
    BY Constants DEF Between
  <2>5. PICK n \in Nat : \A p \in found : p.block <= n
    <3> HIDE DEF found, end
    <3>1. CASE end >= 0
      <4>1. end \in Nat /\ \A p \in found : p.block <= end
        BY <2>1, <2>2, <2>4, <3>1
      <4> QED BY <4>1
    <3>2. CASE ~ (end >= 0)
      <4>1. \A p \in found : p.block <= 0
        BY <2>1, <2>2, <2>4, <3>2
      <4> QED BY <4>1
    <3> QED BY <3>1, <3>2
  <2>6. pending' \in SUBSET Pools
    BY <2>3, <2>4, AdmitType
  <2>7. chainFile' = chainFile \/ chainFile' = Position'
    <3>1. CASE end < source.to
      BY <1>4, <3>1 DEF LiveScan
    <3>2. CASE ~ (end < source.to)
      BY <1>4, <2>6, <3>2, RoundGoesOn DEF LiveScan
    <3> QED BY <3>1, <3>2
  <2>8. ASSUME NEW p \in Pools, Read(Position', p), p \notin found PROVE Read(Position, p)
    <3>1. Position'.cursor = end /\ Position'.back = back /\ back.to \in Int /\ p.block \in Nat
      BY <2>3, LabelledFacts, Constants DEF TypeOK
    <3>2. p.block \notin cursor + 1..end
      BY <2>8 DEF Between
    <3> HIDE DEF end
    <3>3. p.block \in back.to + 1..end => p.block \in back.to + 1..cursor
      BY <2>1, <2>2, <3>1, <3>2
    <3> QED BY <2>8, <3>1, <3>3, LabelledFacts DEF Read
  <2> HIDE DEF found
  <2> QED BY <2>3, <2>4, <2>5, <2>7, <2>8, ReadingKeeps
<1>5. CASE Backfill
  <2> DEFINE start == Max({back.from, back.at - Span + 1})
             found == {p \in Between(start, back.at) : p.token \in Sampled}
  <2>1. back.from \in Int /\ back.at \in Int /\ back.to \in Int /\ back.at - Span + 1 \in Int
    BY Constants DEF TypeOK
  <2>2. start \in Int /\ start >= back.from
    BY ONLY <2>1, MaxOfTwo
  <2>3. Admit(found) /\ back' = [back EXCEPT !.at = start - 1] /\ UNCHANGED cursor /\ Tracked
        /\ UNCHANGED <<tokens, judged, lost>>
    BY <1>5 DEF Backfill, Tracked, agent
  <2>4. found \in SUBSET Pools /\ \A p \in found : p.block <= back.at /\ p.block \in Nat
    <3>1. \A p \in found : p \in Pools /\ p.block \in start..back.at
      BY DEF Between
    <3> HIDE DEF found, start
    <3> QED BY <2>1, <2>2, <3>1, Constants
  <2>5. PICK n \in Nat : \A p \in found : p.block <= n
    <3> HIDE DEF found
    <3>1. CASE back.at >= 0
      BY <2>1, <2>4, <3>1
    <3>2. CASE ~ (back.at >= 0)
      BY <2>1, <2>4, <3>2
    <3> QED BY <3>1, <3>2
  <2>6. chainFile' = chainFile \/ chainFile' = Position'
    BY <1>5, <2>3, <2>4, AdmitType, RoundGoesOn DEF Backfill
  <2>7. ASSUME NEW p \in Pools, Read(Position', p), p \notin found PROVE Read(Position, p)
    <3>1. /\ Position'.cursor = cursor /\ Position'.back.to = back.to /\ Position'.back.from = back.from
          /\ Position'.back.at + 1 = start /\ p.block \in Nat
      <4>1. start - 1 + 1 = start
        BY <2>2
      <4> QED BY <2>3, <4>1, LabelledFacts, Constants DEF TypeOK
    <3>2. Max({back.from, start}) \in Int /\ Max({back.from, start}) >= start
      BY ONLY <2>1, <2>2, MaxOfTwo
    <3>3. Max({back.from, back.at + 1}) \in {back.from, back.at + 1}
      <4>1. back.at + 1 \in Int
        BY <2>1
      <4> QED BY ONLY <2>1, <4>1, MaxOfTwo
    <3>4. p.token \in Sampled => p.block \notin start..back.at
      BY <2>7 DEF Between
    <3> HIDE DEF start, found
    <3>5. p.block \in Max({back.from, start})..back.to /\ p.token \in Sampled =>
            p.block \in Max({back.from, back.at + 1})..back.to
      BY <2>1, <2>2, <3>1, <3>2, <3>3, <3>4
    <3> QED BY <2>7, <3>1, <3>5, LabelledFacts DEF Read
  <2> HIDE DEF found, start
  <2> QED BY <2>3, <2>4, <2>5, <2>6, <2>7, ReadingKeeps
<1>6. CASE Fails
  <2>1. Tracked /\ UNCHANGED <<chain, tokens, judged, lost>> /\ pending' \in SUBSET Pools
    BY <1>6 DEF Fails, Tracked, agent, chain, TypeOK
  <2>2. chainFile' = chainFile \/ chainFile' = Position'
    BY <1>6, <2>1, RoundGoesOn DEF Fails
  <2> QED BY <2>1, <2>2, NothingRead
<1>7. ASSUME Ends PROVE LaunchInv'
  <2>1. \A p \in Pools : Read(chainFile, p) /\ p \notin chainFile.pending /\ p.token \in Labelled(Snapshot) =>
          p.token \in Labelled(stateFile) \cup lost'
    BY <1>7 DEF Ends, Gone
  <2> QED BY <1>7, <2>1, BootKeeps, SnapshotLabels DEF Ends
<1>8. CASE StopSource
  <2>1. /\ ~ Tracked' /\ UNCHANGED chain /\ Labelled(Snapshot)' = Labelled(Snapshot) /\ Answered' = Answered
        /\ Waiting' = Waiting /\ judged' = judged
    BY <1>8, LabelledFacts DEF StopSource, Tracked, Await, agent, chain, Answered
  <2>2. chainFile' = chainFile \/ (chainFile' = Position /\ Tracked)
    BY <1>8 DEF StopSource, Tracked, Ready
  <2> QED BY <2>1, <2>2 DEF LaunchInv, Covers, Read, chain
<1>9. CASE StopAgent
  <2>1. Boot(Snapshot) /\ UNCHANGED <<chainFile, judged, lost>>
    BY <1>9 DEF StopAgent
  <2> QED BY <2>1, BootKeeps, SnapshotLabels
<1>10. ASSUME NEW t \in Tokens, Arrive(t) PROVE LaunchInv'
  <2>1. ~ Tracked' /\ UNCHANGED <<chain, chainFile, judged, lost>>
    BY <1>10 DEF Arrive, Tracked, chain, files
  <2>2. Labelled(Snapshot) \subseteq Labelled(Snapshot)'
    BY <1>10, LabelledFacts DEF Arrive, Upsert, TypeOK
  <2> QED BY <2>1, <2>2 DEF LaunchInv, Covers, Read, chain, Answered, Waiting
<1>11. Mine \/ Train \/ TrainFails \/ CommitRun \/ (\E p \in Personas : Serve(p)) \/ UNCHANGED vars =>
       UNCHANGED <<source, chain, tokens, chainFile, judged, lost>>
  BY DEF Mine, Train, TrainFails, CommitRun, Serve, vars, chain, agent, files
<1> QED BY <1>1, <1>2, <1>3, <1>4, <1>5, <1>6, <1>7, <1>8, <1>9, <1>10, <1>11, FinishKeeps
  DEF Next, Source, Crash, KilledInRun

(* What the source has read, forwards or of the sample, is pending,        *)
(* labelled, measured and not kept, or a label a crash took: no failure,   *)
(* stop or crash at any await skips a launch (chain.py, _run, _save).      *)
THEOREM LaunchesNeverSkipped == ASSUME PythonAssumption PROVE Spec => []LaunchesKept
<1>1. Init => LaunchInv
  BY LaunchInit
<1>2. TypeOK /\ LaunchInv /\ [Next]_vars => LaunchInv'
  BY LaunchStep
<1>3. LaunchInv => LaunchesKept
  BY LabelledFacts DEF LaunchInv, LaunchesKept, Covers, Tracked, Ready, Answered
<1> QED BY <1>1, <1>2, <1>3, TypeCorrect, PTL DEF Spec

-----------------------------------------------------------------------------
(* The promise of CommitReveal.                                            *)

(* The names of a cycle, and where the kept cycles of a ledger come from.  *)
LEMMA PublishedFacts ==
  ASSUME PythonAssumption, TypeOK, NEW l \in Ledger, NEW names \in SUBSET Names
  PROVE  LET c == [at |-> training.at, names |-> names]
             q == Published(l, names)
         IN \E d \in {0, 1} :
              /\ Len(q.cycles) = Len(l.cycles) + 1 - d /\ DOMAIN q.cycles = 1..Len(q.cycles)
              /\ \A i \in 1..Len(q.cycles) :
                   q.cycles[i] = IF i + d <= Len(l.cycles) THEN l.cycles[i + d] ELSE c
<1> DEFINE c == [at |-> training.at, names |-> names]
           cs == Append(l.cycles, c)
           qs == Published(l, names).cycles
<1>1. c \in Cycle /\ l.cycles \in Seq(Cycle) /\ Len(l.cycles) \in Nat
  BY LenProperties DEF Cycle, Ledger, TypeOK
<1>2. cs \in Seq(Cycle) /\ Len(cs) = Len(l.cycles) + 1 /\ cs # <<>>
      /\ \A i \in 1..Len(cs) : cs[i] = IF i <= Len(l.cycles) THEN l.cycles[i] ELSE c
  BY <1>1, AppendProperties
<1>3. qs = IF Len(cs) > Keep THEN Tail(cs) ELSE cs
  BY DEF Published, Ledger
<1>4. CASE Len(cs) > Keep
  <2>1. qs = Tail(cs)
    BY <1>3, <1>4
  <2>2. Tail(cs) \in Seq(Cycle) /\ Len(Tail(cs)) = Len(cs) - 1 /\ \A i \in 1..Len(Tail(cs)) : Tail(cs)[i] = cs[i + 1]
    BY <1>2, HeadTailProperties
  <2> HIDE DEF cs, qs, c
  <2>3. qs \in Seq(Cycle) /\ Len(qs) = Len(l.cycles) + 1 - 1
    BY <1>1, <1>2, <2>1, <2>2
  <2>4. \A i \in 1..Len(qs) : qs[i] = IF i + 1 <= Len(l.cycles) THEN l.cycles[i + 1] ELSE c
    BY <1>1, <1>2, <2>1, <2>2, SMTT(30)
  <2>5. DOMAIN qs = 1..Len(qs)
    BY <2>3, LenProperties
  <2> QED BY <2>3, <2>4, <2>5 DEF qs, c
<1>5. CASE ~ (Len(cs) > Keep)
  <2>1. qs = cs
    BY <1>3, <1>5
  <2> HIDE DEF cs, qs, c
  <2>2. Len(qs) = Len(l.cycles) + 1 - 0 /\ DOMAIN qs = 1..Len(qs)
    BY <1>1, <1>2, <2>1, LenProperties
  <2>3. \A i \in 1..Len(qs) : qs[i] = IF i + 0 <= Len(l.cycles) THEN l.cycles[i + 0] ELSE c
    <3>1. ASSUME NEW i \in 1..Len(qs) PROVE qs[i] = IF i <= Len(l.cycles) THEN l.cycles[i] ELSE c
      BY <1>2, <2>1
    <3>2. \A i \in 1..Len(qs) : i + 0 = i
      OBVIOUS
    <3> QED BY <3>1, <3>2
  <2> QED BY <2>2, <2>3 DEF qs, c
<1> QED BY <1>4, <1>5

LEMMA LedgerFacts ==
  ASSUME NEW l \in Ledger
  PROVE  /\ DOMAIN l.cycles = 1..Len(l.cycles) /\ Len(l.cycles) \in Nat
         /\ \A i \in DOMAIN l.cycles : l.cycles[i] \in Cycle
<1>1. l.cycles \in Seq(Cycle)
  BY DEF Ledger
<1> QED BY <1>1, LenProperties, ElementOfSeq

(* Whatever is kept after a run was kept before, or is the run's.          *)
LEMMA PublishedKept ==
  ASSUME PythonAssumption, TypeOK, NEW l \in Ledger, NEW names \in SUBSET Names,
         NEW i \in DOMAIN Published(l, names).cycles
  PROVE  \/ \E j \in DOMAIN l.cycles : Published(l, names).cycles[i] = l.cycles[j]
         \/ Published(l, names).cycles[i] = [at |-> training.at, names |-> names]
<1> DEFINE qs == Published(l, names).cycles
           c == [at |-> training.at, names |-> names]
<1>1. PICK d \in {0, 1} :
        /\ Len(qs) = Len(l.cycles) + 1 - d /\ DOMAIN qs = 1..Len(qs)
        /\ \A k \in 1..Len(qs) : qs[k] = IF k + d <= Len(l.cycles) THEN l.cycles[k + d] ELSE c
  BY PublishedFacts
<1>2. DOMAIN l.cycles = 1..Len(l.cycles) /\ Len(l.cycles) \in Nat
  BY LedgerFacts
<1>3. i \in 1..Len(qs)
  BY <1>1
<1> HIDE DEF qs, c
<1>4. i + d <= Len(l.cycles) => i + d \in DOMAIN l.cycles
  BY <1>1, <1>2, <1>3
<1> QED BY <1>1, <1>3, <1>4 DEF qs, c

LogInv ==
  /\ \A p \in Personas : Shown(p, ledgers[p]) \subseteq log /\ Shown(p, stateFile.ledgers[p]) \subseteq log
  /\ served \subseteq log
(* state.json has no theft that the running agent does not know.           *)
StolenKept == \A p \in Personas : stateFile.ledgers[p].stolen \subseteq ledgers[p].stolen

PromiseInv == LogInv /\ StolenKept

LEMMA ShownPublished ==
  ASSUME PythonAssumption, TypeOK, NEW p \in Personas, NEW l \in Ledger, NEW names \in SUBSET Names
  PROVE  Shown(p, Published(l, names)) \subseteq Shown(p, l) \cup Rows(p, [at |-> training.at, names |-> names])
<1> DEFINE q == Published(l, names)
<1>1. ASSUME NEW row \in Shown(p, q)
      PROVE  row \in Shown(p, l) \cup Rows(p, [at |-> training.at, names |-> names])
  <2>1. PICK i \in DOMAIN q.cycles : row \in Rows(p, q.cycles[i])
    BY <1>1 DEF Shown
  <2>2. \/ \E j \in DOMAIN l.cycles : q.cycles[i] = l.cycles[j]
        \/ q.cycles[i] = [at |-> training.at, names |-> names]
    BY PublishedKept
  <2> HIDE DEF q
  <2> QED BY <2>1, <2>2 DEF Shown
<1> QED BY <1>1

LEMMA CommitFacts ==
  ASSUME PythonAssumption, TypeOK, CommitRun
  PROVE  /\ log \subseteq log'
         /\ \A p \in Personas : /\ Shown(p, ledgers'[p]) \subseteq Shown(p, ledgers[p]) \cup log'
                                /\ ledgers'[p].stolen = ledgers[p].stolen
         /\ stateFile'.ledgers = ledgers' /\ stateFile'.tokens = tokens
         /\ UNCHANGED <<served, tokens, now, source, chain, chainFile, judged, lost>>
<1>1. PICK cycle \in Cycles : /\ ledgers' = [p \in Personas |-> Published(ledgers[p], cycle[p])]
                              /\ log' = log \cup Logged(cycle, NPersonas)
  BY DEF CommitRun
<1>2. ASSUME NEW p \in Personas
      PROVE  /\ Shown(p, ledgers'[p]) \subseteq Shown(p, ledgers[p]) \cup log'
             /\ ledgers'[p].stolen = ledgers[p].stolen
  <2>1. cycle[p] \in SUBSET Names /\ ledgers[p] \in Ledger /\ ledgers'[p] = Published(ledgers[p], cycle[p])
    BY <1>1 DEF Cycles, TypeOK
  <2>2. Rows(p, [at |-> training.at, names |-> cycle[p]]) \subseteq log'
    BY <1>1 DEF Logged, Personas
  <2>3. Shown(p, Published(ledgers[p], cycle[p]))
          \subseteq Shown(p, ledgers[p]) \cup Rows(p, [at |-> training.at, names |-> cycle[p]])
    BY <2>1, ShownPublished
  <2> QED BY <2>1, <2>2, <2>3, PublishedType
<1>3. /\ stateFile'.ledgers = ledgers' /\ stateFile'.tokens = tokens
      /\ UNCHANGED <<served, tokens, now, source, chain, chainFile, judged, lost>>
  BY DEF CommitRun, Snapshot, chain
<1> QED BY <1>1, <1>2, <1>3

LEMMA PromiseInit == ASSUME PythonAssumption, Init PROVE PromiseInv
<1>1. \A p \in Personas : Shown(p, ledgers[p]) = {} /\ Shown(p, stateFile.ledgers[p]) = {}
  BY DEF Init, Empty, Shown
<1> QED BY <1>1 DEF PromiseInv, LogInv, StolenKept, Init

(* The agent's upserts, of the source or of the market.                    *)
LEMMA UpsertPromise ==
  ASSUME PythonAssumption, TypeOK, PromiseInv, NEW t \in Tokens, NEW launched \in Nat, Upsert(t, launched),
         UNCHANGED <<stateFile, log, served>>
  PROVE  PromiseInv'
<1>1. \A p \in Personas : ledgers'[p].cycles = ledgers[p].cycles /\ ledgers[p].stolen \subseteq ledgers'[p].stolen
  BY UpsertType
<1>2. \A p \in Personas : Shown(p, ledgers'[p]) = Shown(p, ledgers[p])
  BY <1>1 DEF Shown
<1> QED BY <1>1, <1>2 DEF PromiseInv, LogInv, StolenKept, Shown

LEMMA PromiseStep ==
  ASSUME PythonAssumption, TypeOK, PromiseInv, [Next]_vars
  PROVE  PromiseInv'
<1>1. ASSUME UNCHANGED <<ledgers, stateFile, log, served>> PROVE PromiseInv'
  BY <1>1 DEF PromiseInv, LogInv, StolenKept, Shown
<1>2. ASSUME NEW p \in source.due, Finish(p) PROVE PromiseInv'
  <2>1. p.token \in Tokens /\ p.block \in Nat
    BY Constants DEF TypeOK, Stage
  <2>2. UNCHANGED <<stateFile, log, served>> /\ (Upsert(p.token, p.block) \/ UNCHANGED ledgers)
    BY <1>2 DEF Finish
  <2> QED BY <1>1, <2>1, <2>2, UpsertPromise
<1>3. ASSUME NEW t \in Tokens, Arrive(t) PROVE PromiseInv'
  <2>1. PICK launched \in 1..now - Window : Upsert(t, launched)
    BY <1>3 DEF Arrive
  <2>2. launched \in Nat
    BY Constants DEF TypeOK
  <2>3. UNCHANGED <<stateFile, log, served>>
    BY <1>3 DEF Arrive, files
  <2> QED BY <2>1, <2>2, <2>3, UpsertPromise
<1>4. CASE CommitRun
  <2>1. \A p \in Personas : Shown(p, ledgers'[p]) \subseteq log'
    BY <1>4, CommitFacts DEF PromiseInv, LogInv
  <2>2. served' \subseteq log' /\ stateFile'.ledgers = ledgers'
    BY <1>4, CommitFacts DEF PromiseInv, LogInv
  <2> QED BY <2>1, <2>2 DEF PromiseInv, LogInv, StolenKept, Shown, Rows
<1>5. ASSUME Ends, log \subseteq log' PROVE PromiseInv'
  <2>1. ledgers' = stateFile.ledgers /\ UNCHANGED <<stateFile, served>>
    BY <1>5 DEF Ends, Boot
  <2> QED BY <1>5, <2>1 DEF PromiseInv, LogInv, StolenKept, Shown, Rows
<1>6. ASSUME NEW p \in Personas, KilledInRun(p) PROVE PromiseInv'
  BY <1>5, <1>6 DEF KilledInRun
<1>7. CASE Crash
  BY <1>5, <1>7 DEF Crash
<1>8. CASE StopAgent
  <2>1. ledgers' = ledgers /\ stateFile'.ledgers = ledgers /\ UNCHANGED <<log, served>>
    BY <1>8 DEF StopAgent, Boot, Snapshot
  <2> QED BY <2>1 DEF PromiseInv, LogInv, StolenKept, Shown, Rows
<1>9. ASSUME NEW p \in Personas, Serve(p) PROVE PromiseInv'
  <2>1. UNCHANGED <<ledgers, stateFile, log>> /\ served' = served \cup Shown(p, ledgers[p])
    BY <1>9 DEF Serve, agent, files
  <2> QED BY <2>1 DEF PromiseInv, LogInv, StolenKept, Shown, Rows
<1>10. Mine \/ InitSource \/ LiveTick \/ LiveScan \/ Backfill \/ Fails \/ Train \/ TrainFails \/ StopSource \/ UNCHANGED vars =>
       UNCHANGED <<ledgers, stateFile, log, served>>
  BY DEF Mine, InitSource, LiveTick, LiveScan, Backfill, Fails, Train, TrainFails, StopSource, vars, agent, files
<1> QED BY <1>1, <1>2, <1>3, <1>4, <1>6, <1>7, <1>8, <1>9, <1>10 DEF Next, Source

Retired == UNION {{p} \X stateFile.ledgers[p].stolen : p \in Personas}

(* What a run logs is not of a name the persona knows as taken.            *)
LEMMA LoggedNames ==
  ASSUME PythonAssumption, PromiseInv, NEW cycle \in Cycles, NEW last \in 0..NPersonas, NEW row \in Logged(cycle, last)
  PROVE  <<row.persona, row.name>> \notin Retired
<1>1. PICK p \in 1..last : row \in Rows(p, [at |-> training.at, names |-> cycle[p]])
  BY DEF Logged
<1>2. p \in Personas
  BY <1>1, Constants DEF Personas
<1>3. row.persona = p /\ row.name \in cycle[p]
  BY <1>1 DEF Rows
<1>4. row.name \notin ledgers[p].stolen
  BY <1>2, <1>3 DEF Cycles, Allowed
<1>5. row.name \notin stateFile.ledgers[p].stolen
  BY <1>2, <1>4 DEF PromiseInv, StolenKept
<1> QED BY <1>3, <1>5 DEF Retired

(* The implementation keeps the promise: what is shown is in the log, which*)
(* only grows, and no name that state.json knows as taken is committed,    *)
(* although the state is saved after the log, and a run may be cut short   *)
(* (agent.py, commit_run; persistence.py, append_cycle).                   *)
THEOREM PythonImplements == ASSUME PythonAssumption PROVE Spec => KeepsPromise
<1>1. Init => PromiseInv
  BY PromiseInit
<1>2. TypeOK /\ PromiseInv /\ [Next]_vars => PromiseInv'
  BY PromiseStep
<1>3. Init => Promise!Init
  <2>1. ASSUME Init PROVE Retired = {}
    BY <2>1 DEF Init, Empty, Retired
  <2> QED BY <2>1 DEF Init, Promise!Init, Retired
<1>4. TypeOK /\ PromiseInv /\ [Next]_vars => [Promise!Next]_(Promise!vars)
  <2> SUFFICES ASSUME TypeOK, PromiseInv, [Next]_vars PROVE [Promise!Next]_(Promise!vars)
    OBVIOUS
  <2>1. ASSUME UNCHANGED <<stateFile, log, served>> PROVE UNCHANGED Promise!vars
    BY <2>1 DEF Promise!vars
  <2>2. CASE CommitRun
    <3>1. PICK cycle \in Cycles : log' = log \cup Logged(cycle, NPersonas)
      BY <2>2 DEF CommitRun
    <3>2. /\ \A p \in Personas : stateFile'.ledgers[p].stolen = ledgers[p].stolen
          /\ UNCHANGED served
      BY <2>2, CommitFacts
    <3>3. \A p \in Personas : stateFile.ledgers[p].stolen \subseteq stateFile'.ledgers[p].stolen
      BY <3>2 DEF PromiseInv, StolenKept
    <3>4. Retired \subseteq Retired'
      BY <3>3 DEF Retired
    <3>5. ASSUME NEW row \in log' \ log PROVE <<row.persona, row.name>> \notin Retired'
      <4>1. PICK p \in 1..NPersonas : row \in Rows(p, [at |-> training.at, names |-> cycle[p]])
        BY <3>1, <3>5 DEF Logged
      <4>2. row.persona = p /\ row.name \in cycle[p] /\ p \in Personas
        BY <4>1 DEF Rows, Personas
      <4>3. row.name \notin ledgers[p].stolen
        BY <4>2 DEF Cycles, Allowed
      <4> QED BY <3>2, <4>2, <4>3 DEF Retired
    <3>6. Promise!Commit
      BY <3>1, <3>2, <3>4, <3>5 DEF Promise!Commit, Retired
    <3> QED BY <3>6 DEF Promise!Next
  <2>3. ASSUME NEW p \in Personas, KilledInRun(p) PROVE [Promise!Next]_(Promise!vars)
    <3>1. PICK cycle \in Cycles : log' = log \cup Logged(cycle, p)
      BY <2>3 DEF KilledInRun
    <3>2. UNCHANGED <<stateFile, served>> /\ p \in 0..NPersonas
      BY <2>3, Constants DEF KilledInRun, Ends, Personas
    <3>3. \A row \in log' \ log : <<row.persona, row.name>> \notin Retired
      BY <3>1, <3>2, LoggedNames
    <3>4. Promise!Commit
      BY <3>1, <3>2, <3>3 DEF Promise!Commit, Retired
    <3> QED BY <3>4 DEF Promise!Next
  <2>4. ASSUME NEW p \in Personas, Serve(p) PROVE [Promise!Next]_(Promise!vars)
    <3>1. served' = served \cup Shown(p, ledgers[p]) /\ UNCHANGED <<stateFile, log>>
      BY <2>4 DEF Serve, files
    <3>2. Promise!Reveal
      BY <3>1 DEF PromiseInv, LogInv, Promise!Reveal
    <3> QED BY <3>2 DEF Promise!Next
  <2>5. CASE StopAgent
    <3>1. stateFile'.ledgers = ledgers /\ UNCHANGED <<log, served>>
      BY <2>5 DEF StopAgent, Snapshot
    <3>2. Retired \subseteq Retired'
      BY <3>1 DEF Retired, PromiseInv, StolenKept
    <3>3. Promise!Retire
      BY <3>1, <3>2 DEF Promise!Retire, Retired
    <3> QED BY <3>3 DEF Promise!Next
  <2>6. Mine \/ InitSource \/ LiveTick \/ LiveScan \/ Backfill \/ (\E p \in source.due : Finish(p)) \/ Fails
          \/ Train \/ TrainFails \/ Crash \/ StopSource \/ (\E t \in Tokens : Arrive(t)) \/ UNCHANGED vars =>
        UNCHANGED <<stateFile, log, served>>
    BY DEF Mine, InitSource, LiveTick, LiveScan, Backfill, Finish, Fails, Train, TrainFails, Crash, Ends, StopSource,
           Arrive, vars, files
  <2> QED BY <2>1, <2>2, <2>3, <2>4, <2>5, <2>6 DEF Next, Source
<1> QED BY <1>1, <1>2, <1>3, <1>4, TypeCorrect, PTL DEF Spec, KeepsPromise, Promise!Spec

-----------------------------------------------------------------------------
(* Thefts.                                                                 *)

OneEach(ps) == \A p, q \in ps : p.token = q.token => p = q
LabelsAgree(ps, ts) == \A p \in ps : ts[p.token] # 0 => ts[p.token] = p.block

(* A launch is followed under one pool, in memory and in chain.json, and   *)
(* labelled as that: a label that is given again is the same.              *)
SameLabel ==
  /\ OneEach(pending) /\ OneEach(chainFile.pending)
  /\ \A p \in pending, q \in chainFile.pending : p.token = q.token => p = q
  /\ LabelsAgree(pending, tokens) /\ LabelsAgree(chainFile.pending, tokens)
  /\ \A t \in Tokens : stateFile.tokens[t] # 0 => tokens[t] = stateFile.tokens[t]
  /\ source.at = "label" => source.due \subseteq pending
  /\ Tracked => \A t \in Tokens : tokens[t] # 0 => t \in known
  /\ Tracked => \A p \in pending \cup chainFile.pending : p.token \in known
  /\ live => source.at # "arrivals"
  /\ ~ live => source.at \in {"arrivals", "stopped"} /\ pending = {} /\ chainFile.pending = {}

LEMMA DueWaits ==
  ASSUME Save \/ BeginLabel \/ BeginBackfill
  PROVE  /\ source'.at \in {"live", "back", "label"} /\ (source'.at = "label" => source'.due \subseteq pending')
         /\ chainFile' = chainFile \/ chainFile'.pending = pending'
<1>1. ASSUME Save PROVE source'.at = "live" /\ chainFile'.pending = pending'
  BY <1>1 DEF Save, Resting, Await, Position
<1>2. ASSUME BeginLabel PROVE /\ source'.at \in {"live", "label"} /\ (source'.at = "label" => source'.due \subseteq pending')
                              /\ chainFile' = chainFile \/ chainFile'.pending = pending'
  <2>1. PICK due \in Labels(pending') :
          IF due = {} THEN Save ELSE source' = Await("label", 0, due) /\ UNCHANGED chainFile
    BY <1>2 DEF BeginLabel
  <2>2. due \subseteq pending'
    BY <2>1 DEF Labels
  <2> QED BY <1>1, <2>1, <2>2 DEF Await
<1> QED BY <1>1, <1>2 DEF BeginBackfill, Await

(* New launches are of tokens that are not known: neither pending in one   *)
(* of the two places, nor labelled.                                        *)
LEMMA SourceSame ==
  ASSUME PythonAssumption, TypeOK, SameLabel, Tracked, NEW found \in SUBSET Pools, Admit(found),
         UNCHANGED <<live, tokens, stateFile>>, source'.at \in {"live", "scan", "back", "label"},
         source'.at = "label" => source'.due \subseteq pending',
         chainFile' = chainFile \/ chainFile'.pending = pending'
  PROVE  SameLabel'
<1> DEFINE new == {p \in found : /\ p.token \notin known
                                 /\ \A q \in found : q.token = p.token => p.block <= q.block}
<1>1. pending' = pending \cup new /\ known' = known \cup {p.token : p \in new}
  BY DEF Admit
<1>2. live
  BY DEF SameLabel, Tracked
<1>3. ASSUME NEW p \in new, NEW q \in new, p.token = q.token PROVE p = q
  <2>1. p.block <= q.block /\ q.block <= p.block /\ p.block \in Nat /\ q.block \in Nat
    BY <1>3, Constants
  <2>2. p.block = q.block
    BY <2>1
  <2> QED BY <1>3, <2>2, Constants
<1>4. \A p \in new : p.token \in Tokens /\ tokens[p.token] = 0 /\ p.token \notin known
  BY Constants DEF SameLabel
<1>5. \A p \in pending \cup chainFile.pending : p.token \in known
  BY DEF SameLabel
<1> HIDE DEF new
<1>6. OneEach(pending') /\ LabelsAgree(pending', tokens')
  BY <1>1, <1>3, <1>4, <1>5 DEF SameLabel, OneEach, LabelsAgree
<1>7. \A p \in pending', q \in chainFile.pending : p.token = q.token => p = q
  BY <1>1, <1>4, <1>5 DEF SameLabel
<1>8. \A p \in pending' \cup chainFile.pending : p.token \in known'
  BY <1>1, <1>5
<1>9. \A t \in Tokens : tokens'[t] # 0 => t \in known'
  BY <1>1 DEF SameLabel
<1>10. CASE chainFile' = chainFile
  BY <1>2, <1>6, <1>7, <1>8, <1>9, <1>10 DEF SameLabel, Tracked, OneEach, LabelsAgree
<1>11. CASE chainFile'.pending = pending'
  BY <1>2, <1>6, <1>8, <1>9, <1>11 DEF SameLabel, Tracked, OneEach, LabelsAgree
<1> QED BY <1>10, <1>11

LEMMA SameAfterNothing ==
  ASSUME PythonAssumption, TypeOK, SameLabel, Tracked, UNCHANGED chain,
         UNCHANGED <<live, tokens, stateFile>>, source'.at \in {"live", "scan", "back", "label"},
         source'.at = "label" => source'.due \subseteq pending',
         chainFile' = chainFile \/ chainFile'.pending = pending'
  PROVE  SameLabel'
<1>1. Admit({})
  BY DEF Admit, chain
<1> QED BY <1>1, SourceSame

LEMMA FinishSame ==
  ASSUME PythonAssumption, TypeOK, SameLabel, NEW p \in source.due, Finish(p)
  PROVE  /\ SameLabel'
         /\ \A t \in Tokens : tokens'[t] = tokens[t] \/ (t = p.token /\ tokens[t] = 0 /\ tokens'[t] = p.block)
<1>1. p \in pending /\ p \in Pools /\ p.token \in Tokens /\ p.block \in Nat /\ p.block > 0
  BY Constants DEF SameLabel, Finish, TypeOK, Stage
<1>2. /\ UNCHANGED <<known, live, stateFile>> /\ pending' = pending \ {p} /\ Tracked /\ live
      /\ source.at = "label" /\ NextLaunch(p)
  BY DEF Finish, Tracked, SameLabel
<1>3. \A t \in Tokens : tokens'[t] = tokens[t] \/ (t = p.token /\ tokens[t] = 0 /\ tokens'[t] = p.block)
  <2>1. CASE Upsert(p.token, p.block)
    <3>1. \A t \in Tokens : tokens'[t] = IF t = p.token THEN p.block ELSE tokens[t]
      BY <1>1, <2>1 DEF Upsert, TypeOK
    <3>2. tokens[p.token] # 0 => tokens[p.token] = p.block
      BY <1>1 DEF SameLabel, LabelsAgree
    <3> QED BY <3>1, <3>2
  <2>2. CASE UNCHANGED tokens
    BY <2>2
  <2> QED BY <2>1, <2>2 DEF Finish
<1>4. \A q \in pending \cup chainFile.pending : q.token = p.token => q = p
  BY <1>1 DEF SameLabel, OneEach
<1>5. \A q \in pending \cup chainFile.pending : q.token \in Tokens
  BY Constants DEF TypeOK, Place
<1>6. LabelsAgree(pending \cup chainFile.pending, tokens')
  BY <1>1, <1>3, <1>4, <1>5 DEF SameLabel, LabelsAgree
<1>7. \A t \in Tokens : stateFile.tokens[t] # 0 => tokens'[t] = stateFile.tokens[t]
  BY <1>3 DEF SameLabel
<1>8. \A t \in Tokens : tokens'[t] # 0 => t \in known
  BY <1>1, <1>2, <1>3 DEF SameLabel
<1>9. /\ source'.at \in {"live", "label"} /\ (source'.at = "label" => source'.due \subseteq pending')
      /\ chainFile' = chainFile \/ chainFile'.pending = pending'
  <2>1. CASE source.due \ {p} = {}
    BY <1>2, <2>1 DEF NextLaunch, Save, Resting, Await, Position
  <2>2. CASE source.due \ {p} # {}
    BY <1>2, <2>2 DEF NextLaunch, SameLabel, TypeOK, Stage
  <2> QED BY <2>1, <2>2
<1>10. OneEach(pending') /\ OneEach(chainFile'.pending)
       /\ \A q \in pending', r \in chainFile'.pending : q.token = r.token => q = r
  BY <1>2, <1>9 DEF SameLabel, OneEach
<1>11. LabelsAgree(pending', tokens') /\ LabelsAgree(chainFile'.pending, tokens')
  BY <1>2, <1>6, <1>9 DEF LabelsAgree
<1>12. \A q \in pending' \cup chainFile'.pending : q.token \in known
  BY <1>2, <1>9 DEF SameLabel
<1> QED BY <1>2, <1>3, <1>7, <1>8, <1>9, <1>10, <1>11, <1>12 DEF SameLabel, Tracked, OneEach, LabelsAgree

LEMMA SameInit == ASSUME PythonAssumption, Init PROVE SameLabel
<1>1. pending = {} /\ chainFile.pending = {} /\ \A t \in Tokens : tokens[t] = 0 /\ stateFile.tokens[t] = 0
  BY DEF Init, NoFile, Empty
<1>2. source.at = IF live THEN "init" ELSE "arrivals"
  BY DEF Init, Starting, Await
<1> QED BY <1>1, <1>2 DEF SameLabel, Tracked, OneEach, LabelsAgree

(* The process ends: what the next one reads from state.json is not newer  *)
(* than what this one knew, and the market's labels come without launches. *)
LEMMA BootSame ==
  ASSUME PythonAssumption, TypeOK, SameLabel, NEW state, Boot(state), UNCHANGED <<live, chainFile>>,
         state = stateFile \/ state = Snapshot, stateFile' = state
  PROVE  SameLabel'
<1>1. /\ pending' = {} /\ tokens' = state.tokens /\ stateFile'.tokens = tokens'
      /\ source'.at = IF live THEN "init" ELSE "arrivals"
  BY DEF Boot, Starting, Await
<1>2. \A t \in Tokens : tokens'[t] # 0 => tokens'[t] = tokens[t]
  BY <1>1 DEF SameLabel, Snapshot
<1>3. \A p \in chainFile.pending : p.token \in Tokens
  BY Constants DEF TypeOK, Place
<1>4. LabelsAgree(chainFile.pending, tokens')
  BY <1>2, <1>3 DEF SameLabel, LabelsAgree
<1>5. OneEach(pending') /\ LabelsAgree(pending', tokens')
  BY <1>1 DEF OneEach, LabelsAgree
<1>6. OneEach(chainFile'.pending) /\ LabelsAgree(chainFile'.pending, tokens')
  BY <1>4 DEF SameLabel
<1>7. ~ Tracked' /\ source'.at # "label"
  BY <1>1 DEF Tracked
<1>8. (live' => source'.at # "arrivals") /\ (~ live' => source'.at = "arrivals" /\ chainFile'.pending = {})
  BY <1>1 DEF SameLabel
<1> QED BY <1>1, <1>5, <1>6, <1>7, <1>8 DEF SameLabel, OneEach, LabelsAgree

LEMMA SameStep ==
  ASSUME PythonAssumption, TypeOK, SameLabel, [Next]_vars
  PROVE  SameLabel'
<1>1. CASE InitSource
  <2>1. source.at = "init" /\ live /\ source'.at = "live" /\ UNCHANGED <<live, tokens, chainFile, stateFile>>
    BY <1>1 DEF InitSource, SameLabel, Resting, Await, agent, files
  <2>2. pending' = chainFile.pending /\ known' = {t \in Tokens : tokens[t] # 0} \cup {p.token : p \in chainFile.pending}
    BY <1>1 DEF InitSource, NoFile, BeginAt
  <2> QED BY <2>1, <2>2 DEF SameLabel, OneEach, LabelsAgree
<1>2. CASE LiveTick
  <2>1. Tracked /\ UNCHANGED chain /\ UNCHANGED <<live, tokens, stateFile>>
    BY <1>2 DEF LiveTick, Tracked, agent
  <2>2. /\ source'.at \in {"live", "scan", "back", "label"} /\ (source'.at = "label" => source'.due \subseteq pending')
        /\ chainFile' = chainFile \/ chainFile'.pending = pending'
    <3>1. CASE cursor < now
      BY <1>2, <3>1 DEF LiveTick, Await
    <3>2. CASE ~ (cursor < now)
      BY <1>2, <3>2, DueWaits DEF LiveTick
    <3> QED BY <3>1, <3>2
  <2> QED BY <2>1, <2>2, SameAfterNothing
<1>3. CASE LiveScan
  <2> DEFINE end == Min({source.to, cursor + Span})
             found == Between(cursor + 1, end)
  <2>1. Tracked /\ UNCHANGED <<live, tokens, stateFile>> /\ found \in SUBSET Pools /\ Admit(found)
    BY <1>3 DEF LiveScan, Tracked, agent, Between
  <2>2. /\ source'.at \in {"live", "scan", "back", "label"} /\ (source'.at = "label" => source'.due \subseteq pending')
        /\ chainFile' = chainFile \/ chainFile'.pending = pending'
    <3>1. CASE end < source.to
      BY <1>3, <3>1 DEF LiveScan
    <3>2. CASE ~ (end < source.to)
      BY <1>3, <3>2, DueWaits DEF LiveScan
    <3> QED BY <3>1, <3>2
  <2> HIDE DEF found
  <2> QED BY <2>1, <2>2, SourceSame
<1>4. CASE Backfill
  <2> DEFINE found == {p \in Between(Max({back.from, back.at - Span + 1}), back.at) : p.token \in Sampled}
  <2>1. Tracked /\ UNCHANGED <<live, tokens, stateFile>> /\ found \in SUBSET Pools /\ Admit(found)
    BY <1>4 DEF Backfill, Tracked, agent, Between
  <2>2. /\ source'.at \in {"live", "scan", "back", "label"} /\ (source'.at = "label" => source'.due \subseteq pending')
        /\ chainFile' = chainFile \/ chainFile'.pending = pending'
    BY <1>4, DueWaits DEF Backfill
  <2> HIDE DEF found
  <2> QED BY <2>1, <2>2, SourceSame
<1>5. CASE Fails
  <2>1. Tracked /\ UNCHANGED chain /\ UNCHANGED <<live, tokens, stateFile>>
    BY <1>5 DEF Fails, Tracked, agent
  <2>2. /\ source'.at \in {"live", "scan", "back", "label"} /\ (source'.at = "label" => source'.due \subseteq pending')
        /\ chainFile' = chainFile \/ chainFile'.pending = pending'
    BY <1>5, DueWaits DEF Fails
  <2> QED BY <2>1, <2>2, SameAfterNothing
<1>6. CASE CommitRun
  <2>1. stateFile'.tokens = tokens /\ UNCHANGED <<tokens, live, source, pending, known, chainFile>>
    BY <1>6, CommitFacts DEF CommitRun, chain
  <2> QED BY <2>1 DEF SameLabel, Tracked
<1>7. ASSUME Ends PROVE SameLabel'
  BY <1>7, BootSame DEF Ends
<1>8. CASE StopAgent
  BY <1>8, BootSame DEF StopAgent
<1>9. CASE StopSource
  <2>1. source.at # "stopped" /\ source'.at = "stopped" /\ UNCHANGED <<live, tokens, pending, known, stateFile>>
    BY <1>9 DEF StopSource, Await, chain, agent
  <2>2. chainFile'.pending = IF Ready THEN pending ELSE chainFile.pending
    BY <1>9 DEF StopSource, Position
  <2> QED BY <2>1, <2>2 DEF SameLabel, Tracked, OneEach, LabelsAgree
<1>10. ASSUME NEW t \in Tokens, Arrive(t) PROVE SameLabel'
  <2>1. /\ source.at = "arrivals" /\ tokens[t] = 0 /\ UNCHANGED <<live, source, pending, known, chainFile, stateFile>>
        /\ \A u \in Tokens : u # t => tokens'[u] = tokens[u]
    BY <1>10 DEF Arrive, Upsert, TypeOK, chain, files
  <2>2. pending = {} /\ chainFile.pending = {} /\ stateFile.tokens[t] = 0 /\ ~ live
    BY <2>1 DEF SameLabel
  <2> QED BY <2>1, <2>2 DEF SameLabel, Tracked, OneEach, LabelsAgree
<1>11. Mine \/ Train \/ TrainFails \/ (\E p \in Personas : Serve(p)) \/ UNCHANGED vars =>
       UNCHANGED <<live, source, pending, known, tokens, chainFile, stateFile>>
  BY DEF Mine, Train, TrainFails, Serve, vars, chain, agent, files
<1>12. UNCHANGED <<live, source, pending, known, tokens, chainFile, stateFile>> => SameLabel'
  BY DEF SameLabel, Tracked
<1> QED BY <1>1, <1>2, <1>3, <1>4, <1>5, <1>6, <1>7, <1>8, <1>9, <1>10, <1>11, <1>12, FinishSame
  DEF Next, Source, Crash, KilledInRun

Ordered(cs, last) ==
  \A i \in DOMAIN cs : cs[i].at <= last /\ \A j \in DOMAIN cs : i <= j => cs[i].at <= cs[j].at
Noted(ls, ts) ==
  \A p \in Personas, t \in Tokens : ts[t] # 0 => \A i \in DOMAIN ls[p].cycles :
    NameOf[t] \in ls[p].cycles[i].names /\ ts[t] > ls[p].cycles[i].at => NameOf[t] \in ls[p].stolen

(* Kept cycles are in the order of their dates, none later than the run in *)
(* the thread; thefts are noted in memory and in state.json.               *)
TheftInv ==
  /\ training.on => training.at <= now
  /\ \A p \in Personas : /\ Ordered(ledgers[p].cycles, IF training.on THEN training.at ELSE now)
                         /\ Ordered(stateFile.ledgers[p].cycles, now)
  /\ Noted(ledgers, tokens) /\ Noted(stateFile.ledgers, stateFile.tokens)

LEMMA OrderedLater ==
  ASSUME NEW l \in Ledger, NEW m \in Nat, NEW n \in Nat, m <= n, Ordered(l.cycles, m)
  PROVE  Ordered(l.cycles, n)
<1>1. \A i \in DOMAIN l.cycles : l.cycles[i].at \in Nat
  BY LedgerFacts DEF Cycle
<1> QED BY <1>1 DEF Ordered

(* Find_committed looks at the earliest cycle: where any cycle came before *)
(* the launch, so did that one.                                            *)
LEMMA UpsertNotes ==
  ASSUME PythonAssumption, TypeOK, TheftInv, NEW t \in Tokens, NEW launched \in Nat, Upsert(t, launched),
         tokens[t] = 0 \/ tokens[t] = launched
  PROVE  Noted(ledgers', tokens')
<1>1. \A p \in Personas : ledgers'[p].cycles = ledgers[p].cycles /\ ledgers[p].stolen \subseteq ledgers'[p].stolen
  BY UpsertType
<1>2. \A u \in Tokens : tokens'[u] = IF u = t THEN launched ELSE tokens[u]
  BY DEF Upsert, TypeOK
<1> SUFFICES ASSUME NEW p \in Personas, NEW u \in Tokens, tokens'[u] # 0, NEW i \in DOMAIN ledgers[p].cycles,
                    NameOf[u] \in ledgers[p].cycles[i].names, tokens'[u] > ledgers[p].cycles[i].at
             PROVE  NameOf[u] \in ledgers'[p].stolen
  BY <1>1 DEF Noted
<1>3. CASE tokens'[u] = tokens[u]
  BY <1>1, <1>3 DEF TheftInv, Noted
<1>4. CASE tokens'[u] # tokens[u]
  <2> DEFINE l == ledgers[p]
             S == Holding(l, NameOf[t])
  <2>1. u = t /\ tokens[t] = 0 /\ tokens'[t] = launched
    BY <1>2, <1>4
  <2>2. l \in Ledger
    BY DEF TypeOK
  <2>3. DOMAIN l.cycles = 1..Len(l.cycles) /\ Len(l.cycles) \in Nat
        /\ \A j \in DOMAIN l.cycles : l.cycles[j].at \in Nat
    BY <2>2, LedgerFacts DEF Cycle
  <2>4. S \in SUBSET (1..Len(l.cycles)) /\ i \in S
    BY <2>1, <2>3 DEF Holding
  <2>5. PICK k \in S : \A j \in S : k <= j
    <3> HIDE DEF S, l
    <3> QED BY <2>3, <2>4, LeastExists
  <2>6. l.cycles[k].at <= l.cycles[i].at
    BY <2>3, <2>4, <2>5 DEF TheftInv, Ordered
  <2>7. launched > l.cycles[k].at
    BY <2>1, <2>3, <2>4, <2>5, <2>6
  <2>8. NameOf[t] \in l.stolen \/ Stolen(l, NameOf[t], launched)
    BY <2>4, <2>5, <2>7 DEF Stolen
  <2>9. ledgers'[p] = IF tokens[t] = 0 /\ Stolen(l, NameOf[t], launched)
                      THEN [l EXCEPT !.stolen = @ \cup {NameOf[t]}] ELSE l
    BY DEF Upsert
  <2>10. CASE Stolen(l, NameOf[t], launched)
    <3>1. ledgers'[p].stolen = l.stolen \cup {NameOf[t]}
      BY <2>1, <2>2, <2>9, <2>10 DEF Ledger
    <3> QED BY <2>1, <3>1
  <2> QED BY <1>1, <2>1, <2>8, <2>10
<1> QED BY <1>3, <1>4

LEMMA UpsertTheft ==
  ASSUME PythonAssumption, TypeOK, TheftInv, NEW t \in Tokens, NEW launched \in Nat, Upsert(t, launched),
         tokens[t] = 0 \/ tokens[t] = launched, UNCHANGED <<now, training, stateFile>>
  PROVE  TheftInv'
BY UpsertNotes, UpsertType DEF TheftInv, Ordered, Noted

LEMMA CommitTheft ==
  ASSUME PythonAssumption, TypeOK, TheftInv, CommitRun
  PROVE  TheftInv'
<1>1. PICK cycle \in Cycles : ledgers' = [p \in Personas |-> Published(ledgers[p], cycle[p])]
  BY DEF CommitRun
<1>2. /\ stateFile'.ledgers = ledgers' /\ stateFile'.tokens = tokens /\ UNCHANGED <<now, tokens>>
      /\ training.on /\ ~ training'.on
  BY CommitFacts DEF CommitRun, Untrained
<1>3. ASSUME NEW p \in Personas PROVE Ordered(ledgers'[p].cycles, now)
  <2> DEFINE l == ledgers[p]
             q == Published(l, cycle[p])
             c == [at |-> training.at, names |-> cycle[p]]
  <2>1. l \in Ledger /\ cycle[p] \in SUBSET Names
    BY DEF TypeOK, Cycles
  <2>2. PICK d \in {0, 1} :
          /\ Len(q.cycles) = Len(l.cycles) + 1 - d /\ DOMAIN q.cycles = 1..Len(q.cycles)
          /\ \A i \in 1..Len(q.cycles) : q.cycles[i] = IF i + d <= Len(l.cycles) THEN l.cycles[i + d] ELSE c
    BY <2>1, PublishedFacts
  <2>3. DOMAIN l.cycles = 1..Len(l.cycles) /\ Len(l.cycles) \in Nat
        /\ \A i \in DOMAIN l.cycles : l.cycles[i].at \in Nat
    BY <2>1, LedgerFacts DEF Cycle
  <2>4. c.at = training.at /\ training.at \in Nat /\ now \in Nat /\ training.at <= now
    BY <1>2 DEF TypeOK, TheftInv
  <2>5. Ordered(l.cycles, training.at)
    BY <1>2 DEF TheftInv
  <2>6. ledgers'[p] = q
    BY <1>1
  <2> HIDE DEF q, c, l
  <2>7. \A i \in 1..Len(l.cycles) : l.cycles[i].at <= training.at /\ \A j \in 1..Len(l.cycles) : i <= j => l.cycles[i].at <= l.cycles[j].at
    BY <2>3, <2>5 DEF Ordered
  <2>8. ASSUME NEW i \in 1..Len(q.cycles) PROVE q.cycles[i].at \in Nat /\ q.cycles[i].at <= training.at
    <3>1. CASE i + d <= Len(l.cycles)
      <4>1. i + d \in 1..Len(l.cycles) /\ q.cycles[i] = l.cycles[i + d]
        BY <2>2, <2>3, <2>8, <3>1
      <4> QED BY <2>3, <2>7, <4>1
    <3>2. CASE ~ (i + d <= Len(l.cycles))
      <4>1. q.cycles[i] = c
        BY <2>2, <3>2
      <4> QED BY <2>4, <4>1
    <3> QED BY <3>1, <3>2
  <2>9. ASSUME NEW i \in 1..Len(q.cycles), NEW j \in 1..Len(q.cycles), i <= j PROVE q.cycles[i].at <= q.cycles[j].at
    <3>1. CASE j + d <= Len(l.cycles)
      <4>1. i + d \in 1..Len(l.cycles) /\ j + d \in 1..Len(l.cycles) /\ i + d <= j + d
        BY <2>2, <2>3, <2>9, <3>1
      <4>2. q.cycles[i] = l.cycles[i + d] /\ q.cycles[j] = l.cycles[j + d]
        BY <2>2, <3>1, <4>1
      <4> QED BY <2>7, <4>1, <4>2
    <3>2. CASE ~ (j + d <= Len(l.cycles))
      BY <2>2, <2>4, <2>8, <3>2
    <3> QED BY <3>1, <3>2
  <2>10. \A i \in DOMAIN q.cycles : q.cycles[i].at <= now
    BY <2>2, <2>4, <2>8
  <2>11. \A i \in DOMAIN q.cycles, j \in DOMAIN q.cycles : i <= j => q.cycles[i].at <= q.cycles[j].at
    BY <2>2, <2>9
  <2>12. Ordered(q.cycles, now)
    BY <2>10, <2>11 DEF Ordered
  <2> QED BY <2>6, <2>12
<1>4. Noted(ledgers', tokens)
  <2> SUFFICES ASSUME NEW p \in Personas, NEW t \in Tokens, tokens[t] # 0, NEW i \in DOMAIN ledgers'[p].cycles,
                      NameOf[t] \in ledgers'[p].cycles[i].names, tokens[t] > ledgers'[p].cycles[i].at
               PROVE  NameOf[t] \in ledgers'[p].stolen
    BY DEF Noted
  <2>1. ledgers[p] \in Ledger /\ cycle[p] \in SUBSET Names /\ ledgers'[p] = Published(ledgers[p], cycle[p])
    BY <1>1 DEF TypeOK, Cycles
  <2>2. ledgers'[p].stolen = ledgers[p].stolen
    BY <2>1, PublishedType
  <2>3. NameOf[t] \notin cycle[p]
    BY DEF Cycles, Allowed, Deployed
  <2>4. \/ \E j \in DOMAIN ledgers[p].cycles : ledgers'[p].cycles[i] = ledgers[p].cycles[j]
        \/ ledgers'[p].cycles[i] = [at |-> training.at, names |-> cycle[p]]
    BY <2>1, PublishedKept
  <2> QED BY <2>2, <2>3, <2>4 DEF TheftInv, Noted
<1> QED BY <1>2, <1>3, <1>4 DEF TheftInv

LEMMA TheftInit == ASSUME PythonAssumption, Init PROVE TheftInv
BY DEF Init, Empty, Untrained, TheftInv, Ordered, Noted

LEMMA TheftStep ==
  ASSUME PythonAssumption, TypeOK, SameLabel, TheftInv, [Next]_vars
  PROVE  TheftInv'
<1>1. CASE Mine
  <2>1. now' = now + 1 /\ now \in Nat /\ training.at \in Nat /\ UNCHANGED <<tokens, ledgers, training, stateFile>>
    BY <1>1 DEF Mine, TypeOK, agent, files
  <2>2. \A p \in Personas : ledgers[p] \in Ledger /\ stateFile.ledgers[p] \in Ledger
    BY DEF TypeOK, State
  <2>3. \A p \in Personas : Ordered(stateFile.ledgers[p].cycles, now + 1)
                            /\ (~ training.on => Ordered(ledgers[p].cycles, now + 1))
    BY <2>1, <2>2, OrderedLater DEF TheftInv
  <2> QED BY <2>1, <2>3 DEF TheftInv
<1>2. CASE Train
  BY <1>2 DEF Train, TheftInv, TypeOK, chain, files
<1>3. CASE TrainFails
  <2>1. UNCHANGED <<now, tokens, ledgers, stateFile>> /\ training.on /\ ~ training'.on
    BY <1>3 DEF TrainFails, Untrained, agent, files
  <2>2. \A p \in Personas : Ordered(ledgers[p].cycles, now)
    BY <2>1, OrderedLater DEF TheftInv, TypeOK
  <2> QED BY <2>1, <2>2 DEF TheftInv
<1>4. CASE CommitRun
  BY <1>4, CommitTheft
<1>5. ASSUME NEW p \in source.due, Finish(p) PROVE TheftInv'
  <2>1. p.token \in Tokens /\ p.block \in Nat
    BY Constants DEF TypeOK, Stage
  <2>2. UNCHANGED <<now, training, stateFile>> /\ (Upsert(p.token, p.block) \/ UNCHANGED <<tokens, ledgers>>)
    BY <1>5 DEF Finish
  <2>3. tokens[p.token] = 0 \/ tokens[p.token] = p.block
    BY <1>5 DEF Finish, SameLabel, LabelsAgree
  <2>4. UNCHANGED <<tokens, ledgers>> => TheftInv'
    BY <2>2 DEF TheftInv
  <2> QED BY <2>1, <2>2, <2>3, <2>4, UpsertTheft
<1>6. ASSUME NEW t \in Tokens, Arrive(t) PROVE TheftInv'
  <2>1. PICK launched \in 1..now - Window : Upsert(t, launched)
    BY <1>6 DEF Arrive
  <2>2. launched \in Nat
    BY Constants DEF TypeOK
  <2>3. UNCHANGED <<now, training, stateFile>> /\ tokens[t] = 0
    BY <1>6 DEF Arrive, files
  <2> QED BY <2>1, <2>2, <2>3, UpsertTheft
<1>7. ASSUME Ends PROVE TheftInv'
  BY <1>7 DEF Ends, Boot, TheftInv, Untrained
<1>8. CASE StopAgent
  <2>1. \A p \in Personas : Ordered(ledgers[p].cycles, now)
    <3>1. training.on => training.at <= now
      BY DEF TheftInv
    <3> QED BY <3>1, OrderedLater DEF TheftInv, TypeOK
  <2> QED BY <1>8, <2>1 DEF StopAgent, Boot, Snapshot, TheftInv, Untrained
<1>9. InitSource \/ LiveTick \/ LiveScan \/ Backfill \/ Fails \/ StopSource \/ (\E p \in Personas : Serve(p)) \/ UNCHANGED vars =>
      UNCHANGED <<now, tokens, ledgers, training, stateFile>>
  BY DEF InitSource, LiveTick, LiveScan, Backfill, Fails, StopSource, Serve, vars, agent, files
<1>10. UNCHANGED <<now, tokens, ledgers, training, stateFile>> => TheftInv'
  BY DEF TheftInv
<1> QED BY <1>1, <1>2, <1>3, <1>4, <1>5, <1>6, <1>7, <1>8, <1>9, <1>10 DEF Next, Source, Crash, KilledInRun

(* Every labelled token that came after a cycle still kept with its name   *)
(* is recorded as a theft, in whatever order training, labelling, stops    *)
(* and crashes happen (agent.py, retrain, commit_run, _check_theft).       *)
THEOREM TheftsAlwaysNoted == ASSUME PythonAssumption PROVE Spec => []TheftsNoted
<1>1. Init => SameLabel /\ TheftInv
  BY SameInit, TheftInit
<1>2. TypeOK /\ SameLabel /\ TheftInv /\ [Next]_vars => SameLabel' /\ TheftInv'
  BY SameStep, TheftStep
<1>3. TheftInv => TheftsNoted
  BY LabelledFacts DEF TheftInv, Noted, TheftsNoted
<1> QED BY <1>1, <1>2, <1>3, TypeCorrect, PTL DEF Spec

-----------------------------------------------------------------------------
(* Both servers side by side.  A step of one leaves the other alone, so    *)
(* what is proved of each holds of the two.                                *)
P == INSTANCE CommitmentProofs WITH
  tokens <- nodeTokens, ledgers <- nodeLedgers, runId <- nodeRunId, log <- nodeLog,
  crashes <- nodeCrashes, served <- nodeServed,
  Vocabulary <- NodeVocabulary, NameOf <- NodeNameOf, Keep <- NodeKeep, Window <- NodeWindow,
  MaxRuns <- NodeRuns, MaxSaves <- 0, MaxServes <- 0, MaxCrashes <- 0

LEMMA SameCycles ==
  \A k : Node!Generated(k) = P!Generated(k) /\ Node!Personas = P!Personas /\ Node!Cycles = P!Cycles
<1>1. Node!Personas = P!Personas
  BY DEF Node!Personas, P!Personas
<1>2. \A k : Node!Known(k) <=> P!Known(k)
  BY DEF Node!Known, P!Known
<1>3. Node!DeployedNames = P!DeployedNames
  BY <1>2 DEF Node!DeployedNames, P!DeployedNames
<1>4. \A l, d : Node!Allowed(l, d) = P!Allowed(l, d)
  BY DEF Node!Allowed, P!Allowed
<1>5. \A k : Node!Generated(k) = P!Generated(k)
  BY <1>3, <1>4, Zenon DEF Node!Generated, P!Generated
<1>6. Node!Cycles = P!Cycles
  BY <1>1, <1>5 DEF Node!Cycles, P!Cycles
<1> QED BY <1>1, <1>5, <1>6

LEMMA SameRun ==
  \A cycle, n, m : Node!RunTo(cycle, n, m) <=> P!RunTo(cycle, n, m)
<1>1. \A l, c : Node!Demoted(l, c) <=> P!Demoted(l, c)
  BY DEF Node!Demoted, P!Demoted
<1>2. \A l, c : Node!Demotion(l, c) = P!Demotion(l, c)
  BY DEF Node!Demotion, P!Demotion
<1>3. \A s, cap : Node!Newest(s, cap) = P!Newest(s, cap)
  BY Zenon DEF Node!Newest, P!Newest
<1>4. \A s, cap : Node!Latest(s, cap) = P!Latest(s, cap)
  BY Zenon DEF Node!Latest, P!Latest
<1>5. \A l, c : Node!Eliminated(l, c) = P!Eliminated(l, c)
  BY <1>1, <1>2, <1>3, Zenon DEF Node!Eliminated, P!Eliminated
<1>6. \A l, c : Node!Published(l, c) = P!Published(l, c)
  BY <1>4, <1>5, Zenon DEF Node!Published, P!Published
<1>7. \A k, c : Node!Rows(k, c) = P!Rows(k, c)
  BY DEF Node!Rows, P!Rows
<1>8. \A cycle, m : Node!Appended(cycle, m) = P!Appended(cycle, m)
  BY <1>7, Zenon DEF Node!Appended, P!Appended
<1>9. Node!Personas = P!Personas
  BY DEF Node!Personas, P!Personas
<1> QED BY <1>6, <1>8, <1>9, Zenon DEF Node!RunTo, P!RunTo

LEMMA SameUpsert ==
  \A t, status, n : Node!Upsert(t, status, n) <=> P!Upsert(t, status, n)
<1>1. \A l, n : Node!Holding(l, n) = P!Holding(l, n)
  BY DEF Node!Holding, P!Holding
<1>2. \A l, n : Node!First(l, n) = P!First(l, n)
  BY <1>1, Zenon DEF Node!First, P!First
<1>3. \A l, n : Node!FindCommitted(l, n) <=> P!FindCommitted(l, n)
  BY <1>1 DEF Node!FindCommitted, P!FindCommitted
<1>4. \A l, t, n : Node!Theft(l, t, n) <=> P!Theft(l, t, n)
  BY <1>2, <1>3, Zenon DEF Node!Theft, P!Theft
<1>5. \A l, t, n : Node!TheftRecord(l, t, n) = P!TheftRecord(l, t, n)
  BY <1>2, Zenon DEF Node!TheftRecord, P!TheftRecord
<1>6. \A s, cap : Node!Newest(s, cap) = P!Newest(s, cap)
  BY Zenon DEF Node!Newest, P!Newest
<1>7. \A l, t, n : Node!Checked(l, t, n) = P!Checked(l, t, n)
  BY <1>4, <1>5, <1>6, Zenon DEF Node!Checked, P!Checked
<1>8. \A t : Node!Known(t) <=> P!Known(t)
  BY DEF Node!Known, P!Known
<1>9. Node!Personas = P!Personas
  BY DEF Node!Personas, P!Personas
<1> QED BY <1>7, <1>8, <1>9, Zenon DEF Node!Upsert, P!Upsert

LEMMA NodeSteps == [NextServer]_allVars => [P!Next]_(P!vars)
<1>1. Node!Tick => P!Tick
  BY DEF Node!Tick, Node!agent, Node!budgets, P!Tick, P!agent, P!budgets
<1>2. Node!RunCycle => P!RunCycle
  BY SameCycles, SameRun, Zenon DEF Node!RunCycle, Node!budgets, P!RunCycle, P!budgets
<1>3. \A k : Node!AppendFails(k) => P!AppendFails(k)
  BY SameCycles, SameRun, Zenon DEF Node!AppendFails, P!AppendFails
<1>4. \A k : Node!Watch(k) => P!Watch(k)
  BY SameUpsert, Zenon DEF Node!Watch, Node!Known, Node!ReadName, P!Watch, P!Known, P!ReadName
<1>5. \A k : Node!Label(k) => P!Label(k)
  BY SameUpsert, Zenon DEF Node!Label, Node!ReadName, P!Label, P!ReadName
<1>6. \A k : Node!Remove(k) => P!Remove(k)
  BY DEF Node!Remove, Node!Absent, Node!budgets, P!Remove, P!Absent, P!budgets
<1>7. IsPython \/ UNCHANGED allVars => UNCHANGED P!vars
  BY DEF IsPython, allVars, node, P!vars, P!agent, P!budgets
<1>8. Node!Personas = P!Personas
  BY DEF Node!Personas, P!Personas
<1>9. NextServer => IsPython \/ P!Next
  BY <1>1, <1>2, <1>3, <1>4, <1>5, <1>6, <1>8, Zenon DEF NextServer, P!Next
<1> QED BY <1>7, <1>9

LEMMA PythonSteps == [NextServer]_allVars => [Next]_vars
<1>1. NextServer => Next \/ UNCHANGED vars
  BY DEF NextServer, IsNode, IsPython, Next, Source
<1>2. UNCHANGED allVars => UNCHANGED vars
  BY DEF allVars
<1> QED BY <1>1, <1>2

LEMMA NodeAsProved == SpecServer => P!Spec
<1>1. InitServer => P!Init
  BY DEF InitServer, Node!Init, Node!Fresh, Node!Absent, Node!EmptyLedger, Node!Personas,
         P!Init, P!Fresh, P!Absent, P!EmptyLedger, P!Personas
<1> QED BY <1>1, NodeSteps, PTL DEF SpecServer, P!Spec

(* Run together, each server behaves as its own specification says: the    *)
(* node server's agent.ts, the Python backend's agent.py and chain.py.     *)
THEOREM ServersBehave == SpecServer => Spec /\ Node!Spec
<1>1. InitServer => Init /\ Node!Init
  BY DEF InitServer
<1>2. [NextServer]_allVars => [Node!Next]_(Node!vars)
  <2>1. NextServer => Node!Next \/ IsPython
    BY DEF NextServer, Node!Next
  <2>2. IsPython \/ UNCHANGED allVars => UNCHANGED Node!vars
    BY DEF IsPython, allVars, node, Node!vars, Node!agent, Node!budgets
  <2> QED BY <2>1, <2>2
<1> QED BY <1>1, <1>2, PythonSteps, PTL DEF SpecServer, Spec, Node!Spec

(* The node server's records stand beside the Python backend's: thefts and *)
(* revisions of what is kept are recorded, through failed appends and      *)
(* names read late (agent.ts, upsert; ledger.ts, recordTheft, publish).    *)
THEOREM RecordsAlwaysStand == SpecServer => []RecordsStand
<1>1. P!CommitmentsAssumption
  BY ServersAssumption DEF Node!CommitmentsAssumption, Node!Personas, P!CommitmentsAssumption, P!Personas
<1>2. P!Spec => []P!RetainedTheftsNoted /\ []P!OneRecordPerTheft /\ []P!LeadersRecorded
  BY <1>1, P!TheftsNoted, P!TheftsRecordedOnce, P!RevisionsRecorded
<1>3. P!RetainedTheftsNoted /\ P!OneRecordPerTheft /\ P!LeadersRecorded => RecordsStand
  <2>1. P!RetainedTheftsNoted => Node!RetainedTheftsNoted
    <3>1. \A t : P!Known(t) <=> Node!Known(t)
      BY DEF P!Known, Node!Known
    <3>2. \A l : P!Retained(l) = Node!Retained(l)
      BY DEF P!Retained, Node!Retained
    <3>3. P!Personas = Node!Personas
      BY DEF P!Personas, Node!Personas
    <3> QED BY <3>1, <3>2, <3>3, Zenon DEF P!RetainedTheftsNoted, Node!RetainedTheftsNoted
  <2>2. P!OneRecordPerTheft => Node!OneRecordPerTheft
    <3>1. \A S : P!Cardinality(S) = Node!Cardinality(S)
      BY DEF P!Cardinality, Node!Cardinality
    <3> QED BY <3>1, Zenon DEF P!OneRecordPerTheft, Node!OneRecordPerTheft, P!Personas, Node!Personas
  <2>3. P!LeadersRecorded => Node!LeadersRecorded
    BY DEF P!LeadersRecorded, Node!LeadersRecorded, P!Personas, Node!Personas
  <2> QED BY <2>1, <2>2, <2>3 DEF RecordsStand
<1> QED BY <1>2, <1>3, NodeAsProved, PTL
=============================================================================
