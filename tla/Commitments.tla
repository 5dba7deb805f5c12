----------------------------- MODULE Commitments ------------------------------
(***************************************************************************)
(* Wassily's ideas, from the run that writes them to the record that one   *)
(* was taken: src/src/server/agent.ts, src/src/engine/ledger.ts and        *)
(* ideas.ts, src/src/server/persist.ts.                                    *)
(*                                                                         *)
(* Every run publishes a cycle of names for every persona: the ledger      *)
(* keeps it and a listener appends it to commitments.jsonl, before the     *)
(* event loop gets to a request.  A token that enters Agent.tokens is      *)
(* compared with the cycles that are kept; one launched after its name was *)
(* committed is a theft.  Ledgers, tokens and run id are in state.json,    *)
(* which is written every 30 seconds and at a stop; commitments.jsonl only *)
(* grows.  The model, its scores and the words are abstracted: a cycle is  *)
(* a set of names with a leader, any that the filters let through.         *)
(***************************************************************************)
EXTENDS Integers, FiniteSets, Sequences

CONSTANTS
  NPersonas,       \* PERSONAS, in the order runs publish for them
  Names,           \* names, case folded
  Vocabulary,      \* persona -> the names its words make, less those CONTENT_RULES reject
  Tokens, NameOf, Launched,   \* tokens, their names and launch times
  Unnamed,         \* the name of a token whose name could not be read
  NoLeader,        \* leader of a cycle without candidates
  Keep,            \* IdeaLedger.keep
  EliminatedCap, ExclusionCap,
  Window,          \* SITE.labelHours
  MaxClock, MaxRuns, MaxSaves, MaxServes, MaxCrashes, MaxAppendFails, MaxUnread   \* bounds of the model

Personas == 1..NPersonas

ASSUME CommitmentsAssumption ==
  /\ NPersonas \in Nat \ {0}
  /\ Vocabulary \in [Personas -> SUBSET Names]
  /\ NameOf \in [Tokens -> Names] /\ Launched \in [Tokens -> Nat]
  /\ Unnamed \notin Names /\ NoLeader \notin Names
  /\ Keep \in Nat \ {0} /\ ExclusionCap \in Nat \ {0}
  /\ EliminatedCap \in Nat /\ EliminatedCap >= Keep - 1
  /\ Window \in Nat /\ MaxClock \in Nat /\ MaxRuns \in Nat
  /\ MaxSaves \in Nat /\ MaxServes \in Nat
  /\ MaxCrashes \in Nat /\ MaxAppendFails \in Nat /\ MaxUnread \in Nat

Cycle == [id : Nat, run : Nat, at : Nat, names : SUBSET Names, lead : Names \cup {NoLeader}]
Elimination == [name : Names, ledCycle : Nat, demotedCycle : Nat]
Exclusion == [name : Names, firstCycle : Nat, firstSeenAt : Nat, token : Tokens]
Ledger == [next : Nat, cycles : Seq(Cycle), eliminated : Seq(Elimination),
           exclusions : Seq(Exclusion), stolen : SUBSET Names]
EmptyLedger == [next |-> 0, cycles |-> <<>>, eliminated |-> <<>>, exclusions |-> <<>>, stolen |-> {}]

TokenState == [status : {"absent", "pending", "labelled"}, name : Names \cup {Unnamed}]
Absent == [status |-> "absent", name |-> Unnamed]
Snapshot == [runId : Nat, tokens : [Tokens -> TokenState], ledgers : [Personas -> Ledger]]
Row == [persona : Personas, id : Nat, run : Nat, at : Nat, name : Names]

VARIABLES
  clock,
  runId, ledgers, tokens,   \* the Agent
  log,                      \* commitments.jsonl
  stored,                   \* state.json
  saves, serves, crashes, appendFails, unread,
  \* History variables: read by the properties only.
  served,                   \* rows a response has shown
  renamed                   \* tokens whose name changed after they entered

agent == <<runId, ledgers, tokens>>
budgets == <<saves, serves, crashes, appendFails, unread>>
vars == <<clock, agent, log, stored, budgets, served, renamed>>

Fresh == [runId |-> 0, tokens |-> [t \in Tokens |-> Absent], ledgers |-> [p \in Personas |-> EmptyLedger]]

Init ==
  /\ clock = 0
  /\ runId = Fresh.runId /\ ledgers = Fresh.ledgers /\ tokens = Fresh.tokens
  /\ log = {} /\ stored = Fresh
  /\ saves = 0 /\ serves = 0 /\ crashes = 0 /\ appendFails = 0 /\ unread = 0
  /\ served = {} /\ renamed = {}

Tick ==
  /\ clock < MaxClock
  /\ clock' = clock + 1
  /\ UNCHANGED <<agent, log, stored, budgets, served, renamed>>

-----------------------------------------------------------------------------
(* A run: train, generate a cycle for every persona, publish, log.         *)

Known(t) == tokens[t].status # "absent"
DeployedNames == {tokens[t].name : t \in {u \in Tokens : Known(u)}}

(* MUTANT: a stolen name is only rejected while its token is known.        *)
AllowedUnlessDeployed(l, deployed) == Names \ deployed

(* generateCycle: deployed names are rejected, stolen ones excluded.       *)
Allowed(l, deployed) == {n \in Names : n \notin deployed /\ n \notin l.stolen}

(* The cycles the generator may write for p: the seed is sha256 of the run *)
(* id and the ranking is the model's, so any names and any leader.         *)
Generated(p) ==
  LET allowed == Allowed(ledgers[p], DeployedNames) \cap Vocabulary[p] IN
  {c \in [id : {ledgers[p].next}, run : {runId + 1}, at : {clock},
          names : SUBSET allowed, lead : allowed \cup {NoLeader}] :
     IF c.names = {} THEN c.lead = NoLeader ELSE c.lead \in c.names}

(* MUTANT: the list keeps its oldest records.                              *)
Oldest(s, cap) == IF Len(s) > cap THEN SubSeq(s, Len(s) - cap + 1, Len(s)) ELSE s

Newest(s, cap) == IF Len(s) > cap THEN SubSeq(s, 1, cap) ELSE s
Latest(s, cap) == IF Len(s) > cap THEN Tail(s) ELSE s

(* The previous leader lost rank 1.                                        *)
Demoted(l, c) ==
  IF l.cycles = <<>> THEN FALSE
  ELSE LET lead == l.cycles[Len(l.cycles)].lead IN lead # NoLeader /\ lead # c.lead
Demotion(l, c) ==
  LET prev == l.cycles[Len(l.cycles)] IN
  [name |-> prev.lead, ledCycle |-> prev.id, demotedCycle |-> c.id]
Eliminated(l, c) ==
  IF Demoted(l, c) THEN Newest(<<Demotion(l, c)>> \o l.eliminated, EliminatedCap) ELSE l.eliminated

Published(l, c) ==
  [l EXCEPT !.next = l.next + 1, !.eliminated = Eliminated(l, c),
            !.cycles = Latest(Append(l.cycles, c), Keep)]

Rows(p, c) == [persona : {p}, id : {c.id}, run : {c.run}, at : {c.at}, name : c.names]

(* MUTANT: the last persona's cycle is not logged.                         *)
AppendedButLast(cycle, logged) == UNION {Rows(p, cycle[p]) : p \in 1..(logged - 1)}

(* Agent.publish for the personas up to `published`; the listener has      *)
(* appended the cycles of those up to `logged`.                            *)
Appended(cycle, logged) == UNION {Rows(p, cycle[p]) : p \in 1..logged}
RunTo(cycle, published, logged) ==
  /\ runId' = runId + 1
  /\ ledgers' = [p \in Personas |-> IF p <= published THEN Published(ledgers[p], cycle[p]) ELSE ledgers[p]]
  /\ log' = log \cup Appended(cycle, logged)

Cycles == {cycle \in [Personas -> UNION {Generated(p) : p \in Personas}] :
             \A p \in Personas : cycle[p] \in Generated(p)}

RunCycle ==
  /\ runId < MaxRuns
  /\ \E cycle \in Cycles : RunTo(cycle, NPersonas, NPersonas)
  /\ UNCHANGED <<clock, tokens, stored, budgets, served, renamed>>

(* The listener's append throws for persona k: its cycle is in the ledger, *)
(* not in the log, and the personas after it get none.  ChainSource's loops*)
(* catch the error and carry on.                                           *)
AppendFails(k) ==
  /\ runId < MaxRuns /\ appendFails < MaxAppendFails
  /\ \E cycle \in Cycles : RunTo(cycle, k, k - 1)
  /\ appendFails' = appendFails + 1
  /\ UNCHANGED <<clock, tokens, stored, saves, serves, crashes, unread, served, renamed>>

-----------------------------------------------------------------------------
(* Tokens come and go: Agent.upsert and Agent.remove.                      *)

Holding(l, n) == {i \in DOMAIN l.cycles : n \in l.cycles[i].names}
(* MUTANT: the latest commitment of a name is the one compared.            *)
LatestHolding(l, n) == CHOOSE i \in Holding(l, n) : \A j \in Holding(l, n) : j <= i
First(l, n) == CHOOSE i \in Holding(l, n) : \A j \in Holding(l, n) : i <= j
(* MUTANT: a name that is already recorded as taken is found again.        *)
FindAgain(l, n) == Holding(l, n) # {}
FindCommitted(l, n) == n \notin l.stolen /\ Holding(l, n) # {}

(* The name was committed before the token was launched.                   *)
Theft(l, t, n) == FindCommitted(l, n) /\ Launched[t] > l.cycles[First(l, n)].at
TheftRecord(l, t, n) ==
  LET hit == l.cycles[First(l, n)] IN
  [name |-> n, firstCycle |-> hit.id, firstSeenAt |-> hit.at, token |-> t]
Checked(l, t, n) ==
  IF Theft(l, t, n)
  THEN [l EXCEPT !.stolen = l.stolen \cup {n},
                 !.exclusions = Newest(<<TheftRecord(l, t, n)>> \o l.exclusions, ExclusionCap)]
  ELSE l

(* Only a token that is new is compared with the commitments.              *)
Upsert(t, status, n) ==
  /\ tokens' = [tokens EXCEPT ![t] = [status |-> status, name |-> n]]
  /\ ledgers' = IF Known(t) THEN ledgers ELSE [p \in Personas |-> Checked(ledgers[p], t, n)]
  /\ renamed' = IF Known(t) /\ tokens[t].name # n THEN renamed \cup {t} ELSE renamed
  /\ UNCHANGED <<clock, runId, log, stored, saves, serves, crashes, appendFails, served>>

(* The token's name on the chain, or what is shown when it cannot be read. *)
ReadName(t, fallback, n) ==
  \/ n = NameOf[t] /\ UNCHANGED unread
  \/ n = fallback /\ unread < MaxUnread /\ unread' = unread + 1

(* showPending(): a young token is put on the watch list.                  *)
Watch(t) ==
  /\ ~ Known(t) /\ clock >= Launched[t]
  /\ \E n \in {NameOf[t], Unnamed} : ReadName(t, Unnamed, n) /\ Upsert(t, "pending", n)

(* finish(): a token past its window is labelled.                          *)
Label(t) ==
  /\ clock >= Launched[t] + Window
  /\ \E n \in {NameOf[t], tokens[t].name} : ReadName(t, tokens[t].name, n) /\ Upsert(t, "labelled", n)

Remove(t) ==
  /\ tokens[t].status = "pending"
  /\ tokens' = [tokens EXCEPT ![t] = Absent]
  /\ UNCHANGED <<clock, runId, ledgers, log, stored, budgets, served, renamed>>

-----------------------------------------------------------------------------
(* Requests, the save timer, and the end of the process.                   *)

Retained(l) == {l.cycles[i] : i \in DOMAIN l.cycles}
Shown(p, l) == UNION {Rows(p, c) : c \in Retained(l)}

(* GET /api/ideas and /api/ideas/<id>.                                     *)
Serve(p) ==
  /\ serves < MaxServes /\ serves' = serves + 1
  /\ served' = served \cup Shown(p, ledgers[p])
  /\ UNCHANGED <<clock, agent, log, stored, saves, crashes, appendFails, unread, renamed>>

SaveState ==
  /\ saves < MaxSaves /\ saves' = saves + 1
  /\ stored' = [runId |-> runId, tokens |-> tokens, ledgers |-> ledgers]
  /\ UNCHANGED <<clock, agent, log, serves, crashes, appendFails, unread, served, renamed>>

(* The process starts again from state.json.                               *)
Reload ==
  /\ crashes < MaxCrashes
  /\ crashes' = crashes + 1
  /\ runId' = stored.runId /\ tokens' = stored.tokens /\ ledgers' = stored.ledgers
  /\ UNCHANGED <<clock, stored, saves, serves, appendFails, unread, served, renamed>>

Restart == Reload /\ UNCHANGED log

(* The process ends inside a run, after k personas' commitments.           *)
KilledInRun(k) ==
  /\ runId < MaxRuns
  /\ \E cycle \in Cycles : log' = log \cup Appended(cycle, k)
  /\ Reload

Next ==
  \/ Tick \/ RunCycle \/ SaveState \/ Restart
  \/ \E k \in Personas : AppendFails(k) \/ KilledInRun(k) \/ Serve(k)
  \/ \E t \in Tokens : Watch(t) \/ Label(t) \/ Remove(t)

Spec == Init /\ [][Next]_vars

-----------------------------------------------------------------------------
(* Every variable has its type.                                            *)
TypeOK ==
  /\ clock \in Nat /\ runId \in Nat
  /\ ledgers \in [Personas -> Ledger] /\ tokens \in [Tokens -> TokenState]
  /\ log \subseteq Row /\ stored \in Snapshot
  /\ saves \in Nat /\ serves \in Nat /\ crashes \in Nat /\ appendFails \in Nat /\ unread \in Nat
  /\ served \subseteq Row /\ renamed \subseteq Tokens

(* A cycle that is kept, in memory or in state.json, is in the commitment  *)
(* log (persist.ts, appendCycle), through crashes between and inside runs. *)
LedgerWithinLog ==
  \A p \in Personas : /\ Shown(p, ledgers[p]) \subseteq log
                      /\ Shown(p, stored.ledgers[p]) \subseteq log

(* The ideas are committed before they are shown, never withdrawn, and a   *)
(* name that state.json knows as stolen is not committed again.            *)
Promise == INSTANCE CommitReveal WITH
  committed <- log, revealed <- served,
  retired <- UNION {{p} \X stored.ledgers[p].stolen : p \in Personas}
KeepsPromise == Promise!Spec

(* An append that fails costs what publish() had not got to (agent.ts:      *)
(* publish, listener by listener): one cycle is kept and not in the log,   *)
(* in memory and in state.json together, and a persona is a cycle behind   *)
(* those before it.  Restarts and later runs add nothing to that.          *)
Unlogged(p) ==
  {c \in Retained(ledgers[p]) \cup Retained(stored.ledgers[p]) : ~ (Rows(p, c) \subseteq log)}
FailedAppendsCostOne ==
  /\ Cardinality(UNION {{p} \X Unlogged(p) : p \in Personas}) <= appendFails
  /\ \A p, q \in Personas :
       p < q => ledgers[p].next - ledgers[q].next \in 0..appendFails

(* A known token launched after its name was committed in a cycle that is  *)
(* still kept is recorded as a theft, for every persona that wrote the     *)
(* name (agent.ts, upsert); not so when the token was renamed since.       *)
RetainedTheftsNoted ==
  \A p \in Personas, t \in Tokens \ renamed :
    Known(t) => \A c \in Retained(ledgers[p]) :
      tokens[t].name \in c.names /\ Launched[t] > c.at => tokens[t].name \in ledgers[p].stolen

(* A name is recorded as taken once, with a deployment that came after the *)
(* commitment, and until the list is full no record is missing             *)
(* (ledger.ts, recordTheft).                                               *)
OneRecordPerTheft ==
  \A p \in Personas :
    LET l == ledgers[p]  recorded == {l.exclusions[i].name : i \in DOMAIN l.exclusions} IN
    /\ recorded \subseteq l.stolen
    /\ Cardinality(recorded) = Len(l.exclusions)
    /\ Len(l.exclusions) < ExclusionCap => recorded = l.stolen
    /\ \A i \in DOMAIN l.exclusions : l.exclusions[i].firstSeenAt < Launched[l.exclusions[i].token]

(* Whenever a kept cycle has another leader than the one before it, the    *)
(* demotion is on the public list (ledger.ts, publish: "The previous       *)
(* leader lost rank 1: keep the record of the revision").                  *)
LeadersRecorded ==
  \A p \in Personas : LET l == ledgers[p] IN
    \A i \in 2..Len(l.cycles) :
      LET prev == l.cycles[i - 1]  c == l.cycles[i] IN
      prev.lead # NoLeader /\ prev.lead # c.lead =>
        \E j \in DOMAIN l.eliminated :
          l.eliminated[j] = [name |-> prev.lead, ledCycle |-> prev.id, demotedCycle |-> c.id]

(* "Anyone holding the model and the run id can replay this exact cycle"   *)
(* (ideas.ts): a run id stands for one run.                                *)
OneRunPerId ==
  \A r, s \in log : r.persona = s.persona /\ r.run = s.run => r.at = s.at

(* "before any endpoint can serve it" (persist.ts): what was served was    *)
(* logged.                                                                 *)
ServedWasLogged == served \subseteq log
=============================================================================
