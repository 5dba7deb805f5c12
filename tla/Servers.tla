-------------------------------- MODULE Servers -------------------------------
(***************************************************************************)
(* Both implementations of the server.  They share nothing but the promise *)
(* (CommitReveal), so a behaviour is one of them: PythonBackend with one   *)
(* of its two sources, or Commitments (node), which is neither killed nor  *)
(* read here: MCCommitments does that.                                     *)
(***************************************************************************)
EXTENDS PythonBackend

CONSTANTS
  NodeVocabulary, NodeNameOf, Launched, Unnamed, NoLeader,
  NodeKeep, EliminatedCap, ExclusionCap, NodeWindow,
  MaxClock, NodeRuns, MaxAppendFails, MaxUnread   \* bounds of the model

VARIABLES
  server,
  clock, stored, saves, serves, appendFails, unread, renamed,
  nodeTokens, nodeLedgers, nodeRunId, nodeLog, nodeCrashes, nodeServed

Node == INSTANCE Commitments WITH
  tokens <- nodeTokens, ledgers <- nodeLedgers, runId <- nodeRunId, log <- nodeLog,
  crashes <- nodeCrashes, served <- nodeServed,
  Vocabulary <- NodeVocabulary, NameOf <- NodeNameOf, Keep <- NodeKeep, Window <- NodeWindow,
  MaxRuns <- NodeRuns, MaxSaves <- 0, MaxServes <- 0, MaxCrashes <- 0

ASSUME ServersAssumption == PythonAssumption /\ Node!CommitmentsAssumption

InitServer ==
  /\ server \in {"node", "chain", "simulated"}
  /\ Init /\ Node!Init /\ live = (server = "chain")
node == <<clock, stored, saves, serves, appendFails, unread, renamed,
          nodeTokens, nodeLedgers, nodeRunId, nodeLog, nodeCrashes, nodeServed>>
IsNode == server = "node" /\ UNCHANGED <<vars, server>>
IsPython == server # "node" /\ UNCHANGED <<node, server>>
(* The actions of Commitments, but for saves, crashes and requests, and    *)
(* those of PythonBackend.                                                 *)
NextServer ==
  \/ IsNode /\ Node!Tick
  \/ IsNode /\ Node!RunCycle
  \/ \E k \in Node!Personas : IsNode /\ Node!AppendFails(k)
  \/ \E k \in Tokens : IsNode /\ Node!Watch(k)
  \/ \E k \in Tokens : IsNode /\ Node!Label(k)
  \/ \E k \in Tokens : IsNode /\ Node!Remove(k)
  \/ IsPython /\ Mine
  \/ IsPython /\ InitSource
  \/ IsPython /\ LiveTick
  \/ IsPython /\ LiveScan
  \/ IsPython /\ Backfill
  \/ IsPython /\ \E p \in source.due : Finish(p)
  \/ IsPython /\ Fails
  \/ IsPython /\ Train
  \/ IsPython /\ TrainFails
  \/ IsPython /\ CommitRun
  \/ IsPython /\ Crash
  \/ IsPython /\ StopSource
  \/ IsPython /\ StopAgent
  \/ \E k \in Tokens : IsPython /\ Arrive(k)
  \/ \E p \in Personas : IsPython /\ Serve(p)
  \/ \E p \in Personas : IsPython /\ KilledInRun(p)
allVars == <<vars, server, node>>
SpecServer == InitServer /\ [][NextServer]_allVars

(* See PythonBackend.Fairness.                                             *)
FairServer ==
  /\ SpecServer
  /\ WF_allVars(IsPython /\ Mine) /\ WF_allVars(IsPython /\ Source) /\ WF_allVars(IsPython /\ StopAgent)

(* Appends that fail, full lists and names read late leave the records of  *)
(* thefts and revisions as Commitments says: every theft of a kept         *)
(* commitment on record, once, and every revision of a kept leader.        *)
RecordsStand == Node!RetainedTheftsNoted /\ Node!OneRecordPerTheft /\ Node!LeadersRecorded

(* See Commitments.FailedAppendsCostOne.                                   *)
FailedAppendsCostOne == Node!FailedAppendsCostOne
=============================================================================
