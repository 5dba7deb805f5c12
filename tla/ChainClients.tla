----------------------------- MODULE ChainClients -----------------------------
(***************************************************************************)
(* The two clients the chain source reads through, RpcClient and           *)
(* GeckoClient.  They share nothing, so a behaviour uses one of them:      *)
(* which, is chosen at the start.                                          *)
(***************************************************************************)
EXTENDS Integers, Sequences, FiniteSets

CONSTANTS Callers, Concurrency, Retries, Pause, MaxGap, MaxCalls,
          Clients, Attempts, LowShare, GeckoPause, MaxWait, MaxAsks

VARIABLES active, waiting, call, gap, nextAt, calls, quiet, noise,
          lanes, pump, served, get, space, freeAt, asks, passed, hush, released,
          used

R == INSTANCE RpcClient
G == INSTANCE GeckoClient

ASSUME ClientsAssumption == R!RpcAssumption /\ G!GeckoAssumption

rpc == <<active, waiting, call, gap, nextAt, calls, quiet, noise>>
gecko == <<lanes, pump, served, get, space, freeAt, asks, passed, hush, released>>
clientVars == <<rpc, gecko, used>>

InitClients == R!Init /\ G!Init /\ used \in {"rpc", "gecko"}
NextClient ==
  \/ used = "rpc" /\ R!Next /\ UNCHANGED <<gecko, used>>
  \/ used = "gecko" /\ G!Next /\ UNCHANGED <<rpc, used>>
SpecClients == InitClients /\ [][NextClient]_clientVars
FairClients == SpecClients /\ R!Fairness /\ G!Fairness

TypeOK == R!TypeOK /\ G!TypeOK
(* See RpcClient.SlotsUsed.                                                *)
SlotsUsed == R!SlotsUsed
(* See GeckoClient.LowLaneServed.                                          *)
LowLaneServed == G!LowLaneServed
(* See RpcClient.QuietAfterRefusal and GeckoClient.OneCallInPause.         *)
QuietAfterRefusal == R!QuietAfterRefusal /\ G!OneCallInPause

(* Every call ends, with an answer or an error, though slots are taken     *)
(* from woken callers and lanes are passed: callers of both clients await  *)
(* them without a timeout of their own.                                    *)
EveryCallEnds ==
  /\ \A c \in Callers : R!Busy(c) ~> ~R!Busy(c)
  /\ \A c \in Clients : G!Busy(c) ~> ~G!Busy(c)
=============================================================================
