------------------------------ MODULE RpcClient ------------------------------
(***************************************************************************)
(* Calls of the node, server/chain/rpc.ts: call with its retries, withSlot *)
(* and the shared pace of turn and send.                                   *)
(*                                                                         *)
(* withSlot is a counter and a list of waiters: a call that ends wakes the *)
(* first, which looks again when its continuation runs; a call that comes  *)
(* in between may have taken the slot, and the woken one queues up anew.   *)
(* turn gives each call its time to leave, one gap after the last; a       *)
(* refusal (429, 403) widens the gap and moves the next free time back,    *)
(* but not the times already given.                                        *)
(*                                                                         *)
(* Times are counted in ticks from now.  A timer may fire late.            *)
(***************************************************************************)
EXTENDS Integers, Sequences, FiniteSets

CONSTANTS
  Callers,
  Concurrency, Retries,
  Pause,      \* how long a refusal keeps the next free time away
  MaxGap,     \* the gap at MIN_PER_SECOND; 1 at the ceiling
  MaxCalls    \* bound: calls made

RpcAssumption ==
  /\ IsFiniteSet(Callers) /\ Concurrency \in Nat \ {0} /\ Retries \in Nat
  /\ Pause \in Nat /\ MaxGap \in Nat \ {0} /\ MaxCalls \in Nat

VARIABLES
  active,     \* slots taken
  waiting,    \* callers in line for one
  call,       \* what each caller's call awaits, and its attempt
  gap, nextAt,
  calls,
  quiet, noise    \* history: what is left of the last refusal's pause, calls sent in it

slots == <<active, waiting>>
pace == <<gap, nextAt>>
vars == <<slots, call, pace, calls, quiet, noise>>

Steps == {"idle", "waiting", "woken", "turn", "sent", "backoff"}
At(step) == {c \in Callers : call[c].step = step}
Holding == At("turn") \cup At("sent")
Becomes(c, step, left) == [call EXCEPT ![c].step = step, ![c].left = left]

Init ==
  /\ active = 0 /\ waiting = <<>>
  /\ call = [c \in Callers |-> [step |-> "idle", attempt |-> 0, left |-> 0]]
  /\ gap = 1 /\ nextAt = 0 /\ calls = 0 /\ quiet = 0 /\ noise = 0

(* withSlot: the loop's test, and what follows it.  A call that finds a    *)
(* slot has its turn reserved in the same step.                            *)
TakeSlot(c) ==
  /\ active < Concurrency /\ active' = active + 1 /\ UNCHANGED waiting
  /\ call' = Becomes(c, "turn", nextAt) /\ nextAt' = nextAt + gap
QueueUp(c) ==
  /\ active >= Concurrency /\ waiting' = Append(waiting, c) /\ UNCHANGED <<active, nextAt>>
  /\ call' = Becomes(c, "waiting", 0)
WithSlot(c) == TakeSlot(c) \/ QueueUp(c)

Call(c) ==
  /\ call[c].step = "idle" /\ calls < MaxCalls /\ calls' = calls + 1
  /\ WithSlot(c) /\ UNCHANGED <<gap, quiet, noise>>
ResumeUnchecked(c) ==   \* mutant: the loop of withSlot as an if
  /\ call[c].step = "woken" /\ active' = active + 1 /\ call' = Becomes(c, "turn", nextAt)
  /\ nextAt' = nextAt + gap /\ UNCHANGED <<waiting, gap, calls, quiet, noise>>
Resume(c) ==
  /\ call[c].step = "woken"
  /\ WithSlot(c) /\ UNCHANGED <<gap, calls, quiet, noise>>

Send(c) ==
  /\ call[c].step = "turn" /\ call[c].left = 0
  /\ call' = Becomes(c, "sent", 0)
  /\ noise' = IF quiet > 0 THEN noise + 1 ELSE noise
  /\ UNCHANGED <<slots, pace, calls, quiet>>

(* The finally of withSlot gives the slot up and wakes the first in line;  *)
(* next is what the call does then.                                        *)
NobodyWoken == call   \* mutant
Woken == IF waiting = <<>> THEN call ELSE Becomes(Head(waiting), "woken", 0)
Release == active' = active - 1 /\ waiting' = IF waiting = <<>> THEN waiting ELSE Tail(waiting)
Ended == [step |-> "idle", attempt |-> 0, left |-> 0]
Leave(c, next) == Release /\ call' = [Woken EXCEPT ![c] = next]

(* A failure that may pass is retried after a growing delay, up to Retries *)
(* times.                                                                  *)
Retry(c) ==
  IF call[c].attempt >= Retries THEN Ended
  ELSE [step |-> "backoff", attempt |-> call[c].attempt + 1, left |-> call[c].attempt + 1]

Later(a, b) == IF a > b THEN a ELSE b
Lower(a, b) == IF a < b THEN a ELSE b
NotPushedBack == nextAt   \* mutant
PushedBack == Later(nextAt, Pause)

Answered(c) ==       \* a result, or an error of the node: the pace creeps up
  /\ call[c].step = "sent" /\ Leave(c, Ended)
  /\ gap' \in {gap, Later(gap - 1, 1)} /\ UNCHANGED <<nextAt, calls, quiet, noise>>
Refused(c) ==        \* 429 or 403
  /\ call[c].step = "sent" /\ Leave(c, Retry(c))
  /\ gap' = Lower(gap + 1, MaxGap) /\ nextAt' = PushedBack
  /\ quiet' = Pause /\ noise' = 0 /\ UNCHANGED calls
Failed(c) ==         \* a 5xx, the network or the timeout; a log query's timeout and other statuses are not retried
  /\ call[c].step = "sent" /\ \E next \in {Retry(c), Ended} : Leave(c, next)
  /\ UNCHANGED <<pace, calls, quiet, noise>>

RetryNow(c) ==       \* back from the delay, a retry needs a slot again
  /\ call[c].step = "backoff" /\ call[c].left = 0
  /\ WithSlot(c) /\ UNCHANGED <<gap, calls, quiet, noise>>

Less(n) == IF n > 0 THEN n - 1 ELSE 0
Tick ==
  /\ nextAt > 0 \/ quiet > 0 \/ \E c \in Callers : call[c].left > 0
  /\ nextAt' = Less(nextAt) /\ quiet' = Less(quiet)
  /\ call' = [c \in Callers |-> [call[c] EXCEPT !.left = Less(@)]]
  /\ UNCHANGED <<slots, gap, calls, noise>>

Reply(c) == Answered(c) \/ Refused(c) \/ Failed(c)
Step(c) == Resume(c) \/ Send(c) \/ Reply(c) \/ RetryNow(c)
Next == Tick \/ \E c \in Callers : Call(c) \/ Step(c)

(* Timers fire, continuations run, and a request ends by its timeout.      *)
Fairness == WF_vars(Tick) /\ \A c \in Callers : WF_vars(Step(c))

Spec == Init /\ [][Next]_vars

-----------------------------------------------------------------------------
CallState == [step : Steps, attempt : 0..Retries, left : Nat]
TypeOK ==
  /\ active \in Nat /\ waiting \in Seq(Callers) /\ call \in [Callers -> CallState]
  /\ gap \in 1..MaxGap /\ nextAt \in Nat /\ calls \in 0..MaxCalls /\ quiet \in Nat /\ noise \in Nat

(* The slots are exactly the calls under way, never more than Concurrency; *)
(* and no caller is left in line next to a slot nobody is on the way to:   *)
(* as long as one waits, the calls under way and those just woken make up  *)
(* the limit (withSlot, its finally and its loop).                         *)
SlotsTaken == active = Cardinality(Holding) /\ active <= Concurrency
NoLostWakeup == waiting # <<>> => active + Cardinality(At("woken")) >= Concurrency
InLine == \A c \in Callers : call[c].step = "waiting" => \E i \in DOMAIN waiting : waiting[i] = c
SlotsUsed == SlotsTaken /\ NoLostWakeup /\ InLine

(* In the pause after a refusal only calls whose turn was given before it  *)
(* still leave: one less than the slots (send, turn).                      *)
QuietAfterRefusal == noise < Concurrency

Busy(c) == call[c].step # "idle"
=============================================================================
