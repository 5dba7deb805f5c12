----------------------------- MODULE GeckoClient -----------------------------
(***************************************************************************)
(* Calls of GeckoTerminal, server/chain/gecko.ts: two lanes, one pump that *)
(* releases a call per gap, and get with its attempts.                     *)
(*                                                                         *)
(* pump sleeps until the next free time as it was when the sleep began,    *)
(* then picks a lane; a refusal or a failure that moves the time back      *)
(* meanwhile holds the call after the next one only.                       *)
(***************************************************************************)
EXTENDS Integers, Sequences

CONSTANTS
  Clients, Attempts,
  LowShare,
  GeckoPause,   \* how far a refusal moves the next free time
  MaxWait,      \* the gap at MIN_PER_MINUTE; 1 at the ceiling
  MaxAsks       \* bound: calls made

GeckoAssumption ==
  {Attempts, LowShare, MaxWait} \subseteq Nat \ {0} /\ {GeckoPause, MaxAsks} \subseteq Nat

Lanes == {"high", "low"}

VARIABLES
  lanes,      \* the calls that wait, by lane
  pump,       \* whether it runs, and what is left of its sleep
  served,     \* calls released, modulo LowShare
  get,        \* what each caller's call awaits
  space, freeAt,
  asks,
  passed,          \* history: calls of the high lane released since the low one waits
  hush, released   \* history: what is left of the last push back, calls released in it

queue == <<lanes, pump, served>>
vars == <<queue, get, space, freeAt, asks, passed, hush, released>>

None == [step |-> "idle", lane |-> "high", attempt |-> 0]

Init ==
  /\ lanes = [l \in Lanes |-> <<>>] /\ pump = [on |-> FALSE, left |-> 0] /\ served = 0
  /\ get = [c \in Clients |-> None] /\ space = 1 /\ freeAt = 0 /\ asks = 0
  /\ passed = 0 /\ hush = 0 /\ released = 0

(* turn: the call queues up, and starts the pump when none runs.           *)
Turn(c, lane, at) ==
  /\ lanes' = [lanes EXCEPT ![lane] = Append(@, c)]
  /\ pump' = IF pump.on THEN pump ELSE [on |-> TRUE, left |-> at]
  /\ UNCHANGED served

Get(c, lane) ==
  /\ get[c].step = "idle" /\ asks < MaxAsks /\ asks' = asks + 1
  /\ get' = [get EXCEPT ![c] = [step |-> "turn", lane |-> lane, attempt |-> 0]]
  /\ Turn(c, lane, freeAt) /\ UNCHANGED <<space, freeAt, passed, hush, released>>

(* The pump wakes: the low lane has every LowShare-th call while both      *)
(* wait.                                                                   *)
PickedHighFirst == IF lanes["high"] = <<>> THEN "low" ELSE "high"   \* mutant
Picked ==
  IF lanes["low"] # <<>> /\ (lanes["high"] = <<>> \/ served = LowShare - 1) THEN "low" ELSE "high"
Waits(l) == \E lane \in Lanes : l[lane] # <<>>
Released == [get EXCEPT ![Head(lanes[Picked])].step = "sent"]
Pump ==
  /\ pump.on /\ pump.left = 0
  /\ lanes' = [lanes EXCEPT ![Picked] = Tail(@)] /\ get' = Released
  /\ served' = (served + 1) % LowShare
  /\ freeAt' = freeAt + space
  /\ pump' = IF Waits(lanes') THEN [on |-> TRUE, left |-> freeAt'] ELSE [on |-> FALSE, left |-> 0]
  /\ passed' = IF Picked = "low" \/ lanes["low"] = <<>> THEN 0 ELSE passed + 1
  /\ released' = IF hush > 0 THEN released + 1 ELSE released
  /\ UNCHANGED <<space, asks, hush>>

Longer(a, b) == IF a > b THEN a ELSE b
Shorter(a, b) == IF a < b THEN a ELSE b
PushBack(n) == Longer(freeAt, n)

Answered(c) ==       \* a body, or 404: no data
  /\ get[c].step = "sent" /\ get' = [get EXCEPT ![c] = None]
  /\ space' \in {space, Longer(space - 1, 1)}
  /\ UNCHANGED <<queue, freeAt, asks, passed, hush, released>>

(* A refusal or a failure moves the next free time back and asks again, at *)
(* the end of the lane; the last one throws.                               *)
Again(c, push) ==
  /\ get[c].step = "sent" /\ freeAt' = PushBack(push)
  /\ IF get[c].attempt + 1 < Attempts
     THEN /\ get' = [get EXCEPT ![c].step = "turn", ![c].attempt = @ + 1]
          /\ Turn(c, get[c].lane, freeAt')
     ELSE get' = [get EXCEPT ![c] = None] /\ UNCHANGED queue
  /\ hush' = Longer(hush, push) /\ released' = 0 /\ UNCHANGED <<asks, passed>>
Refused(c) == Again(c, GeckoPause) /\ space' = Shorter(space + 1, MaxWait)
Failed(c) == Again(c, get[c].attempt + 1) /\ space' \in {space, Longer(space - 1, 1)}

Less(n) == IF n > 0 THEN n - 1 ELSE 0
Tick ==
  /\ freeAt > 0 \/ pump.left > 0 \/ hush > 0
  /\ freeAt' = Less(freeAt) /\ pump' = [pump EXCEPT !.left = Less(@)] /\ hush' = Less(hush)
  /\ UNCHANGED <<lanes, served, get, space, asks, passed, released>>

Reply(c) == Answered(c) \/ Refused(c) \/ Failed(c)
Next == Tick \/ Pump \/ \E c \in Clients : Reply(c) \/ \E lane \in Lanes : Get(c, lane)

(* The timers fire, and a request is answered or fails: get passes fetch   *)
(* no timeout, so that rests on the runtime's limits.                      *)
Fairness == WF_vars(Tick) /\ WF_vars(Pump) /\ \A c \in Clients : WF_vars(Reply(c))

Spec == Init /\ [][Next]_vars

-----------------------------------------------------------------------------
TypeOK ==
  /\ lanes \in [Lanes -> Seq(Clients)] /\ pump \in [on : BOOLEAN, left : Nat] /\ served \in 0..LowShare - 1
  /\ get \in [Clients -> [step : {"idle", "turn", "sent"}, lane : Lanes, attempt : 0..Attempts - 1]]
  /\ space \in 1..MaxWait /\ freeAt \in Nat /\ asks \in 0..MaxAsks
  /\ passed \in Nat /\ hush \in Nat /\ released \in Nat

(* A call of the low lane is passed by fewer than LowShare calls of the    *)
(* high one, and waits only while the pump runs (pump, turn).              *)
LowLaneServed == passed < LowShare /\ (Waits(lanes) => pump.on)

(* After a refusal or a failure at most one call leaves before the time it *)
(* asked for: the one pump was asleep for (pump, get).                     *)
OneCallInPause == released <= 1

Busy(c) == get[c].step # "idle"
=============================================================================
