----------------------------- MODULE ClientProofs -----------------------------
(***************************************************************************)
(* Theorems about the clients: first of RpcClient (R), then of GeckoClient *)
(* (G), then of the two together in ChainClients; for any callers, slots,  *)
(* lanes' shares, attempts and pauses.  Then of the browser's LivePage,    *)
(* for any models and settings.  Last, of what ChainReads (Reads) and      *)
(* Study (Sums) compute from their answers: recursion over ranges, by      *)
(* induction on their length, prices of quotes, the jar and percentiles.   *)
(***************************************************************************)
EXTENDS ChainClients, LivePage, SequenceTheorems, FiniteSetTheorems, WellFoundedInduction, TLAPS

CONSTANTS MinSpan, Near, Far, Refetch, Ahead, Reach, Batch, PoolsPerQuote, MaxPlaces, Native, Weth, NoPool
Reads == INSTANCE ChainReads

CONSTANTS NaN, Absent, Infinity, MinRows, Folds, NSamplesMin, NPositiveMin, AucStdMax, TimeSplitGapMax, JarCap,
          AucFloor, AucTarget, MinWordCount, LiftWords, EntryMc, MinScore, MinStake, MaxStake
Sums == INSTANCE Study

(* The callers in line are those whose call waits, each once.              *)
Line ==
  /\ R!InLine
  /\ \A i \in DOMAIN waiting : call[waiting[i]].step = "waiting"
  /\ \A i, j \in DOMAIN waiting : waiting[i] = waiting[j] => i = j

(* The calls that will leave in the pause, because their turn was given    *)
(* before the refusal; a turn given now is after the pause.                *)
Early == {c \in R!At("turn") : call[c].left < quiet}
QuietInv == nextAt >= quiet /\ noise + Cardinality(Early) < Concurrency

RpcInv == R!TypeOK /\ R!SlotsTaken /\ R!NoLostWakeup /\ Line /\ QuietInv

(* A call that asks for a slot, and one that gives its own back.           *)
Asking(c) == call[c].step \in {"idle", "woken", "backoff"}
After(next) == next \in R!CallState /\ next.step \in {"idle", "backoff"}

-----------------------------------------------------------------------------
(* What one call's record becomes, and that the others stay.               *)
LEMMA BecomesCall ==
  ASSUME R!TypeOK, NEW c \in Callers, NEW step \in R!Steps, NEW left \in Nat
  PROVE  /\ R!Becomes(c, step, left) \in [Callers -> R!CallState]
         /\ R!Becomes(c, step, left)[c].step = step
         /\ R!Becomes(c, step, left)[c].left = left
         /\ \A d \in Callers \ {c} : R!Becomes(c, step, left)[d] = call[d]
<1>1. call \in [Callers -> R!CallState] BY DEF R!TypeOK
<1>2. R!Becomes(c, step, left) = [call EXCEPT ![c] = [[call[c] EXCEPT !.step = step] EXCEPT !.left = left]]
  BY <1>1 DEF R!Becomes
<1>3. call[c] \in R!CallState BY <1>1
<1>4. /\ [[call[c] EXCEPT !.step = step] EXCEPT !.left = left] \in R!CallState
      /\ [[call[c] EXCEPT !.step = step] EXCEPT !.left = left].step = step
      /\ [[call[c] EXCEPT !.step = step] EXCEPT !.left = left].left = left
  BY <1>3 DEF R!CallState
<1> QED BY <1>1, <1>2, <1>4

LEMMA SameCardinality ==
  (\A S : R!Cardinality(S) = Cardinality(S)) /\ \A S : R!IsFiniteSet(S) <=> IsFiniteSet(S)
<1>1. \A S : R!Cardinality(S) = Cardinality(S) BY DEF R!Cardinality, Cardinality
<1>2. \A S : R!IsFiniteSet(S) <=> IsFiniteSet(S) BY DEF R!IsFiniteSet, IsFiniteSet
<1> QED BY <1>1, <1>2

LEMMA Finite ==
  ASSUME R!RpcAssumption
  PROVE  /\ \A s : IsFiniteSet(R!At(s)) /\ Cardinality(R!At(s)) \in Nat
         /\ IsFiniteSet(R!Holding) /\ Cardinality(R!Holding) \in Nat
         /\ IsFiniteSet(Early) /\ Cardinality(Early) \in Nat
<1>1. IsFiniteSet(Callers) BY SameCardinality DEF R!RpcAssumption
<1>2. \A S \in SUBSET Callers : IsFiniteSet(S) /\ Cardinality(S) \in Nat BY <1>1, FS_Subset, FS_CardinalityType
<1>3. (\A s : R!At(s) \in SUBSET Callers) /\ R!Holding \in SUBSET Callers /\ Early \in SUBSET Callers
  BY DEF R!At, R!Holding, Early
<1> QED BY <1>2, <1>3

(* The same of the next state.                                             *)
LEMMA FiniteNext ==
  ASSUME R!RpcAssumption
  PROVE  /\ \A s : IsFiniteSet(R!At(s)') /\ Cardinality(R!At(s)') \in Nat
         /\ IsFiniteSet(R!Holding') /\ Cardinality(R!Holding') \in Nat
         /\ IsFiniteSet(Early') /\ Cardinality(Early') \in Nat
<1>1. IsFiniteSet(Callers) BY SameCardinality DEF R!RpcAssumption
<1>2. \A S \in SUBSET Callers : IsFiniteSet(S) /\ Cardinality(S) \in Nat BY <1>1, FS_Subset, FS_CardinalityType
<1>3. (\A s : R!At(s)' \in SUBSET Callers) /\ R!Holding' \in SUBSET Callers /\ Early' \in SUBSET Callers
  BY DEF R!At, R!Holding, Early
<1> QED BY <1>2, <1>3

-----------------------------------------------------------------------------
(* The retries are counted: a call that failed ends, or waits for another. *)
LEMMA RetryIsAfter ==
  ASSUME R!RpcAssumption, R!TypeOK, NEW c \in Callers
  PROVE  After(R!Retry(c)) /\ After(R!Ended)
<1>1. call[c] \in R!CallState BY DEF R!TypeOK
<1>2. call[c].attempt \in 0..Retries /\ Retries \in Nat BY <1>1 DEF R!CallState, R!RpcAssumption
<1>3. After(R!Ended) BY <1>2 DEF After, R!Ended, R!CallState, R!Steps
<1>4. CASE call[c].attempt >= Retries BY <1>3, <1>4 DEF R!Retry
<1>5. CASE ~(call[c].attempt >= Retries)
  <2>1. call[c].attempt + 1 \in 0..Retries /\ call[c].attempt + 1 \in Nat BY <1>2, <1>5
  <2>2. R!Retry(c) = [step |-> "backoff", attempt |-> call[c].attempt + 1, left |-> call[c].attempt + 1]
    BY <1>5 DEF R!Retry
  <2> QED BY <1>3, <2>1, <2>2 DEF After, R!CallState, R!Steps
<1> QED BY <1>4, <1>5

(* What TakeSlot, QueueUp and Leave do to the records of the calls.        *)
LEMMA TakesOne ==
  ASSUME R!RpcAssumption, R!TypeOK, NEW c \in Callers, R!TakeSlot(c)
  PROVE  /\ call' \in [Callers -> R!CallState]
         /\ call'[c].step = "turn" /\ call'[c].left = nextAt
         /\ \A d \in Callers \ {c} : call'[d] = call[d]
<1>1. "turn" \in R!Steps /\ nextAt \in Nat /\ call' = R!Becomes(c, "turn", nextAt)
  BY DEF R!TypeOK, R!TakeSlot, R!Steps
<1> QED BY <1>1, BecomesCall

LEMMA QueuesOne ==
  ASSUME R!RpcAssumption, R!TypeOK, NEW c \in Callers, R!QueueUp(c)
  PROVE  /\ call' \in [Callers -> R!CallState]
         /\ call'[c].step = "waiting"
         /\ \A d \in Callers \ {c} : call'[d] = call[d]
<1>1. "waiting" \in R!Steps /\ 0 \in Nat /\ call' = R!Becomes(c, "waiting", 0) BY DEF R!QueueUp, R!Steps
<1> QED BY <1>1, BecomesCall

LEMMA LeavesOne ==
  ASSUME R!RpcAssumption, R!TypeOK, Line, NEW c \in Callers, call[c].step = "sent",
         NEW next, After(next), R!Leave(c, next)
  PROVE  /\ call' \in [Callers -> R!CallState] /\ call'[c] = next
         /\ waiting = <<>> => /\ waiting' = <<>> /\ \A d \in Callers \ {c} : call'[d] = call[d]
         /\ waiting # <<>> => /\ waiting' = Tail(waiting) /\ Head(waiting) = waiting[1]
                              /\ Head(waiting) \in Callers \ {c} /\ 1 \in DOMAIN waiting
                              /\ call[Head(waiting)].step = "waiting" /\ call'[Head(waiting)].step = "woken"
                              /\ \A d \in Callers \ {c, Head(waiting)} : call'[d] = call[d]
<1>1. call \in [Callers -> R!CallState] /\ waiting \in Seq(Callers) BY DEF R!TypeOK
<1>2. next \in R!CallState /\ call' = [R!Woken EXCEPT ![c] = next]
      /\ waiting' = IF waiting = <<>> THEN waiting ELSE Tail(waiting)
  BY DEF After, R!Leave, R!Release
<1>3. CASE waiting = <<>>
  <2>1. R!Woken = call BY <1>3 DEF R!Woken
  <2> QED BY <1>1, <1>2, <1>3, <2>1
<1>4. CASE waiting # <<>>
  <2>1. Len(waiting) \in Nat \ {0} /\ DOMAIN waiting = 1..Len(waiting) BY <1>1, <1>4, EmptySeq, LenProperties
  <2>2. Head(waiting) = waiting[1] /\ 1 \in DOMAIN waiting BY <1>4, <2>1
  <2>3. Head(waiting) \in Callers BY <1>1, <1>4, HeadTailProperties
  <2>4. call[Head(waiting)].step = "waiting" BY <2>2 DEF Line
  <2>5. Head(waiting) # c BY <2>4
  <2>6. "woken" \in R!Steps /\ 0 \in Nat /\ R!Woken = R!Becomes(Head(waiting), "woken", 0) BY <1>4 DEF R!Woken, R!Steps
  <2>7. /\ R!Woken \in [Callers -> R!CallState] /\ R!Woken[Head(waiting)].step = "woken"
        /\ \A d \in Callers \ {Head(waiting)} : R!Woken[d] = call[d]
    BY <2>3, <2>6, BecomesCall
  <2> HIDE DEF R!Woken
  <2>8. /\ call' \in [Callers -> R!CallState] /\ call'[c] = next
        /\ \A d \in Callers \ {c} : call'[d] = R!Woken[d]
    BY <1>2, <2>7
  <2> QED BY <1>2, <1>4, <2>2, <2>3, <2>4, <2>5, <2>7, <2>8
<1> QED BY <1>3, <1>4

-----------------------------------------------------------------------------
(* A call that takes a slot keeps the count, and the sum of the slots      *)
(* taken and the callers on the way to one.                                *)
LEMMA TakeSlotKeeps ==
  ASSUME R!RpcAssumption, RpcInv, NEW c \in Callers, Asking(c), R!TakeSlot(c), UNCHANGED <<quiet, noise>>
  PROVE  R!SlotsTaken' /\ R!NoLostWakeup' /\ Line' /\ QuietInv'
<1>1. /\ call' \in [Callers -> R!CallState] /\ call'[c].step = "turn" /\ call'[c].left = nextAt
      /\ \A d \in Callers \ {c} : call'[d] = call[d]
  BY TakesOne DEF RpcInv
<1>2. /\ active \in Nat /\ nextAt \in Nat /\ gap \in Nat /\ quiet \in Nat /\ noise \in Nat
      /\ Concurrency \in Nat /\ active < Concurrency /\ active' = active + 1 /\ waiting' = waiting
      /\ nextAt' = nextAt + gap
  BY DEF RpcInv, R!TypeOK, R!TakeSlot, R!RpcAssumption
<1>3. R!SlotsTaken'
  <2>1. R!Holding' = R!Holding \cup {c} /\ c \notin R!Holding BY <1>1 DEF R!Holding, R!At, Asking
  <2>2. Cardinality(R!Holding \cup {c}) = Cardinality(R!Holding) + 1 BY <2>1, Finite, FS_AddElement
  <2>3. Cardinality(R!Holding') = Cardinality(R!Holding) + 1 BY <2>1, <2>2
  <2>4. active = Cardinality(R!Holding) BY SameCardinality DEF RpcInv, R!SlotsTaken
  <2>5. active' = Cardinality(R!Holding') /\ active' <= Concurrency BY <1>2, <2>3, <2>4
  <2> QED BY <2>5, SameCardinality DEF R!SlotsTaken
<1>4. R!NoLostWakeup'
  <2>1. R!At("woken")' = R!At("woken") \ {c} BY <1>1 DEF R!At
  <2>2. IsFiniteSet(R!At("woken")) /\ Cardinality(R!At("woken")) \in Nat BY Finite
  <2>3. Cardinality(R!At("woken") \ {c}) =
          IF c \in R!At("woken") THEN Cardinality(R!At("woken")) - 1 ELSE Cardinality(R!At("woken"))
    BY <2>2, FS_RemoveElement
  <2>4. Cardinality(R!At("woken")') = Cardinality(R!At("woken") \ {c}) BY <2>1
  <2>5. Cardinality(R!At("woken") \ {c}) >= Cardinality(R!At("woken")) - 1 BY <2>2, <2>3
  <2>6. Cardinality(R!At("woken")') \in Nat BY FiniteNext, <1>1
  <2>7. Cardinality(R!At("woken")') >= Cardinality(R!At("woken")) - 1 /\ Cardinality(R!At("woken")') \in Int
    BY <2>4, <2>5, <2>6
  <2>8. waiting # <<>> => active + Cardinality(R!At("woken")) >= Concurrency BY SameCardinality DEF RpcInv, R!NoLostWakeup
  <2>9. waiting' # <<>> => active' + Cardinality(R!At("woken")') >= Concurrency BY <1>2, <2>2, <2>7, <2>8
  <2> QED BY <2>9, SameCardinality DEF R!NoLostWakeup
<1>5. Line'
  <2>1. call[c].step # "waiting" /\ call'[c].step # "waiting" BY <1>1 DEF Asking
  <2>2. \A d \in Callers : call'[d].step = "waiting" <=> call[d].step = "waiting" BY <1>1, <2>1
  <2>3. waiting \in Seq(Callers) /\ Line BY DEF RpcInv, R!TypeOK
  <2>4. \A i \in DOMAIN waiting : waiting[i] \in Callers BY <2>3, LenProperties, ElementOfSeq
  <2> QED BY <1>2, <2>2, <2>3, <2>4 DEF Line, R!InLine
<1>6. QuietInv'
  <2>1. nextAt >= quiet /\ noise + Cardinality(Early) < Concurrency BY DEF RpcInv, QuietInv
  <2>2. ~(call'[c].left < quiet) BY <1>1, <1>2, <2>1
  <2>3. c \notin Early BY DEF Early, R!At, Asking
  <2>4. Early' = Early BY <1>1, <2>2, <2>3 DEF Early, R!At
  <2>5. nextAt' >= quiet' BY <1>2, <2>1
  <2> QED BY <2>1, <2>4, <2>5 DEF QuietInv
<1> QED BY <1>3, <1>4, <1>5, <1>6

(* A call that finds no slot joins the line: all slots are taken.          *)
LEMMA QueueUpKeeps ==
  ASSUME R!RpcAssumption, RpcInv, NEW c \in Callers, Asking(c), R!QueueUp(c), UNCHANGED <<quiet, noise>>
  PROVE  R!SlotsTaken' /\ R!NoLostWakeup' /\ Line' /\ QuietInv'
<1>1. /\ call' \in [Callers -> R!CallState] /\ call'[c].step = "waiting"
      /\ \A d \in Callers \ {c} : call'[d] = call[d]
  BY QueuesOne DEF RpcInv
<1>2. /\ active \in Nat /\ Concurrency \in Nat /\ active >= Concurrency
      /\ active' = active /\ nextAt' = nextAt /\ waiting' = Append(waiting, c)
  BY DEF RpcInv, R!TypeOK, R!QueueUp, R!RpcAssumption
<1>3. R!SlotsTaken'
  <2>1. R!Holding' = R!Holding BY <1>1 DEF R!Holding, R!At, Asking
  <2> QED BY <1>2, <2>1, SameCardinality DEF RpcInv, R!SlotsTaken
<1>4. R!NoLostWakeup'
  <2>1. Cardinality(R!At("woken")') \in Nat BY FiniteNext
  <2>2. active' + Cardinality(R!At("woken")') >= Concurrency BY <1>2, <2>1
  <2> QED BY <2>2, SameCardinality DEF R!NoLostWakeup
<1>5. Line'
  <2>1. waiting \in Seq(Callers) /\ Line BY DEF RpcInv, R!TypeOK
  <2>2. DOMAIN waiting = 1..Len(waiting) /\ Len(waiting) \in Nat /\ \A i \in 1..Len(waiting) : waiting[i] \in Callers
    BY <2>1, LenProperties, ElementOfSeq
  <2>3. /\ Append(waiting, c) \in Seq(Callers) /\ Len(Append(waiting, c)) = Len(waiting) + 1
        /\ \A i \in 1..Len(waiting) : Append(waiting, c)[i] = waiting[i]
        /\ Append(waiting, c)[Len(waiting) + 1] = c
    BY <2>1, AppendProperties
  <2>4. DOMAIN waiting' = 1..Len(waiting) + 1 BY <1>2, <2>3, LenProperties
  <2>5. /\ \A i \in 1..Len(waiting) : waiting'[i] = waiting[i]
        /\ waiting'[Len(waiting) + 1] = c
    BY <1>2, <2>3
  <2>6. \A i \in 1..Len(waiting) + 1 : i \in 1..Len(waiting) \/ i = Len(waiting) + 1 BY <2>2
  <2>7. \A i \in 1..Len(waiting) : call[waiting[i]].step = "waiting" /\ waiting[i] # c
    BY <2>1, <2>2 DEF Line, Asking
  <2>8. R!InLine'
    <3>1. \A d \in Callers \ {c} : call[d].step = "waiting" => \E i \in 1..Len(waiting) : waiting[i] = d
      BY <2>1, <2>2 DEF Line, R!InLine
    <3>2. 1..Len(waiting) \subseteq 1..Len(waiting) + 1 /\ Len(waiting) + 1 \in 1..Len(waiting) + 1 BY <2>2
    <3>3. \A d \in Callers : call'[d].step = "waiting" => \E i \in DOMAIN waiting' : waiting'[i] = d
      BY <1>1, <2>4, <2>5, <3>1, <3>2
    <3> QED BY <3>3 DEF R!InLine
  <2>9. \A i \in DOMAIN waiting' : call'[waiting'[i]].step = "waiting" BY <1>1, <2>2, <2>4, <2>5, <2>6, <2>7
  <2>10. \A i, j \in 1..Len(waiting) : waiting[i] = waiting[j] => i = j BY <2>1, <2>2 DEF Line
  <2>11. \A i, j \in DOMAIN waiting' : waiting'[i] = waiting'[j] => i = j BY <2>4, <2>5, <2>6, <2>7, <2>10
  <2> QED BY <2>8, <2>9, <2>11 DEF Line
<1>6. QuietInv'
  <2>1. Early' = Early BY <1>1 DEF Early, R!At, Asking
  <2> QED BY <1>2, <2>1 DEF RpcInv, QuietInv
<1> QED BY <1>3, <1>4, <1>5, <1>6

(* A call that ends gives its slot back and wakes one caller in its place. *)
LEMMA LeaveKeeps ==
  ASSUME R!RpcAssumption, RpcInv, NEW c \in Callers, call[c].step = "sent", NEW next, After(next), R!Leave(c, next)
  PROVE  /\ R!SlotsTaken' /\ R!NoLostWakeup' /\ Line'
         /\ R!Holding' = R!Holding \ {c} /\ R!At("turn")' = R!At("turn")
         /\ \A d \in R!At("turn") : call'[d] = call[d]
<1>1. /\ call' \in [Callers -> R!CallState] /\ call'[c] = next
      /\ waiting = <<>> => /\ waiting' = <<>> /\ \A d \in Callers \ {c} : call'[d] = call[d]
      /\ waiting # <<>> => /\ waiting' = Tail(waiting) /\ Head(waiting) = waiting[1]
                           /\ Head(waiting) \in Callers \ {c} /\ 1 \in DOMAIN waiting
                           /\ call[Head(waiting)].step = "waiting" /\ call'[Head(waiting)].step = "woken"
                           /\ \A d \in Callers \ {c, Head(waiting)} : call'[d] = call[d]
  BY LeavesOne DEF RpcInv
<1>2. next.step \in {"idle", "backoff"} BY DEF After
<1>3. R!Holding' = R!Holding \ {c} /\ R!At("turn")' = R!At("turn") /\ \A d \in R!At("turn") : call'[d] = call[d]
  <2>1. CASE waiting = <<>> BY <1>1, <1>2, <2>1 DEF R!Holding, R!At
  <2>2. CASE waiting # <<>> BY <1>1, <1>2, <2>2 DEF R!Holding, R!At
  <2> QED BY <2>1, <2>2
<1>4. active \in Nat /\ Concurrency \in Nat /\ active' = active - 1 BY DEF RpcInv, R!TypeOK, R!RpcAssumption, R!Leave, R!Release
<1>5. R!SlotsTaken'
  <2>1. c \in R!Holding BY DEF R!Holding, R!At
  <2>2. Cardinality(R!Holding \ {c}) = Cardinality(R!Holding) - 1 BY <2>1, Finite, FS_RemoveElement
  <2>3. active = Cardinality(R!Holding) /\ active <= Concurrency BY SameCardinality DEF RpcInv, R!SlotsTaken
  <2>4. Cardinality(R!Holding') = Cardinality(R!Holding) - 1 BY <1>3, <2>2
  <2>5. active' = Cardinality(R!Holding') /\ active' <= Concurrency BY <1>4, <2>3, <2>4
  <2> QED BY <2>5, SameCardinality DEF R!SlotsTaken
<1>6. R!NoLostWakeup'
  <2>1. CASE waiting = <<>> BY <1>1, <2>1, SameCardinality DEF R!NoLostWakeup
  <2>2. CASE waiting # <<>>
    <3>1. R!At("woken")' = R!At("woken") \cup {Head(waiting)} /\ Head(waiting) \notin R!At("woken")
      BY <1>1, <1>2, <2>2 DEF R!At
    <3>2. IsFiniteSet(R!At("woken")) /\ Cardinality(R!At("woken")) \in Nat BY Finite
    <3>3. Cardinality(R!At("woken") \cup {Head(waiting)}) = Cardinality(R!At("woken")) + 1
      BY <3>1, <3>2, FS_AddElement
    <3>4. active + Cardinality(R!At("woken")) >= Concurrency BY <2>2, SameCardinality DEF RpcInv, R!NoLostWakeup
    <3>5. Cardinality(R!At("woken")') = Cardinality(R!At("woken")) + 1 BY <3>1, <3>3
    <3>6. active' + Cardinality(R!At("woken")') >= Concurrency BY <1>4, <3>2, <3>4, <3>5
    <3> QED BY <3>6, SameCardinality DEF R!NoLostWakeup
  <2> QED BY <2>1, <2>2
<1>7. Line'
  <2>1. waiting \in Seq(Callers) /\ Line BY DEF RpcInv, R!TypeOK
  <2>2. CASE waiting = <<>>
    <3>1. \A d \in Callers : call'[d].step = "waiting" => call[d].step = "waiting" BY <1>1, <1>2, <2>2
    <3>2. waiting' = waiting /\ DOMAIN waiting = {} BY <1>1, <2>2
    <3> QED BY <2>1, <3>1, <3>2 DEF Line, R!InLine
  <2>3. CASE waiting # <<>>
    <3>1. DOMAIN waiting = 1..Len(waiting) /\ Len(waiting) \in Nat \ {0} /\ \A i \in 1..Len(waiting) : waiting[i] \in Callers
      BY <2>1, <2>3, EmptySeq, LenProperties, ElementOfSeq
    <3>2. /\ waiting' \in Seq(Callers) /\ Len(waiting') = Len(waiting) - 1
          /\ \A i \in 1..Len(waiting') : waiting'[i] = waiting[i + 1]
      BY <1>1, <2>1, <2>3, HeadTailProperties, SMTT(30)
    <3>3. DOMAIN waiting' = 1..Len(waiting) - 1 /\ \A i \in 1..Len(waiting) - 1 : waiting'[i] = waiting[i + 1] /\ i + 1 \in 1..Len(waiting) /\ i + 1 # 1
      BY <3>1, <3>2, LenProperties
    <3>4. \A i, j \in 1..Len(waiting) : waiting[i] = waiting[j] => i = j BY <2>1, <3>1 DEF Line
    <3>5. \A i \in DOMAIN waiting' : waiting'[i] # Head(waiting) BY <1>1, <2>3, <3>1, <3>3, <3>4
    <3>6. \A i \in DOMAIN waiting' : call'[waiting'[i]].step = "waiting"
      <4>1. \A i \in 1..Len(waiting) : call[waiting[i]].step = "waiting" /\ waiting[i] # c BY <2>1, <3>1 DEF Line
      <4> QED BY <1>1, <2>3, <3>1, <3>3, <3>5, <4>1
    <3>7. \A i, j \in DOMAIN waiting' : waiting'[i] = waiting'[j] => i = j
      <4>1. SUFFICES ASSUME NEW i \in DOMAIN waiting', NEW j \in DOMAIN waiting', waiting'[i] = waiting'[j]
                     PROVE  i = j
        OBVIOUS
      <4>2. i + 1 = j + 1 BY <3>3, <3>4, <4>1
      <4>3. i \in Int /\ j \in Int BY <3>3
      <4> QED BY <4>2, <4>3
    <3>8. R!InLine'
      <4>1. SUFFICES ASSUME NEW d \in Callers, call'[d].step = "waiting"
                     PROVE  \E i \in DOMAIN waiting' : waiting'[i] = d
        BY DEF R!InLine
      <4>2. d # c /\ d # Head(waiting) /\ call[d].step = "waiting" BY <1>1, <1>2, <2>3, <4>1
      <4>3. PICK k \in 1..Len(waiting) : waiting[k] = d BY <2>1, <3>1, <4>2 DEF Line, R!InLine
      <4>4. k # 1 BY <1>1, <2>3, <4>2, <4>3
      <4>5. k - 1 \in 1..Len(waiting) - 1 /\ (k - 1) + 1 = k BY <3>1, <4>3, <4>4
      <4> QED BY <3>3, <4>3, <4>5
    <3> QED BY <3>6, <3>7, <3>8 DEF Line
  <2> QED BY <2>2, <2>3
<1> QED BY <1>3, <1>5, <1>6, <1>7

-----------------------------------------------------------------------------
(* The actions, one by one.                                                *)
LEMMA WithSlotKeeps ==
  ASSUME R!RpcAssumption, RpcInv, NEW c \in Callers, Asking(c), R!WithSlot(c),
         UNCHANGED <<gap, quiet, noise>>, calls' \in 0..MaxCalls
  PROVE  RpcInv'
<1>1. R!TypeOK /\ RpcInv /\ UNCHANGED <<quiet, noise>> BY DEF RpcInv
<1>2. CASE R!TakeSlot(c)
  <2>1. R!SlotsTaken' /\ R!NoLostWakeup' /\ Line' /\ QuietInv' BY <1>1, <1>2, TakeSlotKeeps
  <2>2. call' \in [Callers -> R!CallState] BY <1>1, <1>2, TakesOne
  <2>3. active' \in Nat /\ nextAt' \in Nat BY <1>1, <1>2 DEF R!TypeOK, R!TakeSlot
  <2>4. R!TypeOK' BY <1>1, <1>2, <2>2, <2>3 DEF R!TypeOK, R!TakeSlot
  <2> QED BY <2>1, <2>4 DEF RpcInv
<1>3. CASE R!QueueUp(c)
  <2>1. R!SlotsTaken' /\ R!NoLostWakeup' /\ Line' /\ QuietInv' BY <1>1, <1>3, QueueUpKeeps
  <2>2. call' \in [Callers -> R!CallState] BY <1>1, <1>3, QueuesOne
  <2>3. waiting' \in Seq(Callers) BY <1>1, <1>3, AppendProperties DEF R!TypeOK, R!QueueUp
  <2>4. R!TypeOK' BY <1>1, <1>3, <2>2, <2>3 DEF R!TypeOK, R!QueueUp
  <2> QED BY <2>1, <2>4 DEF RpcInv
<1> QED BY <1>2, <1>3 DEF R!WithSlot

(* A call leaves: in the pause it is one of those that were to.            *)
LEMMA SendKeeps ==
  ASSUME R!RpcAssumption, RpcInv, NEW c \in Callers, R!Send(c)
  PROVE  RpcInv'
<1>1. call[c].step = "turn" /\ call[c].left = 0 /\ call' = R!Becomes(c, "sent", 0)
      /\ UNCHANGED <<active, waiting, gap, nextAt, calls, quiet>>
  BY DEF R!Send, R!slots, R!pace
<1>2. /\ call' \in [Callers -> R!CallState] /\ call'[c].step = "sent"
      /\ \A d \in Callers \ {c} : call'[d] = call[d]
  BY <1>1, BecomesCall DEF RpcInv, R!Steps
<1>3. noise' = (IF quiet > 0 THEN noise + 1 ELSE noise) /\ noise \in Nat /\ quiet \in Nat /\ noise' \in Nat
  BY DEF RpcInv, R!TypeOK, R!Send
<1>4. R!TypeOK' BY <1>1, <1>2, <1>3 DEF RpcInv, R!TypeOK
<1>5. R!Holding' = R!Holding /\ R!At("woken")' = R!At("woken") BY <1>1, <1>2 DEF R!Holding, R!At
<1>6. R!SlotsTaken' /\ R!NoLostWakeup' BY <1>1, <1>5, SameCardinality DEF RpcInv, R!SlotsTaken, R!NoLostWakeup
<1>7. Line'
  <2>1. \A d \in Callers : call'[d].step = "waiting" <=> call[d].step = "waiting" BY <1>1, <1>2
  <2>2. waiting \in Seq(Callers) /\ Line BY DEF RpcInv, R!TypeOK
  <2>3. \A i \in DOMAIN waiting : waiting[i] \in Callers BY <2>2, LenProperties, ElementOfSeq
  <2> QED BY <1>1, <2>1, <2>2, <2>3 DEF Line, R!InLine
<1>8. QuietInv'
  <2>1. nextAt >= quiet /\ noise + Cardinality(Early) < Concurrency BY DEF RpcInv, QuietInv
  <2>2. Early' = Early \ {c} BY <1>1, <1>2 DEF Early, R!At
  <2>3. IsFiniteSet(Early) /\ Cardinality(Early) \in Nat BY Finite
  <2>4. Cardinality(Early \ {c}) = IF c \in Early THEN Cardinality(Early) - 1 ELSE Cardinality(Early)
    BY <2>3, FS_RemoveElement
  <2>5. quiet > 0 => c \in Early BY <1>1 DEF Early, R!At
  <2>6. Concurrency \in Nat BY DEF R!RpcAssumption
  <2>7. Cardinality(Early') \in Nat BY FiniteNext
  <2>8. noise' + Cardinality(Early') < Concurrency
    <3>1. CASE quiet > 0 BY <1>3, <2>1, <2>2, <2>3, <2>4, <2>5, <2>6, <3>1
    <3>2. CASE ~(quiet > 0) BY <1>3, <2>1, <2>2, <2>3, <2>4, <2>6, <3>2
    <3> QED BY <3>1, <3>2
  <2> QED BY <1>1, <2>1, <2>8 DEF QuietInv
<1> QED BY <1>4, <1>6, <1>7, <1>8 DEF RpcInv

LEMMA LeaveTypes ==
  ASSUME R!RpcAssumption, RpcInv, NEW c \in Callers, call[c].step = "sent", NEW next, After(next), R!Leave(c, next),
         gap' \in 1..MaxGap, nextAt' \in Nat, calls' = calls, quiet' \in Nat, noise' \in Nat
  PROVE  R!TypeOK'
<1>1. R!TypeOK /\ Line BY DEF RpcInv
<1>2. call' \in [Callers -> R!CallState] BY <1>1, LeavesOne
<1>3. waiting' \in Seq(Callers) BY <1>1, HeadTailProperties DEF R!TypeOK, R!Leave, R!Release
<1>4. active' \in Nat
  <2>1. c \in R!Holding BY DEF R!Holding, R!At
  <2>2. Cardinality(R!Holding) # 0 BY <2>1, Finite, FS_EmptySet
  <2>3. active = Cardinality(R!Holding) /\ active \in Nat BY SameCardinality DEF RpcInv, R!SlotsTaken, R!TypeOK
  <2> QED BY <2>2, <2>3 DEF R!Leave, R!Release
<1> QED BY <1>1, <1>2, <1>3, <1>4 DEF R!TypeOK

(* An answer, or a failure, that leaves the pause as it is.                *)
LEMMA RpcAnsweredKeeps ==
  ASSUME R!RpcAssumption, RpcInv, NEW c \in Callers, R!Answered(c) \/ R!Failed(c)
  PROVE  RpcInv'
<1>1. call[c].step = "sent" /\ UNCHANGED <<nextAt, calls, quiet, noise>> BY DEF R!Answered, R!Failed, R!pace
<1>2. R!TypeOK BY DEF RpcInv
<1>3. After(R!Ended) /\ After(R!Retry(c)) BY <1>2, RetryIsAfter
<1>4. PICK next : After(next) /\ R!Leave(c, next) BY <1>3 DEF R!Answered, R!Failed
<1>5. gap' \in 1..MaxGap
  <2>1. gap \in 1..MaxGap /\ MaxGap \in Nat BY <1>2 DEF R!TypeOK, R!RpcAssumption
  <2>2. R!Later(gap - 1, 1) \in 1..MaxGap BY <2>1 DEF R!Later
  <2> QED BY <2>1, <2>2 DEF R!Answered, R!Failed, R!pace
<1>6. nextAt' \in Nat /\ quiet' \in Nat /\ noise' \in Nat BY <1>1, <1>2 DEF R!TypeOK
<1>7. R!TypeOK' BY <1>1, <1>4, <1>5, <1>6, LeaveTypes
<1>8. /\ R!SlotsTaken' /\ R!NoLostWakeup' /\ Line' /\ R!At("turn")' = R!At("turn")
      /\ \A d \in R!At("turn") : call'[d] = call[d]
  BY <1>1, <1>4, LeaveKeeps
<1>9. Early' = Early BY <1>1, <1>8 DEF Early
<1>10. QuietInv' BY <1>1, <1>9 DEF RpcInv, QuietInv
<1> QED BY <1>7, <1>8, <1>10 DEF RpcInv

(* A refusal starts a new pause. The calls that may still leave hold the   *)
(* other slots; who takes one now has a turn after the pause.              *)
LEMMA RpcRefusedKeeps ==
  ASSUME R!RpcAssumption, RpcInv, NEW c \in Callers, R!Refused(c)
  PROVE  RpcInv'
<1>1. call[c].step = "sent" /\ R!Leave(c, R!Retry(c)) /\ nextAt' = R!PushedBack /\ quiet' = Pause /\ noise' = 0 /\ calls' = calls
      /\ gap' = R!Lower(gap + 1, MaxGap)
  BY DEF R!Refused
<1>2. R!TypeOK /\ Pause \in Nat /\ Concurrency \in Nat BY DEF RpcInv, R!RpcAssumption
<1>3. After(R!Retry(c)) BY <1>2, RetryIsAfter
<1>4. gap' \in 1..MaxGap BY <1>1, <1>2 DEF R!TypeOK, R!RpcAssumption, R!Lower
<1>5. nextAt' \in Nat /\ nextAt' >= Pause BY <1>1, <1>2 DEF R!TypeOK, R!PushedBack, R!Later
<1>6. R!TypeOK' BY <1>1, <1>2, <1>3, <1>4, <1>5, LeaveTypes
<1>7. R!SlotsTaken' /\ R!NoLostWakeup' /\ Line' /\ R!Holding' = R!Holding \ {c} BY <1>1, <1>3, LeaveKeeps
<1>8. QuietInv'
  <2>1. c \in R!Holding BY <1>1 DEF R!Holding, R!At
  <2>2. Cardinality(R!Holding \ {c}) = Cardinality(R!Holding) - 1 BY <2>1, Finite, FS_RemoveElement
  <2>3. active = Cardinality(R!Holding) /\ active <= Concurrency /\ active \in Nat BY SameCardinality DEF RpcInv, R!SlotsTaken, R!TypeOK
  <2>4. Early' \in SUBSET R!Holding' BY DEF Early, R!Holding
  <2>5. Cardinality(Early') <= Cardinality(R!Holding') BY <2>4, FiniteNext, FS_Subset
  <2>6. Cardinality(Early') \in Nat BY FiniteNext
  <2>7. Cardinality(R!Holding') = Cardinality(R!Holding) - 1 BY <1>7, <2>2
  <2>8. noise' + Cardinality(Early') < Concurrency BY <1>1, <1>2, <2>3, <2>5, <2>6, <2>7
  <2> QED BY <1>1, <1>5, <2>8 DEF QuietInv
<1> QED BY <1>6, <1>7, <1>8 DEF RpcInv

(* Time passes for all the same: whose turn was after the pause stays so.  *)
LEMMA RpcTickKeeps ==
  ASSUME R!RpcAssumption, RpcInv, R!Tick
  PROVE  RpcInv'
<1>1. /\ call \in [Callers -> R!CallState] /\ nextAt \in Nat /\ quiet \in Nat /\ noise \in Nat
      /\ UNCHANGED <<active, waiting, gap, calls, noise>> /\ nextAt' = R!Less(nextAt) /\ quiet' = R!Less(quiet)
      /\ call' = [d \in Callers |-> [call[d] EXCEPT !.left = R!Less(@)]]
  BY DEF RpcInv, R!TypeOK, R!Tick, R!slots
<1>2. \A n \in Nat : R!Less(n) \in Nat BY DEF R!Less
<1>3. \A m, n \in Nat : m >= n => R!Less(m) >= R!Less(n) BY DEF R!Less
<1>4. \A d \in Callers : call[d] \in R!CallState /\ call[d].left \in Nat BY <1>1 DEF R!CallState
<1>5. \A d \in Callers : /\ call'[d] = [call[d] EXCEPT !.left = R!Less(call[d].left)]
                         /\ call'[d] \in R!CallState /\ call'[d].step = call[d].step /\ call'[d].left = R!Less(call[d].left)
  <2>1. SUFFICES ASSUME NEW d \in Callers
                 PROVE  /\ call'[d] = [call[d] EXCEPT !.left = R!Less(call[d].left)]
                        /\ call'[d] \in R!CallState /\ call'[d].step = call[d].step /\ call'[d].left = R!Less(call[d].left)
    OBVIOUS
  <2>2. call'[d] = [call[d] EXCEPT !.left = R!Less(call[d].left)] BY <1>1
  <2>3. call[d] \in R!CallState /\ R!Less(call[d].left) \in Nat BY <1>2, <1>4
  <2>4. \A x \in Nat : /\ [call[d] EXCEPT !.left = x] \in R!CallState /\ [call[d] EXCEPT !.left = x].step = call[d].step
                       /\ [call[d] EXCEPT !.left = x].left = x
    BY <2>3 DEF R!CallState
  <2> QED BY <2>2, <2>3, <2>4
<1>6. call' \in [Callers -> R!CallState] BY <1>1, <1>5
<1>7. R!TypeOK' BY <1>1, <1>2, <1>6 DEF RpcInv, R!TypeOK
<1>8. R!Holding' = R!Holding /\ R!At("woken")' = R!At("woken") BY <1>5 DEF R!Holding, R!At
<1>9. R!SlotsTaken' /\ R!NoLostWakeup' BY <1>1, <1>8, SameCardinality DEF RpcInv, R!SlotsTaken, R!NoLostWakeup
<1>10. Line'
  <2>1. waiting \in Seq(Callers) /\ Line BY DEF RpcInv, R!TypeOK
  <2>2. \A i \in DOMAIN waiting : waiting[i] \in Callers BY <2>1, LenProperties, ElementOfSeq
  <2> QED BY <1>1, <1>5, <2>1, <2>2 DEF Line, R!InLine
<1>11. QuietInv'
  <2>1. nextAt >= quiet /\ noise + Cardinality(Early) < Concurrency BY DEF RpcInv, QuietInv
  <2>2. nextAt' >= quiet' BY <1>1, <1>3, <2>1
  <2>3. Early' \in SUBSET Early
    <3>1. SUFFICES ASSUME NEW d \in Early' PROVE d \in Early OBVIOUS
    <3>2. d \in Callers /\ call'[d].step = "turn" /\ call'[d].left < quiet' BY DEF Early, R!At
    <3>3. call[d].step = "turn" /\ R!Less(call[d].left) < R!Less(quiet) /\ call[d].left \in Nat BY <1>1, <1>4, <1>5, <3>2
    <3>4. call[d].left < quiet BY <1>1, <3>3 DEF R!Less
    <3> QED BY <3>2, <3>3, <3>4 DEF Early, R!At
  <2>4. IsFiniteSet(Early) /\ Cardinality(Early) \in Nat /\ Cardinality(Early') \in Nat BY Finite, FiniteNext
  <2>5. Cardinality(Early') <= Cardinality(Early) BY <2>3, <2>4, FS_Subset
  <2>6. Concurrency \in Nat BY DEF R!RpcAssumption
  <2>7. noise' + Cardinality(Early') < Concurrency BY <1>1, <2>1, <2>4, <2>5, <2>6
  <2> QED BY <2>2, <2>7 DEF QuietInv
<1> QED BY <1>7, <1>9, <1>10, <1>11 DEF RpcInv

-----------------------------------------------------------------------------
LEMMA RpcInitHolds ==
  ASSUME R!RpcAssumption, R!Init
  PROVE  RpcInv
<1>1. \A c \in Callers : call[c] = [step |-> "idle", attempt |-> 0, left |-> 0] BY DEF R!Init
<1>2. call \in [Callers -> R!CallState] BY DEF R!Init, R!CallState, R!Steps, R!RpcAssumption
<1>3. waiting = <<>> /\ waiting \in Seq(Callers) /\ DOMAIN waiting = {} BY EmptySeq DEF R!Init
<1>4. R!TypeOK BY <1>2, <1>3 DEF R!Init, R!TypeOK, R!RpcAssumption
<1>5. R!Holding = {} /\ Early = {} BY <1>1 DEF R!Holding, R!At, Early
<1>6. Cardinality(R!Holding) = 0 /\ Cardinality(Early) = 0 BY <1>5, FS_EmptySet
<1>7. Concurrency \in Nat \ {0} BY DEF R!RpcAssumption
<1>8. R!SlotsTaken /\ QuietInv BY <1>6, <1>7, SameCardinality DEF R!Init, R!SlotsTaken, QuietInv
<1>9. R!NoLostWakeup /\ Line BY <1>1, <1>3, SameCardinality DEF R!NoLostWakeup, Line, R!InLine
<1> QED BY <1>4, <1>8, <1>9 DEF RpcInv

LEMMA RpcNextKeeps ==
  ASSUME R!RpcAssumption, RpcInv, [R!Next]_(R!vars)
  PROVE  RpcInv'
<1>1. CASE R!Tick BY <1>1, RpcTickKeeps
<1>2. ASSUME NEW c \in Callers, R!Call(c) PROVE RpcInv'
  <2>1. Asking(c) /\ R!WithSlot(c) /\ UNCHANGED <<gap, quiet, noise>> BY <1>2 DEF R!Call, Asking
  <2>2. calls' \in 0..MaxCalls BY <1>2 DEF R!Call, RpcInv, R!TypeOK, R!RpcAssumption
  <2> QED BY <2>1, <2>2, WithSlotKeeps
<1>3. ASSUME NEW c \in Callers, R!Resume(c) \/ R!RetryNow(c) PROVE RpcInv'
  <2>1. Asking(c) /\ R!WithSlot(c) /\ UNCHANGED <<gap, calls, quiet, noise>> BY <1>3 DEF R!Resume, R!RetryNow, Asking
  <2>2. calls' \in 0..MaxCalls /\ UNCHANGED <<gap, quiet, noise>> BY <2>1 DEF RpcInv, R!TypeOK
  <2> QED BY <2>1, <2>2, WithSlotKeeps
<1>4. ASSUME NEW c \in Callers, R!Send(c) PROVE RpcInv' BY <1>4, SendKeeps
<1>5. ASSUME NEW c \in Callers, R!Answered(c) \/ R!Failed(c) PROVE RpcInv' BY <1>5, RpcAnsweredKeeps
<1>6. ASSUME NEW c \in Callers, R!Refused(c) PROVE RpcInv' BY <1>6, RpcRefusedKeeps
<1>7. CASE UNCHANGED R!vars
  <2>1. UNCHANGED <<active, waiting, call, gap, nextAt, calls, quiet, noise>> BY <1>7 DEF R!vars, R!slots, R!pace
  <2>2. R!Holding' = R!Holding /\ R!At("woken")' = R!At("woken") /\ Early' = Early BY <2>1 DEF R!Holding, R!At, Early
  <2>3. R!SlotsTaken' /\ R!NoLostWakeup' /\ QuietInv' BY <2>1, <2>2, SameCardinality DEF RpcInv, R!SlotsTaken, R!NoLostWakeup, QuietInv
  <2>4. R!TypeOK' /\ Line' BY <2>1 DEF RpcInv, R!TypeOK, Line, R!InLine
  <2> QED BY <2>3, <2>4 DEF RpcInv
<1> QED BY <1>1, <1>2, <1>3, <1>4, <1>5, <1>6, <1>7 DEF R!Next, R!Step, R!Reply

-----------------------------------------------------------------------------
(* The pump runs exactly while a call waits; each call of the high lane    *)
(* that passes the low one counts towards the low one's share; once a call *)
(* has left in a pause, the pump sleeps through the rest of it.            *)
PumpRuns == pump.on <=> G!Waits(lanes)
ShareInv == passed <= served
PauseInv ==
  /\ freeAt >= hush
  /\ released \in {0, 1}
  /\ released = 1 => hush = 0 \/ ~pump.on \/ pump.left >= hush

GeckoInv == G!TypeOK /\ PumpRuns /\ ShareInv /\ PauseInv

Record == [step : {"idle", "turn", "sent"}, lane : G!Lanes, attempt : 0..Attempts - 1]
PumpState == [on : BOOLEAN, left : Nat]

-----------------------------------------------------------------------------
(* A call that queues up is in its lane, and the pump runs.                *)
LEMMA TurnQueues ==
  ASSUME G!TypeOK, PumpRuns, NEW c \in Clients, NEW lane \in G!Lanes, NEW at \in Nat, G!Turn(c, lane, at)
  PROVE  /\ lanes' \in [G!Lanes -> Seq(Clients)] /\ pump' \in PumpState /\ served' = served
         /\ pump'.on /\ G!Waits(lanes')
         /\ pump' = pump \/ (~pump.on /\ pump'.left = at)
<1>1. lanes \in [G!Lanes -> Seq(Clients)] /\ pump \in PumpState BY DEF G!TypeOK, PumpState
<1>2. Append(lanes[lane], c) \in Seq(Clients) /\ Append(lanes[lane], c) # <<>> BY <1>1, AppendProperties
<1>3. lanes' = [lanes EXCEPT ![lane] = Append(lanes[lane], c)] BY DEF G!Turn
<1>4. lanes' \in [G!Lanes -> Seq(Clients)] /\ lanes'[lane] = Append(lanes[lane], c) BY <1>1, <1>2, <1>3
<1>5. G!Waits(lanes') BY <1>2, <1>4 DEF G!Waits
<1>6. pump' = IF pump.on THEN pump ELSE [on |-> TRUE, left |-> at] BY DEF G!Turn
<1>7. [on |-> TRUE, left |-> at] \in PumpState BY DEF PumpState
<1>8. CASE pump.on BY <1>1, <1>4, <1>5, <1>6, <1>8 DEF G!Turn
<1>9. CASE ~pump.on BY <1>4, <1>5, <1>6, <1>7, <1>9 DEF G!Turn
<1> QED BY <1>8, <1>9

(* The pause is kept by a call that queues up: a pump that starts sleeps   *)
(* until the next free time.                                               *)
LEMMA TurnPauses ==
  ASSUME G!TypeOK, PumpRuns, NEW c \in Clients, NEW lane \in G!Lanes, G!Turn(c, lane, freeAt), PauseInv,
         UNCHANGED <<freeAt, hush, released>>
  PROVE  PauseInv'
<1>1. freeAt \in Nat /\ hush \in Nat BY DEF G!TypeOK
<1>2. pump' = pump \/ (~pump.on /\ pump'.left = freeAt) BY <1>1, TurnQueues
<1>3. CASE pump' = pump BY <1>3 DEF PauseInv
<1>4. CASE pump'.left = freeAt BY <1>4 DEF PauseInv
<1> QED BY <1>2, <1>3, <1>4

LEMMA GetKeeps ==
  ASSUME G!GeckoAssumption, GeckoInv, NEW c \in Clients, NEW lane \in G!Lanes, G!Get(c, lane)
  PROVE  GeckoInv'
<1>1. G!TypeOK /\ PumpRuns /\ ShareInv /\ PauseInv /\ freeAt \in Nat BY DEF GeckoInv, G!TypeOK
<1>2. G!Turn(c, lane, freeAt) /\ UNCHANGED <<space, freeAt, passed, hush, released>> BY DEF G!Get
<1>3. /\ lanes' \in [G!Lanes -> Seq(Clients)] /\ pump' \in PumpState /\ served' = served
      /\ pump'.on /\ G!Waits(lanes')
  BY <1>1, <1>2, TurnQueues
<1>4. get' \in [Clients -> Record]
  <2>1. [step |-> "turn", lane |-> lane, attempt |-> 0] \in Record BY DEF Record, G!GeckoAssumption
  <2>2. get' = [get EXCEPT ![c] = [step |-> "turn", lane |-> lane, attempt |-> 0]] BY DEF G!Get
  <2> QED BY <1>1, <2>1, <2>2 DEF G!TypeOK, Record
<1>5. asks' \in 0..MaxAsks BY <1>1 DEF G!Get, G!TypeOK, G!GeckoAssumption
<1>6. G!TypeOK' BY <1>1, <1>2, <1>3, <1>4, <1>5 DEF G!TypeOK, Record, PumpState
<1>7. PauseInv' BY <1>1, <1>2, TurnPauses
<1>8. PumpRuns' /\ ShareInv' BY <1>1, <1>2, <1>3 DEF PumpRuns, ShareInv
<1> QED BY <1>6, <1>7, <1>8 DEF GeckoInv

(* The pump picks a lane somebody waits in, and the low one when its share *)
(* is due.                                                                 *)
LEMMA PumpKeeps ==
  ASSUME G!GeckoAssumption, GeckoInv, G!Pump
  PROVE  GeckoInv'
<1>1. G!TypeOK /\ PumpRuns /\ ShareInv /\ PauseInv BY DEF GeckoInv
<1>2. /\ lanes \in [G!Lanes -> Seq(Clients)] /\ get \in [Clients -> Record] /\ freeAt \in Nat /\ space \in 1..MaxWait
      /\ served \in 0..LowShare - 1 /\ LowShare \in Nat \ {0} /\ passed \in Nat /\ hush \in Nat
  BY <1>1 DEF G!TypeOK, Record, G!GeckoAssumption
<1>3. pump.on /\ pump.left = 0 /\ UNCHANGED <<space, asks, hush>> BY DEF G!Pump
<1>4. G!Picked \in G!Lanes /\ lanes[G!Picked] # <<>> BY <1>1, <1>3 DEF PumpRuns, G!Waits, G!Picked, G!Lanes
<1>5. Head(lanes[G!Picked]) \in Clients /\ Tail(lanes[G!Picked]) \in Seq(Clients) BY <1>2, <1>4, HeadTailProperties
<1>6. lanes' \in [G!Lanes -> Seq(Clients)] BY <1>2, <1>4, <1>5 DEF G!Pump
<1>7. get' \in [Clients -> Record]
  <2>1. get' = [get EXCEPT ![Head(lanes[G!Picked])] = [get[Head(lanes[G!Picked])] EXCEPT !.step = "sent"]]
    BY <1>2 DEF G!Pump, G!Released
  <2>2. get[Head(lanes[G!Picked])] \in Record BY <1>2, <1>5
  <2>3. [get[Head(lanes[G!Picked])] EXCEPT !.step = "sent"] \in Record BY <2>2 DEF Record
  <2> QED BY <1>2, <2>1, <2>3
<1>8. freeAt' = freeAt + space /\ freeAt' \in Nat BY <1>2 DEF G!Pump
<1>9. pump' = (IF G!Waits(lanes') THEN [on |-> TRUE, left |-> freeAt'] ELSE [on |-> FALSE, left |-> 0]) BY DEF G!Pump
<1>10. /\ pump' \in PumpState /\ (pump'.on <=> G!Waits(lanes')) /\ (pump'.on => pump'.left = freeAt')
  <2>1. CASE G!Waits(lanes') BY <1>8, <1>9, <2>1 DEF PumpState
  <2>2. CASE ~G!Waits(lanes') BY <1>9, <2>2 DEF PumpState
  <2> QED BY <2>1, <2>2
<1>11. served' = (served + 1) % LowShare BY DEF G!Pump
<1>12. served' \in 0..LowShare - 1 /\ (served # LowShare - 1 => served' = served + 1)
  <2>1. CASE served = LowShare - 1
    <3>1. served + 1 = LowShare BY <1>2, <2>1
    <3>2. \A n \in Nat \ {0} : n % n \in 0..n - 1 OBVIOUS
    <3> QED BY <1>2, <1>11, <2>1, <3>1, <3>2
  <2>2. CASE served # LowShare - 1
    <3>1. served + 1 \in 0..LowShare - 1 BY <1>2, <2>2
    <3>2. \A n \in Nat \ {0} : \A m \in 0..n - 1 : m % n = m OBVIOUS
    <3> QED BY <1>2, <1>11, <2>2, <3>1, <3>2
  <2> QED BY <2>1, <2>2
<1>13. passed' = (IF G!Picked = "low" \/ lanes["low"] = <<>> THEN 0 ELSE passed + 1) BY DEF G!Pump
<1>14. passed' \in Nat /\ ShareInv'
  <2>1. CASE G!Picked = "low" \/ lanes["low"] = <<>> BY <1>12, <1>13, <2>1 DEF ShareInv
  <2>2. CASE ~(G!Picked = "low" \/ lanes["low"] = <<>>)
    <3>1. served # LowShare - 1 BY <2>2 DEF G!Picked
    <3> QED BY <1>1, <1>2, <1>12, <1>13, <2>2, <3>1 DEF ShareInv
  <2> QED BY <2>1, <2>2
<1>15. released' = (IF hush > 0 THEN released + 1 ELSE released) BY DEF G!Pump
<1>16. released' \in {0, 1}
  <2>1. CASE hush > 0
    <3>1. released # 1 BY <1>1, <1>2, <1>3, <2>1 DEF PauseInv
    <3> QED BY <1>1, <1>15, <2>1, <3>1 DEF PauseInv
  <2>2. CASE ~(hush > 0) BY <1>1, <1>15, <2>2 DEF PauseInv
  <2> QED BY <2>1, <2>2
<1>17. PauseInv'
  <2>1. freeAt' >= hush' BY <1>1, <1>2, <1>3, <1>8 DEF PauseInv
  <2>2. ~pump'.on \/ pump'.left >= hush' BY <1>10, <2>1
  <2> QED BY <1>16, <2>1, <2>2 DEF PauseInv
<1>18. G!TypeOK'
  <2>1. released' \in Nat BY <1>16
  <2> QED BY <1>1, <1>3, <1>6, <1>7, <1>8, <1>10, <1>12, <1>14, <2>1 DEF G!TypeOK, Record, PumpState
<1> QED BY <1>10, <1>14, <1>17, <1>18 DEF GeckoInv, PumpRuns

LEMMA NewGap ==
  ASSUME G!GeckoAssumption, G!TypeOK
  PROVE  G!Longer(space - 1, 1) \in 1..MaxWait /\ G!Shorter(space + 1, MaxWait) \in 1..MaxWait
BY DEF G!GeckoAssumption, G!TypeOK, G!Longer, G!Shorter

LEMMA GeckoAnsweredKeeps ==
  ASSUME G!GeckoAssumption, GeckoInv, NEW c \in Clients, G!Answered(c)
  PROVE  GeckoInv'
<1>1. G!TypeOK BY DEF GeckoInv
<1>2. G!None \in Record BY DEF G!None, Record, G!Lanes, G!GeckoAssumption
<1>3. get' \in [Clients -> Record] BY <1>1, <1>2 DEF G!Answered, G!TypeOK, Record
<1>4. space' \in 1..MaxWait BY <1>1, NewGap DEF G!Answered, G!TypeOK
<1>5. UNCHANGED <<lanes, pump, served, freeAt, asks, passed, hush, released>> BY DEF G!Answered, G!queue
<1>6. G!TypeOK' BY <1>1, <1>3, <1>4, <1>5 DEF G!TypeOK, Record
<1>7. PumpRuns' /\ ShareInv' /\ PauseInv' BY <1>5 DEF GeckoInv, PumpRuns, ShareInv, PauseInv, G!Waits
<1> QED BY <1>6, <1>7 DEF GeckoInv

(* A refusal or failure starts a pause: nothing has left in it yet, and    *)
(* the next free time is not before its end.                               *)
LEMMA AgainKeeps ==
  ASSUME G!GeckoAssumption, GeckoInv, NEW c \in Clients, NEW push \in Nat, G!Again(c, push), space' \in 1..MaxWait
  PROVE  GeckoInv'
<1>1. G!TypeOK /\ PumpRuns /\ ShareInv BY DEF GeckoInv
<1>2. get \in [Clients -> Record] /\ get[c] \in Record /\ freeAt \in Nat /\ hush \in Nat /\ freeAt >= hush
  BY <1>1 DEF G!TypeOK, Record, GeckoInv, PauseInv
<1>3. freeAt' = G!Longer(freeAt, push) /\ hush' = G!Longer(hush, push) /\ released' = 0 /\ UNCHANGED <<asks, passed>>
  BY DEF G!Again, G!PushBack
<1>4. freeAt' \in Nat /\ hush' \in Nat /\ freeAt' >= hush' BY <1>2, <1>3 DEF G!Longer
<1>5. PauseInv' BY <1>3, <1>4 DEF PauseInv
<1>6. CASE get[c].attempt + 1 < Attempts
  <2>1. get' = [get EXCEPT ![c] = [[get[c] EXCEPT !.step = "turn"] EXCEPT !.attempt = get[c].attempt + 1]]
        /\ G!Turn(c, get[c].lane, freeAt')
    BY <1>2, <1>6 DEF G!Again
  <2>2. get[c].attempt + 1 \in 0..Attempts - 1 BY <1>2, <1>6 DEF Record, G!GeckoAssumption
  <2>3. [[get[c] EXCEPT !.step = "turn"] EXCEPT !.attempt = get[c].attempt + 1] \in Record
    BY <1>2, <2>2 DEF Record
  <2>4. get' \in [Clients -> Record] BY <1>2, <2>1, <2>3
  <2>5. get[c].lane \in G!Lanes BY <1>2 DEF Record
  <2>6. /\ lanes' \in [G!Lanes -> Seq(Clients)] /\ pump' \in PumpState /\ served' = served
        /\ pump'.on /\ G!Waits(lanes')
    BY <1>1, <1>4, <2>1, <2>5, TurnQueues
  <2>7. G!TypeOK' BY <1>1, <1>3, <1>4, <2>4, <2>6 DEF G!TypeOK, Record, PumpState
  <2>8. PumpRuns' /\ ShareInv' BY <1>1, <1>3, <2>6 DEF PumpRuns, ShareInv
  <2> QED BY <1>5, <2>7, <2>8 DEF GeckoInv
<1>7. CASE ~(get[c].attempt + 1 < Attempts)
  <2>1. get' = [get EXCEPT ![c] = G!None] /\ UNCHANGED <<lanes, pump, served>> BY <1>7 DEF G!Again, G!queue
  <2>2. G!None \in Record BY DEF G!None, Record, G!Lanes, G!GeckoAssumption
  <2>3. get' \in [Clients -> Record] BY <1>2, <2>1, <2>2
  <2>4. G!TypeOK' BY <1>1, <1>3, <1>4, <2>1, <2>3 DEF G!TypeOK, Record
  <2>5. PumpRuns' /\ ShareInv' BY <1>1, <1>3, <2>1 DEF PumpRuns, ShareInv, G!Waits
  <2> QED BY <1>5, <2>4, <2>5 DEF GeckoInv
<1> QED BY <1>6, <1>7

LEMMA GeckoTickKeeps ==
  ASSUME G!GeckoAssumption, GeckoInv, G!Tick
  PROVE  GeckoInv'
<1>1. G!TypeOK /\ pump \in PumpState /\ freeAt \in Nat /\ hush \in Nat /\ pump.left \in Nat
  BY DEF GeckoInv, G!TypeOK, PumpState
<1>2. /\ freeAt' = G!Less(freeAt) /\ hush' = G!Less(hush) /\ pump' = [pump EXCEPT !.left = G!Less(pump.left)]
      /\ UNCHANGED <<lanes, served, get, space, asks, passed, released>>
  BY DEF G!Tick
<1>3. (\A n \in Nat : G!Less(n) \in Nat) /\ \A m, n \in Nat : m >= n => G!Less(m) >= G!Less(n) BY DEF G!Less
<1>4. pump' \in PumpState /\ pump'.on = pump.on /\ pump'.left = G!Less(pump.left)
  <2>1. \A x \in Nat : /\ [pump EXCEPT !.left = x] \in PumpState /\ [pump EXCEPT !.left = x].on = pump.on
                       /\ [pump EXCEPT !.left = x].left = x
    BY <1>1 DEF PumpState
  <2> QED BY <1>1, <1>2, <1>3, <2>1
<1>5. G!TypeOK' BY <1>1, <1>2, <1>3, <1>4 DEF G!TypeOK, PumpState
<1>6. PumpRuns' /\ ShareInv' BY <1>2, <1>4 DEF GeckoInv, PumpRuns, ShareInv, G!Waits
<1>7. PauseInv'
  <2>1. PauseInv BY DEF GeckoInv
  <2>2. freeAt' >= hush' BY <1>1, <1>2, <1>3, <2>1 DEF PauseInv
  <2>3. hush = 0 => hush' = 0 BY <1>2 DEF G!Less
  <2>4. pump.left >= hush => pump'.left >= hush' BY <1>1, <1>2, <1>3, <1>4
  <2> QED BY <1>2, <1>4, <2>1, <2>2, <2>3, <2>4 DEF PauseInv
<1> QED BY <1>5, <1>6, <1>7 DEF GeckoInv

-----------------------------------------------------------------------------
LEMMA GeckoInitHolds ==
  ASSUME G!GeckoAssumption, G!Init
  PROVE  GeckoInv
<1>1. lanes = [l \in G!Lanes |-> <<>>] /\ <<>> \in Seq(Clients) BY EmptySeq DEF G!Init
<1>2. ~G!Waits(lanes) BY <1>1 DEF G!Waits
<1>3. pump = [on |-> FALSE, left |-> 0] /\ pump \in PumpState /\ ~pump.on BY DEF G!Init, PumpState
<1>4. G!None \in Record BY DEF G!None, Record, G!Lanes, G!GeckoAssumption
<1>5. get \in [Clients -> Record] BY <1>4 DEF G!Init
<1>6. G!TypeOK BY <1>1, <1>3, <1>5 DEF G!Init, G!TypeOK, Record, PumpState, G!GeckoAssumption
<1>7. ShareInv /\ PauseInv BY DEF G!Init, ShareInv, PauseInv
<1> QED BY <1>2, <1>3, <1>6, <1>7 DEF GeckoInv, PumpRuns

LEMMA GeckoNextKeeps ==
  ASSUME G!GeckoAssumption, GeckoInv, [G!Next]_(G!vars)
  PROVE  GeckoInv'
<1>1. CASE G!Tick BY <1>1, GeckoTickKeeps
<1>2. CASE G!Pump BY <1>2, PumpKeeps
<1>3. ASSUME NEW c \in Clients, G!Reply(c) PROVE GeckoInv'
  <2>1. G!TypeOK BY DEF GeckoInv
  <2>2. CASE G!Answered(c) BY <2>2, GeckoAnsweredKeeps
  <2>3. CASE G!Refused(c)
    <3>1. GeckoPause \in Nat /\ G!Again(c, GeckoPause) /\ space' \in 1..MaxWait
      BY <2>1, <2>3, NewGap DEF G!Refused, G!GeckoAssumption
    <3> QED BY <3>1, AgainKeeps
  <2>4. CASE G!Failed(c)
    <3>1. get[c].attempt + 1 \in Nat BY <2>1 DEF G!TypeOK
    <3>2. G!Again(c, get[c].attempt + 1) /\ space' \in 1..MaxWait BY <2>1, <2>4, NewGap DEF G!Failed, G!TypeOK
    <3> QED BY <3>1, <3>2, AgainKeeps
  <2> QED BY <1>3, <2>2, <2>3, <2>4 DEF G!Reply
<1>4. ASSUME NEW c \in Clients, NEW lane \in G!Lanes, G!Get(c, lane) PROVE GeckoInv' BY <1>4, GetKeeps
<1>5. CASE UNCHANGED G!vars
  <2>1. UNCHANGED <<lanes, pump, served, get, space, freeAt, asks, passed, hush, released>> BY <1>5 DEF G!vars, G!queue
  <2>2. G!TypeOK' BY <2>1 DEF GeckoInv, G!TypeOK
  <2>3. PumpRuns' /\ ShareInv' /\ PauseInv' BY <2>1 DEF GeckoInv, PumpRuns, ShareInv, PauseInv, G!Waits
  <2> QED BY <2>2, <2>3 DEF GeckoInv
<1> QED BY <1>1, <1>2, <1>3, <1>4, <1>5 DEF G!Next

-----------------------------------------------------------------------------
(* A step of one client is a stutter of the other.                         *)
Inv == RpcInv /\ GeckoInv

LEMMA InvInit == InitClients => Inv
BY RpcInitHolds, GeckoInitHolds, ClientsAssumption DEF InitClients, Inv

LEMMA InvNext ==
  ASSUME Inv, [NextClient]_clientVars
  PROVE  Inv'
<1>1. CASE R!Next /\ UNCHANGED gecko
  <2>1. [R!Next]_(R!vars) /\ [G!Next]_(G!vars) BY <1>1 DEF gecko, G!vars, G!queue
  <2> QED BY <2>1, RpcNextKeeps, GeckoNextKeeps, ClientsAssumption DEF Inv
<1>2. CASE G!Next /\ UNCHANGED rpc
  <2>1. [R!Next]_(R!vars) /\ [G!Next]_(G!vars) BY <1>2 DEF rpc, R!vars, R!slots, R!pace
  <2> QED BY <2>1, RpcNextKeeps, GeckoNextKeeps, ClientsAssumption DEF Inv
<1>3. CASE UNCHANGED clientVars
  <2>1. UNCHANGED rpc /\ UNCHANGED gecko BY <1>3 DEF clientVars
  <2>2. [R!Next]_(R!vars) /\ [G!Next]_(G!vars) BY <2>1 DEF rpc, gecko, R!vars, R!slots, R!pace, G!vars, G!queue
  <2> QED BY <2>2, RpcNextKeeps, GeckoNextKeeps, ClientsAssumption DEF Inv
<1> QED BY <1>1, <1>2, <1>3 DEF NextClient

LEMMA Invariant == SpecClients => []Inv
<1>1. InitClients => Inv BY InvInit
<1>2. Inv /\ [NextClient]_clientVars => Inv' BY InvNext
<1> QED BY <1>1, <1>2, PTL DEF SpecClients

(* Counters, lines, lanes and the records of calls have their types in     *)
(* every state of both clients.                                            *)
THEOREM TypesAreKept == SpecClients => []TypeOK
<1>1. Inv => TypeOK BY DEF Inv, RpcInv, GeckoInv, TypeOK
<1> QED BY <1>1, Invariant, PTL

(* The slots are exactly the calls under way, at most Concurrency, and no  *)
(* caller is left in line next to a slot nobody is on the way to, although *)
(* a new call may take the slot of one that was woken (withSlot).          *)
THEOREM SlotsAlwaysUsed == SpecClients => []SlotsUsed
<1>1. Inv => SlotsUsed BY DEF Inv, RpcInv, Line, SlotsUsed, R!SlotsUsed
<1> QED BY <1>1, Invariant, PTL

(* A waiting call of the low lane is passed by fewer than LowShare calls   *)
(* of the high one, however they come and are retried, and no call waits   *)
(* in a lane with the pump asleep for good (pump, turn).                   *)
THEOREM LowLaneAlwaysServed == SpecClients => []LowLaneServed
<1>1. Inv => LowLaneServed
  <2>1. SUFFICES ASSUME Inv PROVE LowLaneServed OBVIOUS
  <2>2. passed < LowShare BY <2>1, ClientsAssumption DEF Inv, GeckoInv, G!TypeOK, ShareInv, G!GeckoAssumption
  <2>3. G!Waits(lanes) => pump.on BY <2>1 DEF Inv, GeckoInv, PumpRuns
  <2> QED BY <2>2, <2>3 DEF LowLaneServed, G!LowLaneServed
<1> QED BY <1>1, Invariant, PTL

(* In the pause after a refusal fewer calls of the node leave than there   *)
(* are slots, and at most one of GeckoTerminal: only those already given   *)
(* their time before it (send, turn; pump, get).                           *)
THEOREM PausesAreKept == SpecClients => []QuietAfterRefusal
<1>1. Inv => QuietAfterRefusal
  <2>1. SUFFICES ASSUME Inv PROVE QuietAfterRefusal OBVIOUS
  <2>2. noise + Cardinality(Early) < Concurrency /\ noise \in Nat /\ Concurrency \in Nat
    BY <2>1, ClientsAssumption DEF Inv, RpcInv, QuietInv, R!TypeOK, R!RpcAssumption
  <2>3. Cardinality(Early) \in Nat BY Finite, ClientsAssumption
  <2>4. noise < Concurrency BY <2>2, <2>3
  <2>5. released \in {0, 1} BY <2>1 DEF Inv, GeckoInv, PauseInv
  <2>6. released <= 1 BY <2>5
  <2> QED BY <2>4, <2>6 DEF QuietAfterRefusal, R!QuietAfterRefusal, G!OneCallInPause
<1> QED BY <1>1, Invariant, PTL

-----------------------------------------------------------------------------
(* LivePage.  A fetch the proof panel still owns is for the sliders as     *)
(* they stand, and there is none while the panel is off the page.          *)
IsSim(x) == \E at, touched, boot : x = [at |-> at, touched |-> touched, boot |-> boot]
IsBoot(x) == \E at, step, alive : x = [at |-> at, step |-> step, alive |-> alive]
Owned(b) == b.alive => mounted /\ b.at = sim.at
PanelInv ==
  /\ IsSim(sim) /\ BootLowerFits
  /\ \A b \in boots : IsBoot(b) /\ Owned(b)

(* What the effect of useSimProof leaves, and what SetSim does.            *)
LEMMA EffectOwns ==
  ASSUME NEW new, NEW on, \A b \in boots : IsBoot(b), NEW b \in Effect(new, on)
  PROVE  IsBoot(b) /\ (b.alive => on /\ b.at = new.at)
<1>1. CASE b \in Disowned(boots)
  <2>1. PICK c \in boots : b = [c EXCEPT !.alive = FALSE]
    BY <1>1 DEF Disowned
  <2>2. PICK at, step, alive : c = [at |-> at, step |-> step, alive |-> alive]
    BY DEF IsBoot
  <2>3. b = [at |-> at, step |-> step, alive |-> FALSE]
    BY <2>1, <2>2
  <2> QED BY <2>3 DEF IsBoot
<1>2. CASE on /\ b = Fetch(new.at)
  <2>1. b = [at |-> new.at, step |-> "timer", alive |-> TRUE]
    BY <1>2 DEF Fetch
  <2>2. IsBoot(b)
    BY <2>1, Zenon DEF IsBoot
  <2>3. b.at = new.at
    BY <2>1
  <2> QED BY <1>2, <2>2, <2>3
<1> QED BY <1>1, <1>2 DEF Effect

LEMMA SetSimKeeps ==
  ASSUME PanelInv, NEW at, NEW touched, SetSim([at |-> at, touched |-> touched, boot |-> None])
  PROVE  PanelInv'
<1> DEFINE new == [at |-> at, touched |-> touched, boot |-> None]
<1>1. sim' = new /\ new.at = at /\ new.boot = None /\ boots' = Rendered(new) /\ mounted' = mounted
  BY DEF SetSim
<1>2. IsSim(sim)' /\ BootLowerFits'
  BY <1>1 DEF IsSim, BootLowerFits
<1>3. ASSUME NEW b \in boots' PROVE IsBoot(b) /\ (b.alive => mounted /\ b.at = at)
  <2> HIDE DEF new
  <2>1. CASE ~mounted \/ (new.at = sim.at /\ new.boot = sim.boot)
    <3>1. b \in boots
      BY <1>1, <1>3, <2>1 DEF Rendered
    <3> QED BY <1>1, <2>1, <3>1 DEF PanelInv, Owned
  <2>2. CASE ~ (~mounted \/ (new.at = sim.at /\ new.boot = sim.boot))
    <3>1. b \in Effect(new, TRUE) /\ mounted
      BY <1>1, <1>3, <2>2 DEF Rendered
    <3> QED BY <1>1, <3>1, EffectOwns DEF PanelInv
  <2> QED BY <2>1, <2>2
<1> HIDE DEF new
<1>4. \A b \in boots' : IsBoot(b) /\ (b.alive => mounted' /\ b.at = sim'.at)
  BY <1>1, <1>3
<1> QED BY <1>2, <1>4 DEF PanelInv, Owned, IsBoot

LEMMA UnchangedPanelKeeps ==
  ASSUME PanelInv, UNCHANGED panel
  PROVE  PanelInv'
  BY DEF PanelInv, panel, IsSim, IsBoot, Owned, BootLowerFits

LEMMA MirrorKeeps ==
  ASSUME PanelInv, NEW r, Mirror(r)
  PROVE  PanelInv'
  BY SetSimKeeps, UnchangedPanelKeeps DEF Mirror

LEMMA PanelStep ==
  ASSUME PanelInv, [Next]_vars
  PROVE  PanelInv'
<1>1. ASSUME NEW at \in Settings, Slide(at) PROVE PanelInv'
  BY <1>1, SetSimKeeps DEF Slide
<1>2. CASE SyncSim
  <2>1. PICK at \in Synced : SetSim([at |-> at, touched |-> TRUE, boot |-> None]) BY <1>2 DEF SyncSim
  <2> QED BY <2>1, SetSimKeeps
<1>3. CASE Navigate
  <2>1. mounted' = ~mounted /\ sim' = sim /\ boots' = Effect(sim, ~mounted)
    BY <1>3 DEF Navigate
  <2>2. \A b \in boots' : IsBoot(b) /\ (b.alive => mounted' /\ b.at = sim'.at)
    BY <2>1, EffectOwns DEF PanelInv
  <2> QED BY <2>1, <2>2 DEF PanelInv, IsSim, IsBoot, Owned, BootLowerFits
<1>4. ASSUME NEW b \in boots, AskBoot(b) PROVE PanelInv'
  <2>1. PICK at, step, alive : b = [at |-> at, step |-> step, alive |-> alive]
    BY DEF PanelInv, IsBoot
  <2>2. [b EXCEPT !.step = "asked"] = [at |-> at, step |-> "asked", alive |-> alive]
    BY <2>1
  <2> DEFINE new == [b EXCEPT !.step = "asked"]
  <2>3. IsBoot(new) /\ Owned(new)
    BY <2>1, <2>2 DEF PanelInv, Owned, IsBoot
  <2>4. boots' = (boots \ {b}) \cup {new} /\ UNCHANGED <<sim, mounted>>
    BY <1>4 DEF AskBoot
  <2> HIDE DEF new
  <2>5. ASSUME NEW c \in boots' PROVE IsBoot(c) /\ (c.alive => mounted' /\ c.at = sim'.at)
    <3>1. c \in boots \/ c = new
      BY <2>4
    <3> QED BY <2>3, <2>4, <3>1 DEF PanelInv, Owned
  <2> QED BY <2>4, <2>5 DEF PanelInv, IsSim, IsBoot, Owned, BootLowerFits
<1>5. ASSUME NEW b \in boots, BootArrives(b) PROVE PanelInv'
  <2>1. \A c \in boots' : c \in boots
    BY <1>5 DEF BootArrives
  <2>2. PICK at, touched, boot : sim = [at |-> at, touched |-> touched, boot |-> boot]
    BY DEF PanelInv, IsSim
  <2>3. CASE b.alive
    <3>1. sim' = [at |-> at, touched |-> touched, boot |-> b.at] /\ b.at = at /\ mounted' = mounted
      BY <1>5, <2>2, <2>3 DEF BootArrives, PanelInv, Owned
    <3>2. sim'.at = sim.at /\ sim'.boot = sim'.at /\ IsSim(sim')
      BY <2>2, <3>1 DEF IsSim
    <3> QED BY <2>1, <3>1, <3>2 DEF PanelInv, IsSim, IsBoot, Owned, BootLowerFits
  <2>4. CASE ~b.alive
    <3>1. UNCHANGED <<sim, mounted>>
      BY <1>5, <2>4 DEF BootArrives
    <3> QED BY <2>1, <3>1 DEF PanelInv, IsSim, IsBoot, Owned, BootLowerFits
  <2> QED BY <2>3, <2>4
<1>6. ASSUME NEW b \in boots, BootFails(b) PROVE PanelInv'
  BY <1>6 DEF BootFails, PanelInv, IsSim, IsBoot, Owned, BootLowerFits
<1>7. ASSUME NEW p \in Polls, PollArrives(p) PROVE PanelInv'
  BY <1>7, MirrorKeeps DEF PollArrives
<1>8. CASE OnModel
  BY <1>8, MirrorKeeps DEF OnModel
<1>9. ASSUME UNCHANGED panel PROVE PanelInv'
  BY <1>9, UnchangedPanelKeeps
<1>10. ASSUME NEW t \in Tokens, NEW announce \in BOOLEAN, Update(t, announce) PROVE UNCHANGED panel
  BY <1>10 DEF Update
<1>11. ASSUME RunCycle \/ Open \/ Drop \/ PollAgain PROVE UNCHANGED panel
  BY <1>11 DEF RunCycle, Open, Drop, PollAgain
<1>12. ASSUME NEW hidden \in BOOLEAN, OnToken(hidden) PROVE UNCHANGED panel
  BY <1>12 DEF OnToken
<1>13. ASSUME NEW p \in Polls, AnswerPoll(p) \/ PollFails(p) PROVE UNCHANGED panel
  BY <1>13 DEF AnswerPoll, PollFails
<1>14. ASSUME NEW k \in Asks, AskStep(k) \/ AskFails(k) PROVE UNCHANGED panel
  BY <1>14 DEF AskStep, AnswerAsk, AskArrives, AskFails
<1>15. ASSUME UNCHANGED vars PROVE UNCHANGED panel
  BY <1>15 DEF vars, panel
<1> QED BY <1>1, <1>2, <1>3, <1>4, <1>5, <1>6, <1>7, <1>8, <1>9, <1>10, <1>11, <1>12, <1>13, <1>14, <1>15
        DEF Next, User, Deliver, PollStep

(* The floor the proof panel shows was bootstrapped for the sliders as     *)
(* they stand, whatever is moved, mirrored or left while an answer is on   *)
(* its way (useSimProof): for any models, settings and fetches in flight.  *)
THEOREM FloorsFit == Spec => []BootLowerFits
<1>1. Init => PanelInv
  BY DEF Init, PanelInv, IsSim, BootLowerFits
<1>2. PanelInv /\ [Next]_vars => PanelInv'
  BY PanelStep
<1>3. PanelInv => BootLowerFits
  BY DEF PanelInv
<1> QED BY <1>1, <1>2, <1>3, PTL DEF Spec

-----------------------------------------------------------------------------
(* Of a set of numbers that is not empty, one is the least.                *)
LEMMA LeastExists ==
  ASSUME NEW S \in SUBSET Nat, S # {}
  PROVE  \E i \in S : \A j \in S : i <= j
<1>1. PICK i \in S : \A j \in S : ~ (<<j, i>> \in OpToRel(<, Nat))
  BY NatLessThanWellFounded, WFMin
<1>2. ASSUME NEW j \in S, j < i PROVE FALSE
  <2>1. <<j, i>> \in OpToRel(<, Nat)
    BY <1>2 DEF OpToRel
  <2> QED BY <1>1, <2>1, Zenon
<1> QED BY <1>2

(* Induction up to n: a set of numbers that holds 0 and, with a number     *)
(* below n, the next one, holds them all.                                  *)
LEMMA UpTo ==
  ASSUME NEW n \in Nat, NEW S, 0 \in S, \A k \in 0 .. n - 1 : k \in S => k + 1 \in S
  PROVE  \A k \in 0 .. n : k \in S
<1> SUFFICES ASSUME NEW c \in 0 .. n, c \notin S PROVE FALSE OBVIOUS
<1> DEFINE Out == {k \in 0 .. n : k \notin S}
<1>1. Out \in SUBSET Nat /\ c \in Out OBVIOUS
<1>2. PICK i \in Out : \A j \in Out : i <= j BY <1>1, LeastExists
<1>3. i \in 0 .. n /\ i \notin S OBVIOUS
<1>4. i # 0 BY <1>3
<1>5. i - 1 \in 0 .. n - 1 /\ i - 1 \in 0 .. n /\ i - 1 + 1 = i /\ ~(i <= i - 1) BY <1>3, <1>4
<1>6. i - 1 \in S BY <1>2, <1>5
<1> QED BY <1>3, <1>5, <1>6

-----------------------------------------------------------------------------
(* A search that goes from range to range: it ends in Stop with what leaf  *)
(* says, and goes on with next otherwise, to something of a smaller size.  *)
(* There is such a function: what is small enough is searched already.     *)
Searched(f, r, Stop, leaf, next) == IF r \in Stop THEN leaf[r] ELSE f[next[r]]
IsSearch(f, D, Stop, leaf, next) == f = [r \in D |-> Searched(f, r, Stop, leaf, next)]

Sized(D, size, k) == {r \in D : size[r] <= k}

LEMMA SearchGrows ==
  ASSUME NEW D, NEW Stop, NEW leaf, NEW next, NEW n \in Nat, NEW size \in [D -> 0 .. n],
         \A r \in D \ Stop : next[r] \in D /\ size[next[r]] < size[r],
         NEW k \in Nat, NEW f, IsSearch(f, Sized(D, size, k), Stop, leaf, next)
  PROVE  \E g : IsSearch(g, Sized(D, size, k + 1), Stop, leaf, next)
<1> DEFINE E == Sized(D, size, k)
           F == Sized(D, size, k + 1)
           g == [r \in F |-> IF r \in E THEN f[r] ELSE Searched(f, r, Stop, leaf, next)]
<1>1. \A r \in E : f[r] = Searched(f, r, Stop, leaf, next)
  BY Zenon DEF IsSearch
<1>2. \A r \in E : r \in F /\ g[r] = f[r]
  BY DEF Sized
<1>3. ASSUME NEW r \in F PROVE g[r] = Searched(g, r, Stop, leaf, next)
  <2>1. g[r] = Searched(f, r, Stop, leaf, next)
    BY <1>1
  <2>2. CASE r \in Stop
    BY <2>1, <2>2 DEF Searched
  <2>3. CASE r \notin Stop
    <3>1. next[r] \in E
      BY <2>3 DEF Sized
    <3>2. g[next[r]] = f[next[r]]
      BY <1>2, <3>1
    <3> HIDE DEF g, E, F
    <3> QED BY <2>1, <3>2 DEF Searched
  <2> QED BY <2>2, <2>3
<1>4. g = [r \in F |-> g[r]]
  OBVIOUS
<1> HIDE DEF g, E, F
<1>5. IsSearch(g, F, Stop, leaf, next)
  BY <1>3, <1>4, Zenon DEF IsSearch
<1> QED BY <1>5 DEF F

LEMMA SearchExists ==
  ASSUME NEW D, NEW Stop, NEW leaf, NEW next, NEW n \in Nat, NEW size \in [D -> 0 .. n],
         \A r \in D \ Stop : next[r] \in D /\ size[next[r]] < size[r]
  PROVE  \E f : IsSearch(f, D, Stop, leaf, next)
<1> DEFINE S == {k \in 0 .. n : \E f : IsSearch(f, Sized(D, size, k), Stop, leaf, next)}
<1>1. 0 \in S
  <2> DEFINE Z == Sized(D, size, 0)
             f == [r \in Z |-> leaf[r]]
  <2>1. \A r \in Z : r \in Stop
    BY DEF Sized
  <2>2. \A r \in Z : leaf[r] = Searched(f, r, Stop, leaf, next)
    BY <2>1, Zenon DEF Searched
  <2>3. 0 \in 0 .. n
    OBVIOUS
  <2> HIDE DEF Z
  <2>4. IsSearch(f, Z, Stop, leaf, next)
    BY <2>2, Zenon DEF IsSearch
  <2> HIDE DEF f
  <2>5. \E g : IsSearch(g, Sized(D, size, 0), Stop, leaf, next)
    BY <2>4 DEF Z
  <2> QED BY <2>3, <2>5
<1>2. \A k \in 0 .. n - 1 : k \in S => k + 1 \in S
  <2> SUFFICES ASSUME NEW k \in 0 .. n - 1, k \in S PROVE k + 1 \in S OBVIOUS
  <2>1. PICK f : IsSearch(f, Sized(D, size, k), Stop, leaf, next) OBVIOUS
  <2>2. k \in Nat /\ k + 1 \in 0 .. n OBVIOUS
  <2>3. \E g : IsSearch(g, Sized(D, size, k + 1), Stop, leaf, next)
    <3> HIDE DEF S
    <3> QED BY <2>1, <2>2, SearchGrows
  <2> QED BY <2>2, <2>3
<1> HIDE DEF S
<1>3. n \in S /\ n \in 0 .. n
  BY <1>1, <1>2, UpTo
<1>4. Sized(D, size, n) = D
  BY DEF Sized
<1> QED BY <1>3, <1>4 DEF S

(* What every step of a search keeps holds where it ends.                  *)
LEMMA SearchEnds ==
  ASSUME NEW D, NEW Stop, NEW leaf, NEW next, NEW n \in Nat, NEW size \in [D -> 0 .. n],
         \A r \in D \ Stop : next[r] \in D /\ size[next[r]] < size[r],
         NEW f, IsSearch(f, D, Stop, leaf, next),
         NEW Kept \in SUBSET D, \A r \in Kept \ Stop : next[r] \in Kept
  PROVE  \A r \in Kept : \E s \in Kept \cap Stop : f[r] = leaf[s]
<1> DEFINE Good(r) == \E s \in Kept \cap Stop : f[r] = leaf[s]
           S == {k \in 0 .. n : \A r \in Kept : size[r] <= k => Good(r)}
<1>1. \A r \in D : f[r] = IF r \in Stop THEN leaf[r] ELSE f[next[r]]
  BY Zenon DEF IsSearch, Searched
<1>2. \A r \in Kept \cap Stop : Good(r)
  BY <1>1
<1>3. \A r \in Kept \ Stop : next[r] \in Kept /\ size[next[r]] < size[r] /\ size[next[r]] \in 0 .. n /\ (Good(next[r]) => Good(r))
  <2> SUFFICES ASSUME NEW r \in Kept \ Stop
               PROVE  next[r] \in Kept /\ size[next[r]] < size[r] /\ size[next[r]] \in 0 .. n /\ (Good(next[r]) => Good(r))
    OBVIOUS
  <2>1. f[r] = f[next[r]]
    BY <1>1
  <2> QED BY <2>1
<1> HIDE DEF Good
<1>4. 0 \in S
  <2>1. ASSUME NEW r \in Kept, size[r] <= 0 PROVE r \in Stop
    BY <2>1, <1>3
  <2> QED BY <1>2, <2>1
<1>5. ASSUME NEW k \in 0 .. n - 1, k \in S PROVE k + 1 \in S
  <2>1. ASSUME NEW r \in Kept, size[r] <= k + 1 PROVE Good(r)
    <3>1. CASE r \in Stop
      BY <1>2, <3>1
    <3>2. CASE r \notin Stop
      <4>1. next[r] \in Kept /\ size[next[r]] <= k
        BY <1>3, <2>1, <3>2
      <4> QED BY <1>3, <1>5, <3>2, <4>1
    <3> QED BY <3>1, <3>2
  <2> QED BY <2>1
<1> HIDE DEF S
<1>6. \A k \in 0 .. n - 1 : k \in S => k + 1 \in S
  BY <1>5
<1>7. n \in S
  BY <1>4, <1>6, UpTo
<1> QED BY <1>7 DEF S, Good

-----------------------------------------------------------------------------
(* The reads of the chain (ChainReads).  A search halves a range of blocks *)
(* until one is left, when the blocks of Before are before the second that *)
(* is asked.                                                               *)
Mid(r) == (r[1] + r[2]) \div 2
HalfAt(r, Before) == IF Mid(r) \in Before THEN <<Mid(r) + 1, r[2]>> ELSE <<r[1], Mid(r)>>
Narrowed(f, r, Before) == IF r[1] >= r[2] THEN r[1] ELSE f[HalfAt(r, Before)]
IsBlockSearch(f, S, Before) == f = [r \in S \X S |-> Narrowed(f, r, Before)]
Width(S) == [r \in S \X S |-> IF r[1] <= r[2] THEN r[2] - r[1] ELSE 0]
OneLeft(S) == {r \in S \X S : r[1] >= r[2]}
Lowers(S) == [r \in S \X S |-> r[1]]
Halving(S, Before) == [r \in S \X S |-> HalfAt(r, Before)]

LEMMA BlockHalves ==
  ASSUME NEW head \in Nat, NEW Before, NEW S, S = 1 .. head, NEW r \in S \X S, r[1] < r[2]
  PROVE  LET h == HalfAt(r, Before) IN
         /\ Mid(r) \in S /\ r[1] <= Mid(r) /\ Mid(r) < r[2]
         /\ h \in S \X S /\ h[1] <= h[2] /\ h[2] - h[1] < r[2] - r[1]
<1>1. r[1] \in 1 .. head /\ r[2] \in 1 .. head
  OBVIOUS
<1>2. Mid(r) \in Int /\ r[1] <= Mid(r) /\ Mid(r) < r[2]
  BY <1>1 DEF Mid
<1>3. Mid(r) \in 1 .. head /\ Mid(r) + 1 \in 1 .. head
  BY <1>1, <1>2
<1>4. CASE Mid(r) \in Before
  BY <1>1, <1>2, <1>3, <1>4 DEF HalfAt
<1>5. CASE Mid(r) \notin Before
  BY <1>1, <1>2, <1>3, <1>5 DEF HalfAt
<1> QED BY <1>4, <1>5

LEMMA BlockSearches ==
  ASSUME NEW head \in Nat, NEW Before, NEW S, S = 1 .. head
  PROVE  /\ Width(S) \in [S \X S -> 0 .. head]
         /\ \A r \in (S \X S) \ OneLeft(S) : /\ Halving(S, Before)[r] \in S \X S
                                            /\ Width(S)[Halving(S, Before)[r]] < Width(S)[r]
         /\ \A f : IsBlockSearch(f, S, Before) <=>
                   IsSearch(f, S \X S, OneLeft(S), Lowers(S), Halving(S, Before))
<1> DEFINE D == S \X S
           Stop == OneLeft(S)
           next == Halving(S, Before)
<1>1. \A r \in D : r[1] \in Nat /\ r[2] \in Nat /\ r[1] <= head /\ r[2] <= head
  OBVIOUS
<1>2. Width(S) \in [D -> 0 .. head]
  <2>1. \A r \in D : (IF r[1] <= r[2] THEN r[2] - r[1] ELSE 0) \in 0 .. head
    BY <1>1
  <2> HIDE DEF D
  <2> QED BY <2>1 DEF Width, D
<1>3. ASSUME NEW r \in D \ Stop PROVE next[r] \in D /\ Width(S)[next[r]] < Width(S)[r]
  <2>1. r \in D /\ r[1] < r[2] /\ next[r] = HalfAt(r, Before)
    BY <1>1 DEF OneLeft, Halving
  <2> DEFINE h == HalfAt(r, Before)
  <2>2. h \in D /\ h[1] <= h[2] /\ h[2] - h[1] < r[2] - r[1]
    BY <2>1, BlockHalves
  <2> HIDE DEF h, D
  <2>3. Width(S)[h] = h[2] - h[1] /\ Width(S)[r] = r[2] - r[1]
    BY <1>1, <2>1, <2>2 DEF Width, D
  <2> QED BY <2>1, <2>2, <2>3 DEF h
<1>4. ASSUME NEW f PROVE IsBlockSearch(f, S, Before) <=> IsSearch(f, D, Stop, Lowers(S), next)
  <2>1. ASSUME NEW r \in D PROVE Searched(f, r, Stop, Lowers(S), next) = Narrowed(f, r, Before)
    <3>1. /\ r \in Stop <=> r[1] >= r[2]
          /\ Lowers(S)[r] = r[1] /\ next[r] = HalfAt(r, Before)
      BY DEF OneLeft, Lowers, Halving
    <3> HIDE DEF D, Stop, next
    <3> QED BY <3>1 DEF Searched, Narrowed
  <2> HIDE DEF Stop, next
  <2> QED BY <2>1, Zenon DEF IsSearch, IsBlockSearch
<1> QED BY <1>2, <1>3, <1>4

LEMMA BlockSearchExists ==
  ASSUME NEW head \in Nat, NEW Before, NEW S, S = 1 .. head
  PROVE  \E f : IsBlockSearch(f, S, Before)
<1>1. \E f : IsSearch(f, S \X S, OneLeft(S), Lowers(S), Halving(S, Before))
  BY BlockSearches, SearchExists
<1> QED BY <1>1, BlockSearches

(* What it finds, when the blocks of Before are the first ones.            *)
LEMMA BlockSearchFinds ==
  ASSUME NEW head \in Nat, NEW Before, NEW S, S = 1 .. head,
         \A b \in Before : \A c \in 1 .. b : c \in Before,
         1 <= head, head \notin Before, NEW f, IsBlockSearch(f, S, Before)
  PROVE  LET b == f[<<1, head>>] IN b \in 1 .. head /\ b \notin Before /\ \A c \in 1 .. b - 1 : c \in Before
<1> DEFINE Sought == {r \in S \X S : r[1] <= r[2] /\ (\A b \in 1 .. r[1] - 1 : b \in Before) /\ r[2] \notin Before}
<1>1. ASSUME NEW r \in Sought \ OneLeft(S) PROVE Halving(S, Before)[r] \in Sought
  <2> DEFINE h == HalfAt(r, Before)
  <2>1. /\ r \in S \X S /\ r[1] < r[2] /\ Halving(S, Before)[r] = h
        /\ (\A b \in 1 .. r[1] - 1 : b \in Before) /\ r[2] \notin Before
    BY DEF OneLeft, Halving
  <2>2. Mid(r) \in S /\ h \in S \X S /\ h[1] <= h[2]
    BY <2>1, BlockHalves
  <2>3. h = IF Mid(r) \in Before THEN <<Mid(r) + 1, r[2]>> ELSE <<r[1], Mid(r)>>
    BY DEF HalfAt
  <2> HIDE DEF h
  <2>4. CASE Mid(r) \in Before
    <3>1. \A b \in 1 .. h[1] - 1 : b \in Before
      BY <2>2, <2>3, <2>4
    <3> QED BY <2>1, <2>2, <2>3, <2>4, <3>1
  <2>5. CASE Mid(r) \notin Before
    BY <2>1, <2>2, <2>3, <2>5
  <2> QED BY <2>4, <2>5
<1>2. <<1, head>> \in Sought /\ Sought \in SUBSET (S \X S)
  OBVIOUS
<1>3. PICK s \in Sought \cap OneLeft(S) : f[<<1, head>>] = Lowers(S)[s]
  <2> DEFINE D == S \X S
             Stop == OneLeft(S)
             leaf == Lowers(S)
             next == Halving(S, Before)
             size == Width(S)
  <2>1. IsSearch(f, D, Stop, leaf, next)
    BY BlockSearches
  <2>2. size \in [D -> 0 .. head] /\ (\A r \in D \ Stop : next[r] \in D /\ size[next[r]] < size[r])
    BY BlockSearches
  <2>3. Sought \in SUBSET D /\ \A r \in Sought \ Stop : next[r] \in Sought
    BY <1>1, <1>2
  <2> HIDE DEF Sought, D, Stop, leaf, next, size
  <2>4. \A r \in Sought : \E s \in Sought \cap Stop : f[r] = leaf[s]
    BY <2>1, <2>2, <2>3, SearchEnds
  <2> QED BY <1>2, <2>4 DEF Stop, leaf
<1>4. s[1] \in 1 .. head /\ s[1] = s[2] /\ s[2] \notin Before /\ (\A b \in 1 .. s[1] - 1 : b \in Before) /\ Lowers(S)[s] = s[1]
  BY DEF OneLeft, Lowers
<1> QED BY <1>3, <1>4

(* "The first block at or after `seconds`, by binary search over           *)
(* timestamps" (rpc.ts:100): for any chain whose times never turn back,    *)
(* whatever part of them is in the cache; the head, when all are before.   *)
THEOREM FirstBlockAtOrAfter ==
  ASSUME NEW time \in Seq(Int), time # <<>>, \A i, j \in DOMAIN time : i <= j => time[i] <= time[j],
         NEW cache, \A b \in DOMAIN cache : cache[b] = time[b], NEW seconds \in Int
  PROVE  LET found == Reads!BlockAt(cache, time, seconds) IN
         /\ found \in 1 .. Len(time) /\ \A b \in 1 .. found - 1 : time[b] < seconds
         /\ time[found] >= seconds \/ (found = Len(time) /\ time[Len(time)] < seconds)
<1> DEFINE head == Len(time)
           Before == {b \in 1 .. head : time[b] < seconds}
           Is(f) == f = [r \in (1 .. head) \X (1 .. head) |->
                           LET mid == (r[1] + r[2]) \div 2 IN
                           IF r[1] >= r[2] THEN r[1]
                           ELSE IF Reads!Timestamp(cache, time, mid) < seconds THEN f[<<mid + 1, r[2]>>]
                           ELSE f[<<r[1], mid>>]]
           search == CHOOSE f : Is(f)
           found == IF Reads!Timestamp(cache, time, head) < seconds THEN head ELSE search[<<1, head>>]
<1>1. head \in Nat \ {0} /\ DOMAIN time = 1 .. head /\ \A b \in 1 .. head : time[b] \in Int
  BY EmptySeq, LenProperties, ElementOfSeq
<1>2. \A b : Reads!Timestamp(cache, time, b) = time[b]
  BY DEF Reads!Timestamp
<1>3. Reads!BlockAt(cache, time, seconds) = found
  BY Zenon DEF Reads!BlockAt
<1> DEFINE S == 1 .. head
<1>5. ASSUME NEW f PROVE Is(f) <=> IsBlockSearch(f, S, Before)
  <2>1. ASSUME NEW r \in (1 .. head) \X (1 .. head)
        PROVE  Narrowed(f, r, Before) =
                 IF r[1] >= r[2] THEN r[1]
                 ELSE IF Reads!Timestamp(cache, time, Mid(r)) < seconds THEN f[<<Mid(r) + 1, r[2]>>]
                 ELSE f[<<r[1], Mid(r)>>]
    <3>1. CASE r[1] >= r[2]
      BY <3>1 DEF Narrowed
    <3>2. CASE ~(r[1] >= r[2])
      <4>1. r \in S \X S /\ r[1] < r[2] /\ head \in Nat
        BY <1>1, <3>2
      <4>2. Mid(r) \in 1 .. head
        <5> HIDE DEF head, Before
        <5> QED BY <4>1, BlockHalves
      <4>3. Mid(r) \in Before <=> Reads!Timestamp(cache, time, Mid(r)) < seconds
        BY <1>2, <4>2
      <4> HIDE DEF Before
      <4> QED BY <3>2, <4>3 DEF Narrowed, HalfAt
    <3> QED BY <3>1, <3>2
  <2> HIDE DEF head, Before
  <2> QED BY <2>1, Zenon DEF IsBlockSearch, Mid
<1> HIDE DEF Is
<1>6. IsBlockSearch(search, S, Before)
  <2>1. \E f : Is(f)
    <3>1. head \in Nat
      BY <1>1
    <3> HIDE DEF head, Before
    <3> QED BY <1>5, <3>1, BlockSearchExists
  <2>2. Is(search)
    BY <2>1, Zenon
  <2> QED BY <1>5, <2>2
<1> HIDE DEF search
<1>7. CASE time[head] < seconds
  <2>1. found = head
    BY <1>2, <1>7
  <2> HIDE DEF found, Before
  <2>2. head \in 1 .. head
    BY <1>1
  <2>3. \A b \in 1 .. head - 1 : time[b] < seconds
    BY <1>1, <1>7
  <2> HIDE DEF head
  <2>4. found \in 1 .. head /\ (\A b \in 1 .. found - 1 : time[b] < seconds) /\ time[head] < seconds
    BY <1>7, <2>1, <2>2, <2>3
  <2> QED BY <1>3, <2>1, <2>4 DEF head
<1>8. CASE ~(time[head] < seconds)
  <2>1. found = search[<<1, head>>] /\ head \notin Before
    BY <1>2, <1>8
  <2>2. \A b \in Before : \A c \in 1 .. b : c \in Before
    BY <1>1, SMTT(30)
  <2>3. found \in 1 .. head /\ found \notin Before /\ \A c \in 1 .. found - 1 : c \in Before
    <3>1. head \in Nat /\ 1 <= head
      BY <1>1
    <3> HIDE DEF Before, found, head
    <3>2. LET b == search[<<1, head>>] IN b \in 1 .. head /\ b \notin Before /\ \A c \in 1 .. b - 1 : c \in Before
      BY <1>6, <2>1, <2>2, <3>1, BlockSearchFinds
    <3> QED BY <2>1, <3>2
  <2>4. ~(time[found] < seconds) /\ \A c \in 1 .. found - 1 : time[c] < seconds
    <3> HIDE DEF found, head
    <3> QED BY <2>3
  <2>5. time[found] \in Int
    <3> HIDE DEF found, head
    <3> QED BY <1>1, <2>3
  <2> HIDE DEF found, Before
  <2> QED BY <1>3, <2>3, <2>4, <2>5
<1> QED BY <1>7, <1>8

-----------------------------------------------------------------------------
(* The logs of the blocks from one on, up to each.                         *)
IsLogs(f, log, from, m) ==
  f = [b \in 0 .. m |-> IF b < from THEN <<>> ELSE f[b - 1] \o log[b]]

LEMMA LogsGrow ==
  ASSUME NEW log, NEW from \in Nat \ {0}, NEW m \in Nat, NEW f, IsLogs(f, log, from, m)
  PROVE  \E g : IsLogs(g, log, from, m + 1)
<1> DEFINE Value(h, b) == IF b < from THEN <<>> ELSE h[b - 1] \o log[b]
           g == [b \in 0 .. m + 1 |-> IF b = m + 1 THEN Value(f, m + 1) ELSE f[b]]
<1>1. \A b \in 0 .. m : f[b] = Value(f, b)
  BY Zenon DEF IsLogs
<1>2. (\A b \in 0 .. m : g[b] = f[b]) /\ g[m + 1] = Value(f, m + 1)
  <2> HIDE DEF Value
  <2>1. m + 1 \in 0 .. m + 1 /\ \A b \in 0 .. m : b \in 0 .. m + 1 /\ b # m + 1
    OBVIOUS
  <2> QED BY <2>1, Zenon
<1>3. g = [b \in 0 .. m + 1 |-> g[b]]
  OBVIOUS
<1> HIDE DEF g
<1>4. ASSUME NEW b \in 0 .. m + 1
      PROVE  g[b] = Value(g, b)
  <2>1. CASE b = m + 1
    <3>1. b - 1 = m /\ m \in 0 .. m
      BY <2>1
    <3> QED BY <1>2, <2>1, <3>1
  <2>2. CASE b # m + 1 /\ b < from
    BY <1>1, <1>2, <2>2
  <2>3. CASE b # m + 1 /\ ~(b < from)
    <3>1. b \in 0 .. m /\ b - 1 \in 0 .. m
      BY <2>3
    <3> QED BY <1>1, <1>2, <3>1
  <2> QED BY <2>1, <2>2, <2>3
<1>5. g = [b \in 0 .. m + 1 |-> Value(g, b)]
  BY <1>3, <1>4, Zenon
<1> QED BY <1>5, Zenon DEF IsLogs

LEMMA LogsExist ==
  ASSUME NEW log, NEW from \in Nat \ {0}, NEW m \in Nat
  PROVE  \E f : IsLogs(f, log, from, m)
<1> DEFINE S == {k \in 0 .. m : \E f : IsLogs(f, log, from, k)}
<1>1. 0 \in S
  <2>1. \A b \in 0 .. 0 : b < from
    OBVIOUS
  <2>2. IsLogs([b \in 0 .. 0 |-> <<>>], log, from, 0)
    BY <2>1, Zenon DEF IsLogs
  <2>3. 0 \in 0 .. m
    OBVIOUS
  <2> QED BY <2>2, <2>3
<1>2. \A k \in 0 .. m - 1 : k \in S => k + 1 \in S
  BY LogsGrow
<1> HIDE DEF S
<1>3. m \in S
  BY <1>1, <1>2, UpTo
<1> QED BY <1>3 DEF S

(* What they are: sequences of logs, each one block's longer.              *)
AreLogs(f, S, log, from) ==
  /\ \A b : Reads!LogsOf(log, from, b) = f[b]
  /\ \A b \in 0 .. Len(log) : f[b] \in Seq(S)
  /\ \A b \in 0 .. Len(log) : f[b] = IF b < from THEN <<>> ELSE f[b - 1] \o log[b]

LEMMA LogsValues ==
  ASSUME NEW S, NEW log \in Seq(Seq(S)), NEW from \in Nat \ {0}
  PROVE  \E f : AreLogs(f, S, log, from)
<1> DEFINE f == CHOOSE g : IsLogs(g, log, from, Len(log))
<1>1. Len(log) \in Nat /\ \A b \in 1 .. Len(log) : log[b] \in Seq(S)
  BY LenProperties, ElementOfSeq
<1>2. IsLogs(f, log, from, Len(log))
  BY <1>1, LogsExist, Zenon
<1>3. \A b : Reads!LogsOf(log, from, b) = f[b]
  BY Zenon DEF Reads!LogsOf, IsLogs
<1> HIDE DEF f
<1>4. \A b \in 0 .. Len(log) : f[b] = IF b < from THEN <<>> ELSE f[b - 1] \o log[b]
  BY <1>2, Zenon DEF IsLogs
<1> DEFINE T == {b \in 0 .. Len(log) : f[b] \in Seq(S)}
<1>5. 0 \in T
  <2>1. <<>> \in Seq(S)
    BY EmptySeq
  <2>2. 0 \in 0 .. Len(log) /\ 0 < from
    BY <1>1
  <2>3. f[0] = <<>>
    BY <1>4, <2>2, Zenon
  <2> QED BY <2>1, <2>2, <2>3
<1>6. ASSUME NEW k \in 0 .. Len(log) - 1, k \in T PROVE k + 1 \in T
  <2>1. k + 1 \in 1 .. Len(log) /\ k + 1 \in 0 .. Len(log) /\ (k + 1) - 1 = k
    BY <1>1
  <2>2. f[k] \in Seq(S) /\ log[k + 1] \in Seq(S)
    BY <1>1, <1>6, <2>1
  <2>3. f[k] \o log[k + 1] \in Seq(S) /\ <<>> \in Seq(S)
    BY <2>2, ConcatProperties, EmptySeq
  <2>4. f[k + 1] = <<>> \/ f[k + 1] = f[k] \o log[k + 1]
    BY <1>4, <2>1, Zenon
  <2>5. f[k + 1] \in Seq(S)
    BY <2>3, <2>4, Zenon
  <2> QED BY <2>1, <2>5
<1>7. \A k \in 0 .. Len(log) - 1 : k \in T => k + 1 \in T
  BY <1>6, Zenon
<1>8. \A b \in 0 .. Len(log) : b \in T
  <2> HIDE DEF T
  <2> QED BY <1>1, <1>5, <1>7, UpTo
<1>9. AreLogs(f, S, log, from)
  BY <1>3, <1>4, <1>8, Zenon DEF AreLogs
<1> QED BY <1>9

(* The logs of a range are those of its halves, one after the other.       *)
LEMMA LogsJoin ==
  ASSUME NEW S, NEW log \in Seq(Seq(S)), NEW from \in Nat \ {0}, NEW mid \in from .. Len(log), NEW to \in mid .. Len(log)
  PROVE  Reads!LogsOf(log, from, to) = Reads!LogsOf(log, from, mid) \o Reads!LogsOf(log, mid + 1, to)
<1>1. Len(log) \in Nat /\ mid + 1 \in Nat \ {0} /\ mid \in 0 .. Len(log) /\ \A b \in 1 .. Len(log) : log[b] \in Seq(S)
  BY LenProperties, ElementOfSeq
<1>2. PICK f : AreLogs(f, S, log, from)
  BY LogsValues
<1>3. PICK g : AreLogs(g, S, log, mid + 1)
  BY <1>1, LogsValues
<1> DEFINE T == {k \in 0 .. to - mid : f[mid + k] = f[mid] \o g[mid + k]}
<1>4. 0 \in T
  <2>1. mid + 0 = mid /\ 0 \in 0 .. to - mid /\ mid < mid + 1
    BY <1>1
  <2>2. g[mid] = <<>>
    BY <1>1, <1>3, <2>1, Zenon DEF AreLogs
  <2>3. f[mid] \in Seq(S)
    BY <1>1, <1>2, Zenon DEF AreLogs
  <2>4. f[mid] \o <<>> = f[mid]
    BY <2>3, ConcatEmptySeq
  <2> QED BY <2>1, <2>2, <2>4
<1>5. ASSUME NEW k \in 0 .. (to - mid) - 1, k \in T PROVE k + 1 \in T
  <2> DEFINE b == mid + k
  <2>1. /\ mid + (k + 1) = b + 1 /\ (b + 1) - 1 = b /\ b \in 0 .. Len(log) /\ b + 1 \in 1 .. Len(log)
        /\ b + 1 \in 0 .. Len(log) /\ ~(b + 1 < from) /\ ~(b + 1 < mid + 1) /\ k + 1 \in 0 .. to - mid
    BY <1>1
  <2>2. f[b] = f[mid] \o g[b]
    BY <1>5
  <2> HIDE DEF b
  <2>3. f[b + 1] = f[b] \o log[b + 1] /\ g[b + 1] = g[b] \o log[b + 1]
    BY <1>2, <1>3, <2>1, Zenon DEF AreLogs
  <2>4. f[mid] \in Seq(S) /\ g[b] \in Seq(S) /\ log[b + 1] \in Seq(S)
    BY <1>1, <1>2, <1>3, <2>1, Zenon DEF AreLogs
  <2>5. (f[mid] \o g[b]) \o log[b + 1] = f[mid] \o (g[b] \o log[b + 1])
    <3> DEFINE s == f[mid]
               t == g[b]
               u == log[b + 1]
    <3>1. s \in Seq(S) /\ t \in Seq(S) /\ u \in Seq(S)
      BY <2>4
    <3> HIDE DEF s, t, u
    <3>2. (s \o t) \o u = s \o (t \o u)
      BY <3>1, ConcatAssociative, SMTT(30)
    <3> QED BY <3>2 DEF s, t, u
  <2>6. f[b + 1] = f[mid] \o g[b + 1]
    BY <2>2, <2>3, <2>5, Zenon
  <2> QED BY <2>1, <2>6, Zenon
<1>6. \A k \in 0 .. (to - mid) - 1 : k \in T => k + 1 \in T
  BY <1>5, Zenon
<1>7. to - mid \in Nat /\ to - mid \in 0 .. to - mid /\ mid + (to - mid) = to
  BY <1>1
<1>8. to - mid \in T
  <2> HIDE DEF T
  <2> QED BY <1>4, <1>6, <1>7, UpTo
<1>9. f[to] = f[mid] \o g[to]
  BY <1>7, <1>8
<1> QED BY <1>2, <1>3, <1>9, Zenon DEF AreLogs

(* A range whose answer is not its logs is refused for good, or halved.    *)
Ranges(n, k) == {r \in (1 .. n) \X (1 .. n) : r[1] <= r[2] /\ r[2] - r[1] <= k}
Refused(reply, r) == reply[r] # "logs" /\ (reply[r] = "fails" \/ r[2] - r[1] < MinSpan)
Answered(g, log, reply, r) ==
  IF reply[r] = "logs" THEN Reads!Got(Reads!LogsOf(log, r[1], r[2]))
  ELSE IF reply[r] = "fails" \/ r[2] - r[1] < MinSpan THEN Reads!Failed
  ELSE Reads!Both(g[<<r[1], Mid(r)>>], g[<<Mid(r) + 1, r[2]>>])
IsGet(g, n, k, log, reply) == g = [r \in Ranges(n, k) |-> Answered(g, log, reply, r)]

LEMMA HalfRanges ==
  ASSUME MinSpan \in Nat \ {0}, NEW n \in Nat, NEW k \in Nat, NEW r \in Ranges(n, k), ~(r[2] - r[1] < MinSpan)
  PROVE  /\ r[1] \in 1 .. n /\ r[2] \in 1 .. n
         /\ Mid(r) \in r[1] .. r[2] - 1 /\ k > 0
         /\ <<r[1], Mid(r)>> \in Ranges(n, k - 1) /\ <<Mid(r) + 1, r[2]>> \in Ranges(n, k - 1)
<1>1. r[1] \in 1 .. n /\ r[2] \in 1 .. n /\ r[1] < r[2] /\ r[2] - r[1] <= k
  BY DEF Ranges
<1>2. Mid(r) \in Int /\ r[1] <= Mid(r) /\ Mid(r) < r[2]
  BY <1>1 DEF Mid
<1>3. /\ Mid(r) \in 1 .. n /\ Mid(r) + 1 \in 1 .. n /\ k > 0 /\ Mid(r) \in r[1] .. r[2] - 1
      /\ r[2] - (Mid(r) + 1) <= k - 1 /\ Mid(r) - r[1] <= k - 1 /\ Mid(r) + 1 <= r[2]
  BY <1>1, <1>2
<1> QED BY <1>1, <1>2, <1>3 DEF Ranges

LEMMA GetGrows ==
  ASSUME MinSpan \in Nat \ {0}, NEW n \in Nat, NEW k \in Nat, NEW log, NEW reply, NEW f, IsGet(f, n, k, log, reply)
  PROVE  \E g : IsGet(g, n, k + 1, log, reply)
<1> DEFINE g == [r \in Ranges(n, k + 1) |-> IF r \in Ranges(n, k) THEN f[r] ELSE Answered(f, log, reply, r)]
<1>1. \A r \in Ranges(n, k) : f[r] = Answered(f, log, reply, r) /\ r \in Ranges(n, k + 1)
  <2>1. \A r \in Ranges(n, k) : f[r] = Answered(f, log, reply, r)
    BY Zenon DEF IsGet
  <2>2. \A r \in Ranges(n, k) : r \in Ranges(n, k + 1)
    BY DEF Ranges
  <2> QED BY <2>1, <2>2
<1>2. ASSUME NEW r \in Ranges(n, k + 1)
      PROVE  g[r] = Answered(g, log, reply, r)
  <2>1. g[r] = Answered(f, log, reply, r)
    BY <1>1, Zenon
  <2>2. CASE reply[r] = "logs" \/ reply[r] = "fails" \/ r[2] - r[1] < MinSpan
    <3> HIDE DEF g
    <3> QED BY <2>1, <2>2, Zenon DEF Answered
  <2>3. CASE ~(reply[r] = "logs" \/ reply[r] = "fails" \/ r[2] - r[1] < MinSpan)
    <3>1. <<r[1], Mid(r)>> \in Ranges(n, k) /\ <<Mid(r) + 1, r[2]>> \in Ranges(n, k)
      BY <2>3, HalfRanges, k + 1 \in Nat, (k + 1) - 1 = k
    <3>2. g[<<r[1], Mid(r)>>] = f[<<r[1], Mid(r)>>] /\ g[<<Mid(r) + 1, r[2]>>] = f[<<Mid(r) + 1, r[2]>>]
      BY <1>1, <3>1
    <3> HIDE DEF g
    <3> QED BY <2>1, <3>2, Zenon DEF Answered
  <2> QED BY <2>2, <2>3
<1>3. g = [r \in Ranges(n, k + 1) |-> g[r]]
  OBVIOUS
<1> HIDE DEF g
<1>4. IsGet(g, n, k + 1, log, reply)
  BY <1>2, <1>3, Zenon DEF IsGet
<1> QED BY <1>4

LEMMA GetExists ==
  ASSUME MinSpan \in Nat \ {0}, NEW n \in Nat, NEW log, NEW reply
  PROVE  \E g : IsGet(g, n, n, log, reply)
<1> DEFINE S == {k \in 0 .. n : \E g : IsGet(g, n, k, log, reply)}
<1>1. 0 \in S
  <2> DEFINE f == [r \in Ranges(n, 0) |-> IF reply[r] = "logs" THEN Reads!Got(Reads!LogsOf(log, r[1], r[2]))
                                          ELSE Reads!Failed]
  <2>1. \A r \in Ranges(n, 0) : r[2] - r[1] < MinSpan
    BY DEF Ranges
  <2>2. \A r \in Ranges(n, 0) : f[r] = Answered(f, log, reply, r)
    BY <2>1, Zenon DEF Answered
  <2>3. f = [r \in Ranges(n, 0) |-> f[r]]
    OBVIOUS
  <2> HIDE DEF f
  <2>4. IsGet(f, n, 0, log, reply)
    BY <2>2, <2>3, Zenon DEF IsGet
  <2>5. 0 \in 0 .. n
    OBVIOUS
  <2> QED BY <2>4, <2>5
<1>2. \A k \in 0 .. n - 1 : k \in S => k + 1 \in S
  BY GetGrows
<1> HIDE DEF S
<1>3. n \in S
  BY <1>1, <1>2, UpTo
<1> QED BY <1>3 DEF S

(* What a range is answered: all of its logs, or nothing when a range      *)
(* inside it is refused for good.                                          *)
Whole(log, r) == Reads!Got(Reads!LogsOf(log, r[1], r[2]))
Inside(r) == {q \in (r[1] .. r[2]) \X (r[1] .. r[2]) : q[1] <= q[2]}
Right(g, log, reply, r) ==
  g[r] = Whole(log, r) \/ (g[r] = Reads!Failed /\ \E q \in Inside(r) : Refused(reply, q))

LEMMA BothHalves ==
  ASSUME NEW S, NEW log \in Seq(Seq(S)), NEW r, r[1] \in Nat \ {0}, NEW mid \in r[1] .. r[2], r[2] \in mid .. Len(log)
  PROVE  Reads!Both(Whole(log, <<r[1], mid>>), Whole(log, <<mid + 1, r[2]>>)) = Whole(log, r)
<1> DEFINE left == Reads!LogsOf(log, r[1], mid)
           right == Reads!LogsOf(log, mid + 1, r[2])
<1>1. Len(log) \in Nat /\ mid \in r[1] .. Len(log)
  BY LenProperties
<1>2. Reads!LogsOf(log, r[1], r[2]) = left \o right
  BY <1>1, LogsJoin
<1>3. Whole(log, <<r[1], mid>>) = Reads!Got(left) /\ Whole(log, <<mid + 1, r[2]>>) = Reads!Got(right)
  BY DEF Whole
<1>4. Whole(log, r) = Reads!Got(left \o right)
  BY <1>2 DEF Whole
<1> HIDE DEF left, right
<1>5. /\ Reads!Got(left).ok /\ Reads!Got(left).value = left
      /\ Reads!Got(right).ok /\ Reads!Got(right).value = right
  BY DEF Reads!Got
<1>6. Reads!Both(Reads!Got(left), Reads!Got(right)) = Reads!Got(left \o right)
  BY <1>5, Zenon DEF Reads!Both
<1> QED BY <1>3, <1>4, <1>6

(* getLogs over any range of blocks, whatever the node refuses: the answer *)
(* is every log of the range, in the order of the blocks, or a failure,    *)
(* and then some range inside it failed or was refused when too short to   *)
(* be split (rpc.ts:124).  Halving loses no block and repeats none.        *)
THEOREM LogsInHalves ==
  ASSUME MinSpan \in Nat \ {0}, NEW S, NEW log \in Seq(Seq(S)), NEW reply,
         DOMAIN reply = {r \in (1 .. Len(log)) \X (1 .. Len(log)) : r[1] <= r[2]}
  PROVE  \A r \in DOMAIN reply : Right(Reads!GetLogs(log, reply), log, reply, r)
<1> DEFINE n == Len(log)
           given == Reads!GetLogs(log, reply)
<1>1. n \in Nat
  BY LenProperties
<1>2. DOMAIN reply = Ranges(n, n)
  <2>1. \A r \in (1 .. n) \X (1 .. n) : r[2] - r[1] <= n
    BY <1>1
  <2> QED BY <2>1 DEF Ranges
<1> HIDE DEF n
<1>3. IsGet(given, n, n, log, reply)
  <2>1. given = CHOOSE g : IsGet(g, n, n, log, reply)
    BY <1>2, Zenon DEF Reads!GetLogs, IsGet, Answered, Mid
  <2> HIDE DEF given
  <2> QED BY <1>1, <2>1, GetExists, Zenon
<1> HIDE DEF given
<1>4. \A r \in Ranges(n, n) : given[r] = Answered(given, log, reply, r)
  BY <1>3, Zenon DEF IsGet
<1>5. \A k \in 0 .. n : \A r \in Ranges(n, k) : r \in Ranges(n, n)
  BY <1>1 DEF Ranges
<1>6. \A r \in Ranges(n, n) : r \in Inside(r)
  BY <1>1 DEF Ranges, Inside
<1> DEFINE T == {k \in 0 .. n : \A r \in Ranges(n, k) : Right(given, log, reply, r)}
<1>7. ASSUME NEW r \in Ranges(n, n), reply[r] = "logs" \/ Refused(reply, r)
      PROVE  Right(given, log, reply, r)
  <2>1. CASE reply[r] = "logs"
    BY <1>4, <2>1, Zenon DEF Right, Whole, Answered
  <2>2. CASE Refused(reply, r)
    BY <1>4, <1>6, <2>2, Zenon DEF Right, Refused, Answered
  <2> QED BY <1>7, <2>1, <2>2
<1>8. 0 \in T
  <2>1. ASSUME NEW r \in Ranges(n, 0) PROVE Right(given, log, reply, r)
    <3>1. r \in Ranges(n, n) /\ r[2] - r[1] < MinSpan
      BY <1>1, <1>5 DEF Ranges
    <3> QED BY <1>7, <3>1 DEF Refused
  <2> QED BY <1>1, <2>1
<1>9. ASSUME NEW k \in 0 .. n - 1, k \in T PROVE k + 1 \in T
  <2>1. k + 1 \in 0 .. n /\ k + 1 \in Nat /\ (k + 1) - 1 = k /\ k \in 0 .. n
    BY <1>1
  <2>2. ASSUME NEW r \in Ranges(n, k + 1) PROVE Right(given, log, reply, r)
    <3>1. r \in Ranges(n, n)
      BY <1>5, <2>1
    <3>2. CASE reply[r] = "logs" \/ Refused(reply, r)
      BY <1>7, <3>1, <3>2
    <3>3. CASE ~(reply[r] = "logs" \/ Refused(reply, r))
      <4> DEFINE left == <<r[1], Mid(r)>>
                 right == <<Mid(r) + 1, r[2]>>
      <4>0. ~(r[2] - r[1] < MinSpan) /\ reply[r] # "logs" /\ reply[r] # "fails"
        BY <3>3 DEF Refused
      <4>1. /\ r[1] \in 1 .. n /\ r[2] \in 1 .. n /\ Mid(r) \in r[1] .. r[2] - 1
            /\ left \in Ranges(n, k) /\ right \in Ranges(n, k)
        BY <1>1, <2>1, <4>0, HalfRanges
      <4>2. given[r] = Reads!Both(given[left], given[right])
        BY <1>4, <3>1, <4>0, Zenon DEF Answered
      <4>3. Right(given, log, reply, left) /\ Right(given, log, reply, right)
        BY <1>9, <4>1
      <4>4. Inside(left) \subseteq Inside(r) /\ Inside(right) \subseteq Inside(r)
        <5> DEFINE lo == r[1]  hi == r[2]  mid == Mid(r)
        <5>1. lo \in Int /\ hi \in Int /\ mid \in lo .. hi - 1
          BY <4>1
        <5>2. left[1] = lo /\ left[2] = mid /\ right[1] = mid + 1 /\ right[2] = hi
          OBVIOUS
        <5> HIDE DEF lo, hi, mid, left, right
        <5>3. lo .. mid \subseteq lo .. hi /\ mid + 1 .. hi \subseteq lo .. hi
          BY <5>1
        <5>4. Inside(left) = {q \in (lo .. mid) \X (lo .. mid) : q[1] <= q[2]}
          BY <5>2, Zenon DEF Inside
        <5>5. Inside(right) = {q \in (mid + 1 .. hi) \X (mid + 1 .. hi) : q[1] <= q[2]}
          BY <5>2, Zenon DEF Inside
        <5>6. Inside(r) = {q \in (lo .. hi) \X (lo .. hi) : q[1] <= q[2]}
          BY DEF Inside, lo, hi
        <5> QED BY <5>3, <5>4, <5>5, <5>6, Zenon
      <4>5. Reads!Both(Whole(log, left), Whole(log, right)) = Whole(log, r)
        <5>1. r[1] \in Nat \ {0} /\ Mid(r) \in r[1] .. r[2] /\ r[2] \in Mid(r) .. Len(log)
          <6> DEFINE lo == r[1]  hi == r[2]  mid == Mid(r)
          <6>1. lo \in 1 .. n /\ hi \in 1 .. n /\ mid \in lo .. hi - 1 /\ n \in Nat
            BY <1>1, <4>1
          <6> HIDE DEF left, right, lo, hi, mid, n
          <6>2. lo \in Nat \ {0} /\ mid \in lo .. hi /\ hi \in mid .. n
            BY <6>1
          <6> QED BY <6>2 DEF lo, hi, mid, n
        <5> QED BY <5>1, BothHalves
      <4> HIDE DEF left, right
      <4>6. CASE given[left] = Whole(log, left) /\ given[right] = Whole(log, right)
        BY <4>2, <4>5, <4>6, Zenon DEF Right
      <4>7. CASE given[left] = Reads!Failed \/ given[right] = Reads!Failed
        <5>1. ~Reads!Failed.ok
          BY DEF Reads!Failed
        <5>2. given[r] = Reads!Failed
          BY <4>2, <4>7, <5>1, Zenon DEF Reads!Both
        <5>3. \A v : Reads!Got(v).ok
          BY DEF Reads!Got
        <5>4. \E q \in Inside(r) : Refused(reply, q)
          BY <4>3, <4>4, <4>7, <5>1, <5>3, Zenon DEF Right, Whole
        <5> QED BY <5>2, <5>4, Zenon DEF Right
      <4> QED BY <4>3, <4>6, <4>7, Zenon DEF Right
    <3> QED BY <3>2, <3>3
  <2> QED BY <2>1, <2>2
<1>10. \A k \in 0 .. n - 1 : k \in T => k + 1 \in T
  BY <1>9, Zenon
<1>11. n \in T
  <2> HIDE DEF T
  <2>1. n \in 0 .. n
    BY <1>1
  <2> QED BY <1>1, <1>8, <1>10, <2>1, UpTo
<1>12. \A r \in Ranges(n, n) : Right(given, log, reply, r)
  BY <1>11
<1> HIDE DEF T
<1> QED BY <1>2, <1>12, Zenon DEF given

-----------------------------------------------------------------------------
(* The hours of a series that are as far from an hour as one may be, and   *)
(* the one of them that prices it: none known is nearer, and of two as     *)
(* near it is the earlier.                                                 *)
Distance(h, hour) == IF h < hour THEN hour - h ELSE h - hour
Around(series, hour, within) == {h \in DOMAIN series : h \in hour - within .. hour + within}
Prices(series, hour, within, h) ==
  /\ h \in Around(series, hour, within)
  /\ \A k \in Around(series, hour, within) :
       Distance(k, hour) > Distance(h, hour) \/ (Distance(k, hour) = Distance(h, hour) /\ h <= k)

LEMMA NearestPrices ==
  ASSUME NEW series, NEW hour \in Int, NEW within \in Nat
  PROVE  LET price == Reads!Nearest(series, hour, within) IN
         /\ price.ok => \E h : Prices(series, hour, within, h) /\ price = Reads!Got(series[h])
         /\ ~price.ok => Around(series, hour, within) = {}
<1> DEFINE at(d) == {h \in {hour - d, hour + d} : h \in DOMAIN series}
           close == {d \in 0 .. within : at(d) # {}}
           m == Reads!Least(close)
           h == Reads!Least(at(m))
           price == Reads!Nearest(series, hour, within)
<1>1. price = IF close = {} THEN Reads!Failed ELSE Reads!Got(series[h])
  BY Zenon DEF Reads!Nearest
<1>2. \A k \in Around(series, hour, within) : Distance(k, hour) \in close /\ k \in at(Distance(k, hour))
  BY DEF Around, Distance
<1>3. ~Reads!Failed.ok /\ \A v : Reads!Got(v).ok
  BY DEF Reads!Failed, Reads!Got
<1>4. CASE close = {}
  BY <1>1, <1>2, <1>3, <1>4
<1>5. CASE close # {}
  <2>1. m \in close /\ \A d \in close : m <= d
    <3>1. \E d \in close : \A e \in close : d <= e
      <4>1. close \in SUBSET Nat
        OBVIOUS
      <4> HIDE DEF close
      <4> QED BY <1>5, <4>1, LeastExists
    <3> HIDE DEF close
    <3> QED BY <3>1, Zenon DEF Reads!Least
  <2>2. m \in 0 .. within /\ at(m) # {}
    BY <2>1
  <2> HIDE DEF m
  <2>3. h \in at(m) /\ \A k \in at(m) : h <= k
    <3>1. \E k \in at(m) : \A l \in at(m) : k <= l
      <4>1. hour - m <= hour + m /\ hour - m \in Int /\ hour + m \in Int
        BY <2>2
      <4>2. CASE hour - m \in DOMAIN series
        BY <4>1, <4>2
      <4>3. CASE hour - m \notin DOMAIN series
        BY <2>2, <4>1, <4>3
      <4> QED BY <4>2, <4>3
    <3> HIDE DEF at
    <3> QED BY <3>1, Zenon DEF Reads!Least
  <2>4. Prices(series, hour, within, h)
    <3>1. h \in Around(series, hour, within) /\ Distance(h, hour) = m
      <4> HIDE DEF h
      <4> QED BY <2>2, <2>3 DEF Around, Distance
    <3>2. ASSUME NEW k \in Around(series, hour, within)
          PROVE  Distance(k, hour) > m \/ (Distance(k, hour) = m /\ h <= k)
      <4>1. Distance(k, hour) \in close /\ k \in at(Distance(k, hour)) /\ m <= Distance(k, hour) /\ Distance(k, hour) \in Int
        BY <1>2, <2>1
      <4> HIDE DEF h, at, close
      <4>2. CASE Distance(k, hour) = m
        BY <2>3, <4>1, <4>2
      <4>3. CASE Distance(k, hour) # m
        BY <2>2, <4>1, <4>3
      <4> QED BY <4>2, <4>3
    <3> HIDE DEF h
    <3> QED BY <3>1, <3>2 DEF Prices
  <2>5. price = Reads!Got(series[h])
    BY <1>1, <1>5 DEF m
  <2> HIDE DEF h, price
  <2> QED BY <1>3, <2>4, <2>5 DEF price
<1> QED BY <1>4, <1>5

(* "Beyond this there is no honest price for that hour" (prices.ts:6): a   *)
(* price that is answered is a candle of the quote, within Far hours of    *)
(* the hour, and no candle known then is nearer, whatever was cached, what *)
(* the pools gave now, and whether the caller let it be fetched.           *)
THEOREM PricesAreNear ==
  ASSUME Near \in Nat, Far \in Nat, Near <= Far,
         NEW q, NEW hour \in Int, NEW cachedOnly, NEW now, NEW pools,
         LET u == Reads!UsdAt(q, hour, cachedOnly, now, pools) IN u.answer.ok /\ u.answer # Reads!NoPrice
  PROVE  LET u == Reads!UsdAt(q, hour, cachedOnly, now, pools) IN
         \E h : Prices(u.quote.closes, hour, Far, h) /\ u.answer.value = u.quote.closes[h]
<1> DEFINE u == Reads!UsdAt(q, hour, cachedOnly, now, pools)
           near(s) == Reads!Nearest(s, hour, Near)
           far(s) == Reads!Nearest(s, hour, Far)
           Of(price, s) == \E h : Prices(s, hour, Far, h) /\ price = Reads!Got(s[h])
<1>1. \A h \in Int : h \in hour - Near .. hour + Near <=> Distance(h, hour) <= Near
  BY DEF Distance
<1>2. ASSUME NEW s, near(s).ok PROVE Of(near(s), s)
  <2>1. PICK h : Prices(s, hour, Near, h) /\ near(s) = Reads!Got(s[h])
    BY <1>2, NearestPrices
  <2>2. h \in Around(s, hour, Far) /\ Distance(h, hour) <= Near /\ h \in Int
    BY <2>1 DEF Prices, Around, Distance
  <2>3. ASSUME NEW k \in Around(s, hour, Far)
        PROVE  Distance(k, hour) > Distance(h, hour) \/ (Distance(k, hour) = Distance(h, hour) /\ h <= k)
    <3>1. CASE k \in Around(s, hour, Near)
      BY <2>1, <3>1 DEF Prices
    <3>2. CASE k \notin Around(s, hour, Near)
      <4>1. k \in Int /\ ~(Distance(k, hour) <= Near) /\ Distance(k, hour) \in Int /\ Distance(h, hour) \in Int
        BY <1>1, <2>2, <3>2 DEF Around, Distance
      <4> QED BY <2>2, <4>1
    <3> QED BY <3>1, <3>2
  <2>4. Prices(s, hour, Far, h)
    BY <2>2, <2>3 DEF Prices
  <2> QED BY <2>1, <2>4
<1>3. ASSUME NEW s, far(s).ok PROVE Of(far(s), s)
  BY <1>3, NearestPrices
<1> HIDE DEF Of
<1>4. Of(u.answer, u.quote.closes)
  <2> DEFINE until == Reads!Lower(now, hour + Ahead)
             f == Reads!Fetched(q.closes, pools, hour, until)
             after == [closes |-> f.closes, covered |-> q.covered \cup {<<until - Reach + 1, until - 1>>}, fetchedAt |-> now]
             fallback(p) == IF far(p.closes).ok THEN far(p.closes) ELSE Reads!NoPrice
  <2>1. u = IF near(q.closes).ok THEN [quote |-> q, answer |-> near(q.closes), asked |-> FALSE]
            ELSE IF cachedOnly \/ Reads!Recent(q, now) \/ Reads!Covers(q, hour)
              THEN [quote |-> q, answer |-> fallback(q), asked |-> FALSE]
            ELSE IF pools = <<>> THEN [quote |-> q, answer |-> Reads!NoPrice, asked |-> TRUE]
            ELSE IF ~f.ok THEN [quote |-> [q EXCEPT !.closes = f.closes], answer |-> Reads!Failed, asked |-> TRUE]
            ELSE [quote |-> after, answer |-> fallback(after), asked |-> TRUE]
    BY Zenon DEF Reads!UsdAt
  <2>2. ~Reads!Failed.ok
    BY DEF Reads!Failed
  <2>3. after.closes = f.closes
    OBVIOUS
  <2>4. \A p : fallback(p) # Reads!NoPrice => Of(fallback(p), p.closes)
    BY <1>3, Zenon
  <2> HIDE DEF near, far, fallback, f, after, u
  <2>5. u.answer.ok /\ u.answer # Reads!NoPrice
    BY DEF u
  <2>6. CASE near(q.closes).ok
    <3>1. u.answer = near(q.closes) /\ u.quote = q
      BY <2>1, <2>6
    <3> QED BY <1>2, <2>6, <3>1
  <2>7. CASE ~near(q.closes).ok
    <3>1. \/ u.quote = q /\ u.answer = fallback(q)
          \/ u.answer = Reads!NoPrice
          \/ u.answer = Reads!Failed
          \/ u.quote = after /\ u.answer = fallback(after)
      BY <2>1, <2>7
    <3> QED BY <2>2, <2>4, <2>5, <3>1
  <2> QED BY <2>6, <2>7
<1>5. \A v : Reads!Got(v).value = v
  BY DEF Reads!Got
<1> HIDE DEF u
<1>6. \E h : Prices(u.quote.closes, hour, Far, h) /\ u.answer.value = u.quote.closes[h]
  BY <1>4, <1>5 DEF Of
<1> QED BY <1>6 DEF u

-----------------------------------------------------------------------------
(* Division, for any divisor.                                              *)
LEMMA Quotient ==
  ASSUME NEW n \in Int, NEW s \in Nat \ {0}, NEW q \in Int, NEW r \in 0 .. s - 1, n = (s * q) + r
  PROVE  n \div s = q /\ n % s = r
OBVIOUS

LEMMA Multiple ==
  ASSUME NEW n \in Int, NEW s \in Nat \ {0}
  PROVE  n % s = 0 <=> \E q \in Int : n = s * q
<1>1. n = (s * (n \div s)) + (n % s) /\ n \div s \in Int
  OBVIOUS
<1>2. n % s = 0 => n = s * (n \div s)
  BY <1>1
<1>3. ASSUME NEW q \in Int, n = s * q PROVE n % s = 0
  BY <1>3, Quotient, 0 \in 0 .. s - 1, n = (s * q) + 0
<1> QED BY <1>1, <1>2, <1>3, Zenon

LEMMA Cancels ==
  ASSUME NEW k \in Int, NEW s \in Nat \ {0}
  PROVE  (s * k) \div (2 * s) = k \div 2
<1> DEFINE a == k \div 2
           b == k % 2
<1>1. a \in Int /\ b \in {0, 1} /\ k = (2 * a) + b
  OBVIOUS
<1> HIDE DEF a, b
<1>2. s * k = ((2 * s) * a) + (s * b) /\ s * k \in Int
  BY <1>1
<1>3. s * b \in 0 .. (2 * s) - 1 /\ 2 * s \in Nat \ {0}
  BY <1>1
<1> QED BY <1>1, <1>2, <1>3, Quotient DEF a

(* The middle of two numbers of the slider more than a step apart is one   *)
(* of its numbers, strictly between them.                                  *)
LEMMA MiddleBetween ==
  ASSUME NEW step \in Nat \ {0}, NEW lo \in Int, NEW hi \in Int, lo % step = 0, hi % step = 0, hi - lo > step
  PROVE  LET mid == ((lo + hi + step) \div (2 * step)) * step IN
         mid \in Int /\ mid % step = 0 /\ lo < mid /\ mid < hi
<1>1. PICK p \in Int : lo = step * p
  BY Multiple
<1>2. PICK q \in Int : hi = step * q
  BY Multiple
<1>3. lo + hi + step = step * (p + q + 1) /\ p + q + 1 \in Int
  BY <1>1, <1>2
<1> DEFINE m == (p + q + 1) \div 2
<1>4. (lo + hi + step) \div (2 * step) = m
  BY <1>3, Cancels
<1>5. q - p > 1
  <2>1. step * (q - p) > step * 1
    BY <1>1, <1>2
  <2> QED BY <2>1
<1>6. m \in Int /\ p < m /\ m < q
  BY <1>5
<1> HIDE DEF m
<1>7. m * step = step * m /\ step * p < step * m /\ step * m < step * q /\ step * m \in Int
  BY <1>6
<1>8. (step * m) % step = 0
  BY <1>6, <1>7, Multiple
<1> QED BY <1>1, <1>2, <1>4, <1>7, <1>8

(* Of the numbers of the slider none is between two that are a step apart. *)
LEMMA OneStepApart ==
  ASSUME NEW step \in Nat \ {0}, NEW lo \in Int, NEW hi \in Int, lo % step = 0, hi % step = 0,
         hi - lo <= step, lo < hi
  PROVE  hi - step = lo
<1>1. PICK p \in Int : lo = step * p
  BY Multiple
<1>2. PICK q \in Int : hi = step * q
  BY Multiple
<1>3. q - p > 0
  <2>1. step * (q - p) > step * 0
    BY <1>1, <1>2
  <2> QED BY <2>1
<1>4. q - p <= 1
  <2>1. step * (q - p) <= step * 1
    BY <1>1, <1>2
  <2> QED BY <2>1
<1>5. q = p + 1
  BY <1>3, <1>4
<1> QED BY <1>1, <1>2, <1>5

Slider(min, max, step) == {n \in min .. max : n % step = 0}
MiddleOf(r, step) == ((r[1] + r[2] + step) \div (2 * step)) * step
HalfOf(r, step, Enough) ==
  IF MiddleOf(r, step) \in Enough THEN <<r[1], MiddleOf(r, step)>> ELSE <<MiddleOf(r, step), r[2]>>
Bisected(f, r, step, Enough) == IF r[2] - r[1] <= step THEN r[2] ELSE f[HalfOf(r, step, Enough)]
StepApart(S, step) == {r \in S \X S : r[2] - r[1] <= step}
Uppers(S) == [r \in S \X S |-> r[2]]
Halved(S, step, Enough) == [r \in S \X S |-> HalfOf(r, step, Enough)]
IsBisection(f, S, step, Enough) == f = [r \in S \X S |-> Bisected(f, r, step, Enough)]

LEMMA HalfIsSmaller ==
  ASSUME NEW step \in Nat \ {0}, NEW min \in Nat, NEW max \in Nat, NEW Enough,
         NEW r \in Slider(min, max, step) \X Slider(min, max, step), r[2] - r[1] > step
  PROVE  LET m == MiddleOf(r, step)  h == HalfOf(r, step, Enough) IN
         /\ m \in Slider(min, max, step) /\ r[1] < m /\ m < r[2]
         /\ h \in Slider(min, max, step) \X Slider(min, max, step)
         /\ h[1] < h[2] /\ h[2] - h[1] < r[2] - r[1]
<1> DEFINE m == MiddleOf(r, step)
<1>1. r[1] \in Slider(min, max, step) /\ r[2] \in Slider(min, max, step)
  OBVIOUS
<1>2. r[1] \in min .. max /\ r[2] \in min .. max /\ r[1] % step = 0 /\ r[2] % step = 0
  BY <1>1 DEF Slider
<1>3. m \in Int /\ m % step = 0 /\ r[1] < m /\ m < r[2]
  <2> DEFINE lo == r[1]  hi == r[2]
  <2>1. lo \in Int /\ hi \in Int /\ lo % step = 0 /\ hi % step = 0 /\ hi - lo > step
    BY <1>2
  <2> HIDE DEF lo, hi
  <2>2. LET mid == ((lo + hi + step) \div (2 * step)) * step IN
        mid \in Int /\ mid % step = 0 /\ lo < mid /\ mid < hi
    BY <2>1, MiddleBetween
  <2> QED BY <2>2, Zenon DEF MiddleOf, lo, hi
<1>4. m \in Slider(min, max, step)
  BY <1>2, <1>3 DEF Slider
<1> HIDE DEF m
<1>5. CASE m \in Enough
  BY <1>1, <1>2, <1>3, <1>4, <1>5 DEF HalfOf, m
<1>6. CASE m \notin Enough
  BY <1>1, <1>2, <1>3, <1>4, <1>6 DEF HalfOf, m
<1> QED BY <1>5, <1>6

(* The bisection as a search.                                              *)
HalvingSearches(S, step, Enough, max) ==
  /\ Width(S) \in [S \X S -> 0 .. max]
  /\ \A r \in (S \X S) \ StepApart(S, step) : /\ Halved(S, step, Enough)[r] \in S \X S
                                          /\ Width(S)[Halved(S, step, Enough)[r]] < Width(S)[r]
  /\ \A f : IsBisection(f, S, step, Enough) <=>
            IsSearch(f, S \X S, StepApart(S, step), Uppers(S), Halved(S, step, Enough))

LEMMA BisectionSearches ==
  ASSUME NEW step \in Nat \ {0}, NEW min \in Nat, NEW max \in Nat, NEW Enough,
         NEW S, S = Slider(min, max, step)
  PROVE  HalvingSearches(S, step, Enough, max)
<1> DEFINE D == S \X S
           Stop == StepApart(S, step)
           next == Halved(S, step, Enough)
<1>1. \A r \in D : r[1] \in Nat /\ r[2] \in Nat /\ r[1] <= max /\ r[2] <= max
  BY DEF Slider
<1>2. Width(S) \in [D -> 0 .. max]
  <2>1. \A r \in D : (IF r[1] <= r[2] THEN r[2] - r[1] ELSE 0) \in 0 .. max
    BY <1>1
  <2> HIDE DEF D
  <2> QED BY <2>1 DEF Width, D
<1>3. ASSUME NEW r \in D \ Stop PROVE next[r] \in D /\ Width(S)[next[r]] < Width(S)[r]
  <2>1. r \in D /\ r[2] - r[1] > step /\ next[r] = HalfOf(r, step, Enough)
    BY <1>1 DEF StepApart, Halved
  <2> DEFINE h == HalfOf(r, step, Enough)
  <2>2. h \in D /\ h[1] < h[2] /\ h[2] - h[1] < r[2] - r[1]
    BY <2>1, HalfIsSmaller
  <2> HIDE DEF h, D
  <2>3. Width(S)[h] = h[2] - h[1] /\ Width(S)[r] = r[2] - r[1]
    BY <1>1, <2>1, <2>2 DEF Width, D
  <2> QED BY <2>1, <2>2, <2>3 DEF h
<1>4. ASSUME NEW f PROVE IsBisection(f, S, step, Enough) <=> IsSearch(f, D, Stop, Uppers(S), next)
  <2>1. ASSUME NEW r \in D PROVE Searched(f, r, Stop, Uppers(S), next) = Bisected(f, r, step, Enough)
    <3>1. /\ r \in Stop <=> r[2] - r[1] <= step
          /\ Uppers(S)[r] = r[2] /\ next[r] = HalfOf(r, step, Enough)
      BY DEF StepApart, Uppers, Halved
    <3> HIDE DEF D, Stop, next
    <3> QED BY <3>1 DEF Searched, Bisected
  <2> HIDE DEF Stop, next
  <2> QED BY <2>1, Zenon DEF IsSearch, IsBisection
<1> QED BY <1>2, <1>3, <1>4 DEF HalvingSearches

LEMMA BisectionExists ==
  ASSUME NEW step \in Nat \ {0}, NEW min \in Nat, NEW max \in Nat, NEW Enough, NEW S, S = Slider(min, max, step)
  PROVE  \E f : IsBisection(f, S, step, Enough)
<1>0. HalvingSearches(S, step, Enough, max)
  BY BisectionSearches
<1> DEFINE D == S \X S
           Stop == StepApart(S, step)
           next == Halved(S, step, Enough)
           size == Width(S)
           leaf == Uppers(S)
<1>1. size \in [D -> 0 .. max] /\ (\A r \in D \ Stop : next[r] \in D /\ size[next[r]] < size[r])
  BY <1>0 DEF HalvingSearches
<1>2. \A f : IsBisection(f, S, step, Enough) <=> IsSearch(f, D, Stop, leaf, next)
  BY <1>0 DEF HalvingSearches
<1> HIDE DEF D, Stop, next, size, leaf
<1>3. \E f : IsSearch(f, D, Stop, leaf, next)
  BY <1>1, SearchExists
<1> QED BY <1>2, <1>3

LEMMA BisectionFinds ==
  ASSUME NEW step \in Nat \ {0}, NEW min \in Nat, NEW max \in Nat, NEW Enough,
         min < max, min % step = 0, max % step = 0, max \in Enough,
         NEW S, S = Slider(min, max, step), NEW f, IsBisection(f, S, step, Enough)
  PROVE  LET n == f[<<min, max>>] IN
         /\ n \in min + 1 .. max /\ n % step = 0 /\ n \in Enough
         /\ n - step = min \/ (n - step \in min .. max /\ (n - step) % step = 0 /\ n - step \notin Enough)
<1> DEFINE Kept == {r \in S \X S : r[1] < r[2] /\ r[2] \in Enough /\ (r[1] = min \/ r[1] \notin Enough)}
<1>1. ASSUME NEW r \in Kept \ StepApart(S, step) PROVE Halved(S, step, Enough)[r] \in Kept
  <2> DEFINE m == MiddleOf(r, step)
             h == HalfOf(r, step, Enough)
  <2>1. /\ r \in S \X S /\ r[2] - r[1] > step /\ Halved(S, step, Enough)[r] = h
        /\ r[2] \in Enough /\ (r[1] = min \/ r[1] \notin Enough)
    BY DEF Slider, StepApart, Halved
  <2>2. h \in S \X S /\ h[1] < h[2]
    BY <2>1, HalfIsSmaller
  <2>3. h = IF m \in Enough THEN <<r[1], m>> ELSE <<m, r[2]>>
    BY DEF HalfOf
  <2> HIDE DEF m, h
  <2>4. h[2] \in Enough /\ (h[1] = min \/ h[1] \notin Enough)
    BY <2>1, <2>3
  <2> QED BY <2>1, <2>2, <2>4
<1>2. <<min, max>> \in Kept /\ Kept \in SUBSET (S \X S)
  BY DEF Slider
<1>3. PICK s \in Kept \cap StepApart(S, step) : f[<<min, max>>] = Uppers(S)[s]
  <2>0. HalvingSearches(S, step, Enough, max)
    BY BisectionSearches
  <2> DEFINE D == S \X S
             Stop == StepApart(S, step)
             leaf == Uppers(S)
             next == Halved(S, step, Enough)
             size == Width(S)
  <2>1. IsSearch(f, D, Stop, leaf, next)
    BY <2>0 DEF HalvingSearches
  <2>2. size \in [D -> 0 .. max] /\ (\A r \in D \ Stop : next[r] \in D /\ size[next[r]] < size[r])
    BY <2>0 DEF HalvingSearches
  <2>3. Kept \in SUBSET D /\ \A r \in Kept \ Stop : next[r] \in Kept
    BY <1>1, <1>2
  <2> HIDE DEF Kept, D, Stop, leaf, next, size
  <2>4. \A r \in Kept : \E s \in Kept \cap Stop : f[r] = leaf[s]
    BY <2>1, <2>2, <2>3, SearchEnds
  <2> QED BY <1>2, <2>4 DEF Stop, leaf
<1>4. /\ s[1] \in S /\ s[2] \in S /\ s[1] < s[2] /\ s[2] - s[1] <= step
      /\ s[2] \in Enough /\ (s[1] = min \/ s[1] \notin Enough) /\ Uppers(S)[s] = s[2]
  BY DEF StepApart, Uppers
<1>5. s[1] \in min .. max /\ s[2] \in min .. max /\ s[1] % step = 0 /\ s[2] % step = 0
  BY <1>4 DEF Slider
<1>6. s[2] - step = s[1]
  <2>1. s[1] \in Int /\ s[2] \in Int
    BY <1>5
  <2> QED BY <1>4, <1>5, <2>1, OneStepApart
<1> QED BY <1>3, <1>4, <1>5, <1>6

(* "Fill to target" (useProof.ts:62): wherever the sliders reach the       *)
(* target at all, the numbers they are set to reach it, at the first AUC   *)
(* of the scale that can, and one step fewer rows do not, unless that is   *)
(* the least number of the slider, which is not tried.                     *)
THEOREM FillsToTarget ==
  ASSUME NEW step \in Nat \ {0}, NEW min \in Nat, NEW max \in Nat, min < max, min % step = 0, max % step = 0,
         NEW aucs \in Seq(Int), aucs # <<>>, NEW target \in Int,
         NEW floorAt \in [{n \in min .. max : n % step = 0} \X {aucs[i] : i \in DOMAIN aucs} -> Int]
  PROVE  LET got == Sums!FillTarget(floorAt, aucs, min, max, step, target)
             reaches(n, auc) == floorAt[<<n, auc>>] >= target IN
         IF \A i \in DOMAIN aucs : ~reaches(max, aucs[i]) THEN got = [n |-> max, auc |-> aucs[Len(aucs)]]
         ELSE /\ got.n \in min + 1 .. max /\ got.n % step = 0 /\ reaches(got.n, got.auc)
              /\ got.n - step = min \/ (got.n - step \in min .. max /\ ~reaches(got.n - step, got.auc))
              /\ \E i \in DOMAIN aucs : got.auc = aucs[i] /\ \A j \in 1 .. i - 1 : ~reaches(max, aucs[j])
<1> DEFINE grid == {n \in min .. max : n % step = 0}
           able == {i \in DOMAIN aucs : floorAt[<<max, aucs[i]>>] >= target}
           first == CHOOSE i \in able : \A j \in able : i <= j
           a == aucs[first]
           Enough == {n \in grid : floorAt[<<n, a>>] >= target}
           Is(f) == f = [r \in grid \X grid |->
                           LET mid == ((r[1] + r[2] + step) \div (2 * step)) * step IN
                           IF r[2] - r[1] <= step THEN r[2]
                           ELSE IF floorAt[<<mid, a>>] >= target THEN f[<<r[1], mid>>] ELSE f[<<mid, r[2]>>]]
           search == CHOOSE f : Is(f)
           got == Sums!FillTarget(floorAt, aucs, min, max, step, target)
<1>1. got = IF able = {} THEN [n |-> max, auc |-> aucs[Len(aucs)]] ELSE [n |-> search[<<min, max>>], auc |-> a]
  BY Zenon DEF Sums!FillTarget
<1>2. grid = Slider(min, max, step)
  BY DEF Slider
<1>3. ASSUME NEW f PROVE Is(f) <=> IsBisection(f, grid, step, Enough)
  <2>1. ASSUME NEW r \in grid \X grid
        PROVE  Bisected(f, r, step, Enough) =
                 LET mid == ((r[1] + r[2] + step) \div (2 * step)) * step IN
                 IF r[2] - r[1] <= step THEN r[2]
                 ELSE IF floorAt[<<mid, a>>] >= target THEN f[<<r[1], mid>>] ELSE f[<<mid, r[2]>>]
    <3> HIDE DEF a
    <3>1. CASE r[2] - r[1] <= step
      BY <3>1 DEF Bisected
    <3>2. CASE ~(r[2] - r[1] <= step)
      <4> DEFINE m == MiddleOf(r, step)
      <4>1. r[1] \in Int /\ r[2] \in Int
        OBVIOUS
      <4>2. m \in grid
        <5>1. r \in Slider(min, max, step) \X Slider(min, max, step) /\ r[2] - r[1] > step
          BY <1>2, <3>2, <4>1
        <5> HIDE DEF grid, Enough
        <5> QED BY <1>2, <5>1, HalfIsSmaller
      <4>3. m \in Enough <=> floorAt[<<m, a>>] >= target
        BY <4>2
      <4> HIDE DEF m, Enough, grid
      <4>4. HalfOf(r, step, Enough) = IF floorAt[<<m, a>>] >= target THEN <<r[1], m>> ELSE <<m, r[2]>>
        BY <4>3 DEF HalfOf, m
      <4>5. Bisected(f, r, step, Enough) = IF floorAt[<<m, a>>] >= target THEN f[<<r[1], m>>] ELSE f[<<m, r[2]>>]
        BY <3>2, <4>4 DEF Bisected
      <4> QED BY <3>2, <4>5 DEF m, MiddleOf
    <3> QED BY <3>1, <3>2
  <2> HIDE DEF grid, Enough, a
  <2> QED BY <2>1, Zenon DEF IsBisection
<1> HIDE DEF Is
<1>4. IsBisection(search, grid, step, Enough)
  <2>1. \E f : Is(f)
    <3> HIDE DEF grid, Enough
    <3> QED BY <1>2, <1>3, BisectionExists
  <2>2. Is(search)
    BY <2>1, Zenon
  <2> QED BY <1>3, <2>2
<1> HIDE DEF search
<1>5. CASE able = {}
  <2>1. got = [n |-> max, auc |-> aucs[Len(aucs)]]
    BY <1>1, <1>5
  <2>2. \A i \in DOMAIN aucs : ~(floorAt[<<max, aucs[i]>>] >= target)
    BY <1>5
  <2> HIDE DEF got
  <2> QED BY <2>1, <2>2 DEF got
<1>6. CASE able # {}
  <2>1. first \in able /\ \A j \in able : first <= j
    <3>1. able \in SUBSET Nat
      BY LenProperties
    <3> HIDE DEF able
    <3>2. \E i \in able : \A j \in able : i <= j
      BY <1>6, <3>1, LeastExists
    <3> QED BY <3>2, Zenon
  <2>2. first \in DOMAIN aucs /\ floorAt[<<max, a>>] >= target /\ DOMAIN aucs = 1 .. Len(aucs) /\ Len(aucs) \in Nat
    BY <2>1, LenProperties
  <2>3. \A j \in 1 .. first - 1 : ~(floorAt[<<max, aucs[j]>>] >= target)
    <3> SUFFICES ASSUME NEW j \in 1 .. first - 1, floorAt[<<max, aucs[j]>>] >= target PROVE FALSE
      OBVIOUS
    <3> HIDE DEF first
    <3>1. j \in DOMAIN aucs /\ ~(first <= j)
      BY <2>2, SMTT(30)
    <3> QED BY <2>1, <3>1
  <2>4. max \in Enough
    <3>1. max \in grid
      OBVIOUS
    <3> HIDE DEF grid, a
    <3> QED BY <2>2, <3>1
  <2> DEFINE n == search[<<min, max>>]
  <2>5. /\ n \in min + 1 .. max /\ n % step = 0 /\ n \in Enough
        /\ n - step = min \/ (n - step \in min .. max /\ (n - step) % step = 0 /\ n - step \notin Enough)
    <3> HIDE DEF grid, Enough
    <3> QED BY <1>2, <1>4, <2>4, BisectionFinds
  <2>6. got = [n |-> n, auc |-> a]
    BY <1>1, <1>6
  <2>7. \E i \in DOMAIN aucs : a = aucs[i] /\ \A j \in 1 .. i - 1 : ~(floorAt[<<max, aucs[j]>>] >= target)
    BY <2>2, <2>3
  <2>8. ~ \A i \in DOMAIN aucs : ~(floorAt[<<max, aucs[i]>>] >= target)
    BY <2>2
  <2> HIDE DEF a, n, got
  <2>9. floorAt[<<n, a>>] >= target /\ (n - step = min \/ (n - step \in min .. max /\ ~(floorAt[<<n - step, a>>] >= target)))
    BY <2>5
  <2>10. got.n = n /\ got.auc = a
    BY <2>6
  <2> HIDE DEF Enough, able
  <2> QED BY <2>5, <2>7, <2>8, <2>9, <2>10 DEF got
<1> QED BY <1>5, <1>6
-----------------------------------------------------------------------------
(* The jar of a model and the gates that hold it (Study).                  *)
LEMMA DivideAtLeast ==
  ASSUME NEW a \in Int, NEW d \in Nat \ {0}, NEW k \in Int
  PROVE  a \div d \in Int /\ (a \div d >= k <=> a >= k * d)
<1> DEFINE q == a \div d  r == a % d
<1>1. q \in Int /\ r \in 0 .. d - 1 /\ a = (d * q) + r
  OBVIOUS
<1> HIDE DEF q, r
<1>2. CASE q >= k
  <2>1. d * q >= d * k BY <1>1, <1>2
  <2> QED BY <1>1, <1>2, <2>1 DEF q
<1>3. CASE ~(q >= k)
  <2>1. q + 1 <= k BY <1>1, <1>3
  <2>2. d * (q + 1) <= d * k BY <1>1, <2>1
  <2> QED BY <1>1, <1>3, <2>2 DEF q
<1> QED BY <1>2, <1>3

(* The jar as the floor grows.                                             *)
LEMMA JarGrows ==
  ASSUME NaN \notin Int, AucFloor \in Int, AucTarget \in Int, AucFloor < AucTarget, NEW f \in Int
  PROVE  /\ Sums!JarFraction(f) \in 0 .. Sums!One
         /\ Sums!JarFraction(f) >= Sums!One <=> f >= AucTarget
         /\ \A g \in Int : f <= g => Sums!JarFraction(f) <= Sums!JarFraction(g)
<1> DEFINE d == AucTarget - AucFloor
           q(x) == (1000 * (x - AucFloor)) \div d
<1>1. d \in Nat \ {0}
  OBVIOUS
<1>2. ASSUME NEW x \in Int
      PROVE  /\ q(x) \in Int /\ q(x) >= 1000 <=> x >= AucTarget
             /\ Sums!JarFraction(x) = IF q(x) >= 1000 THEN 1000 ELSE IF q(x) < 0 THEN 0 ELSE q(x)
  <2>1. q(x) \in Int /\ (q(x) >= 1000 <=> 1000 * (x - AucFloor) >= 1000 * d)
    <3> HIDE DEF d
    <3> QED BY <1>1, DivideAtLeast
  <2>2. Sums!JarFraction(x) = Sums!Lower(1000, Sums!Higher(0, q(x)))
    BY DEF Sums!JarFraction, Sums!One
  <2> DEFINE k == q(x)
  <2> HIDE DEF k
  <2>3. Sums!JarFraction(x) = IF k >= 1000 THEN 1000 ELSE IF k < 0 THEN 0 ELSE k
    BY <2>1, <2>2 DEF Sums!Lower, Sums!Higher, k
  <2>4. 1000 * (x - AucFloor) >= 1000 * d <=> x >= AucTarget
    OBVIOUS
  <2> QED BY <2>1, <2>3, <2>4 DEF k
<1>3. ASSUME NEW g \in Int, f <= g PROVE q(f) <= q(g)
  <2> DEFINE k == q(f)
  <2>1. k \in Int /\ k >= k
    BY <1>2
  <2>2. 1000 * (f - AucFloor) >= k * d
    <3> HIDE DEF d
    <3> QED BY <1>1, <2>1, DivideAtLeast
  <2>3. 1000 * (g - AucFloor) >= k * d
    <3> HIDE DEF k, d
    <3> QED BY <1>1, <1>3, <2>1, <2>2
  <2>4. q(g) >= k
    <3> HIDE DEF k, d
    <3> QED BY <1>1, <2>1, <2>3, DivideAtLeast
  <2>5. q(g) \in Int
    BY <1>2
  <2> QED BY <2>1, <2>4, <2>5
<1>4. /\ q(f) \in Int /\ q(f) >= 1000 <=> f >= AucTarget
      /\ Sums!JarFraction(f) = IF q(f) >= 1000 THEN 1000 ELSE IF q(f) < 0 THEN 0 ELSE q(f)
  BY <1>2
<1>5. ASSUME NEW g \in Int, f <= g
      PROVE  Sums!JarFraction(f) <= Sums!JarFraction(g)
  <2>1. /\ q(g) \in Int
        /\ Sums!JarFraction(g) = IF q(g) >= 1000 THEN 1000 ELSE IF q(g) < 0 THEN 0 ELSE q(g)
    BY <1>2
  <2>2. q(f) <= q(g)
    BY <1>3, <1>5
  <2> DEFINE a == q(f)  b == q(g)  ja == Sums!JarFraction(f)  jb == Sums!JarFraction(g)
  <2>3. /\ a \in Int /\ b \in Int /\ a <= b
        /\ ja = IF a >= 1000 THEN 1000 ELSE IF a < 0 THEN 0 ELSE a
        /\ jb = IF b >= 1000 THEN 1000 ELSE IF b < 0 THEN 0 ELSE b
    BY <1>4, <2>1, <2>2
  <2>4. ja <= jb
    <3> HIDE DEF a, b, ja, jb
    <3> QED BY <2>3
  <2> QED BY <2>4
<1>6. Sums!JarFraction(f) \in 0 .. 1000 /\ (Sums!JarFraction(f) >= 1000 <=> f >= AucTarget)
  <2> DEFINE a == q(f)  ja == Sums!JarFraction(f)
  <2>1. a \in Int /\ (a >= 1000 <=> f >= AucTarget) /\ ja = IF a >= 1000 THEN 1000 ELSE IF a < 0 THEN 0 ELSE a
    BY <1>4
  <2>2. ja \in 0 .. 1000 /\ (ja >= 1000 <=> f >= AucTarget)
    <3> HIDE DEF a, ja
    <3> QED BY <2>1
  <2> QED BY <2>2
<1> HIDE DEF q
<1> QED BY <1>5, <1>6 DEF Sums!One

(* What blocks a model is the first of its gates that does not pass.       *)
LEMMA FirstGateBlocks ==
  ASSUME Absent \notin Sums!GateKeys, NEW gates
  PROVE  LET b == Sums!BlockedBy(gates) IN
         /\ b = Absent <=> \A g \in Sums!GateKeys : gates[g]
         /\ b # Absent => \E i \in 1 .. 4 : /\ b = Sums!GateOrder[i] /\ ~gates[b]
                                          /\ \A j \in 1 .. i - 1 : gates[Sums!GateOrder[j]]
<1> DEFINE wrong == {i \in DOMAIN Sums!GateOrder : ~gates[Sums!GateOrder[i]]}
           first == CHOOSE i \in wrong : \A j \in wrong : i <= j
           b == Sums!BlockedBy(gates)
<1>1. DOMAIN Sums!GateOrder = 1 .. 4 /\ \A i \in 1 .. 4 : Sums!GateOrder[i] \in Sums!GateKeys
  BY DEF Sums!GateOrder, Sums!GateKeys
<1>2. \A g \in Sums!GateKeys : \E i \in 1 .. 4 : g = Sums!GateOrder[i]
  BY <1>1 DEF Sums!GateKeys
<1>3. b = IF wrong = {} THEN Absent ELSE Sums!GateOrder[first]
  BY DEF Sums!BlockedBy
<1>4. CASE wrong = {}
  <2>1. \A i \in 1 .. 4 : gates[Sums!GateOrder[i]]
    BY <1>1, <1>4
  <2> QED BY <1>2, <1>3, <1>4, <2>1
<1>5. CASE wrong # {}
  <2>1. \E i \in wrong : \A j \in wrong : i <= j
    <3>1. wrong \in SUBSET Nat
      BY <1>1
    <3> HIDE DEF wrong
    <3> QED BY <1>5, <3>1, LeastExists
  <2>2. first \in wrong /\ \A j \in wrong : first <= j
    <3> HIDE DEF wrong
    <3> QED BY <2>1, Zenon
  <2> HIDE DEF first
  <2>3. first \in 1 .. 4 /\ ~gates[Sums!GateOrder[first]] /\ \A j \in 1 .. first - 1 : gates[Sums!GateOrder[j]]
    BY <1>1, <2>2
  <2> HIDE DEF wrong
  <2>4. b = Sums!GateOrder[first] /\ b \in Sums!GateKeys
    BY <1>1, <1>3, <1>5, <2>3
  <2> HIDE DEF b
  <2> QED BY <1>1, <2>3, <2>4 DEF b
<1> QED BY <1>4, <1>5

(* "Every gate must pass before the jar may read 100%" (proof.ts:21): it   *)
(* is full, and a launch allowed, exactly for a floor at the target and    *)
(* gates that all pass; otherwise the first gate that fails is named, and  *)
(* holds it at the cap. A higher floor never empties it, and a run whose   *)
(* deviation could not be measured is never allowed, unless the backend it *)
(* comes from says that this gate passes.                                  *)
THEOREM UnlockedIsProven ==
  ASSUME NaN \notin Int, Absent \notin Sums!GateKeys, AucFloor \in Int, AucTarget \in Int, AucFloor < AucTarget,
         JarCap \in Int, JarCap < Sums!One, NSamplesMin \in Int, NPositiveMin \in Int, AucStdMax \in Int, TimeSplitGapMax \in Int,
         NEW floor \in Int \cup {NaN}, NEW bound, bound.floor = floor,
         NEW over \in UNION {[S -> BOOLEAN] : S \in SUBSET Sums!GateKeys},
         NEW m \in [n : Int, nPos : Int, aucStd : Int \cup {NaN}, timeSplitGap : Int \cup {NaN}, gatesOverride : {over}]
  PROVE  LET p == Sums!EvaluateModel(m, bound) IN
         /\ p.unlocked <=> floor # NaN /\ floor >= AucTarget /\ \A g \in Sums!GateKeys : p.gates[g]
         /\ p.blockedBy = Absent <=> \A g \in Sums!GateKeys : p.gates[g]
         /\ p.blockedBy # Absent => /\ ~p.gates[p.blockedBy]
                                    /\ floor # NaN => p.jar <= JarCap
         /\ floor = NaN => p.jar = NaN
         /\ floor # NaN => \A b : b.floor \in Int /\ floor <= b.floor => p.jar <= Sums!EvaluateModel(m, b).jar
         /\ m.aucStd = NaN /\ "auc_std" \notin DOMAIN over => ~p.unlocked
<1> DEFINE p == Sums!EvaluateModel(m, bound)
           gates == Sums!Gates(m)
           by == Sums!BlockedBy(gates)
           jar(f) == IF by = Absent THEN Sums!JarFraction(f) ELSE Sums!LowerOf(Sums!JarFraction(f), JarCap)
<1>1. \A c : LET e == Sums!EvaluateModel(m, c) IN
            /\ e.gates = gates /\ e.blockedBy = by /\ e.jar = jar(c.floor)
            /\ e.unlocked = (jar(c.floor) # NaN /\ jar(c.floor) >= Sums!One)
  BY Zenon DEF Sums!EvaluateModel
<1>2. /\ by = Absent <=> \A g \in Sums!GateKeys : gates[g]
      /\ by # Absent => ~gates[by]
  <2> HIDE DEF gates
  <2> QED BY FirstGateBlocks
<1>3. ASSUME NEW f \in Int
      PROVE  jar(f) = IF by # Absent /\ JarCap < Sums!JarFraction(f) THEN JarCap ELSE Sums!JarFraction(f)
  <2>1. Sums!JarFraction(f) \in 0 .. Sums!One
    BY JarGrows
  <2>2. Sums!JarFraction(f) \in Int
    BY <2>1 DEF Sums!One
  <2> HIDE DEF by
  <2> QED BY <2>2 DEF Sums!LowerOf, Sums!Lower
<1>4. jar(NaN) = NaN
  <2>1. Sums!JarFraction(NaN) = NaN
    BY DEF Sums!JarFraction
  <2> HIDE DEF by
  <2> QED BY <2>1 DEF Sums!LowerOf
<1>5. m.aucStd = NaN /\ "auc_std" \notin DOMAIN over => ~gates["auc_std"] /\ "auc_std" \in Sums!GateKeys
  <2>1. "auc_std" \in Sums!GateKeys
    BY DEF Sums!GateKeys, Sums!GateOrder
  <2>2. m.gatesOverride = over
    OBVIOUS
  <2> QED BY <2>1, <2>2 DEF Sums!Gates, Sums!Less
<1> HIDE DEF gates, by, jar
<1>6. CASE floor = NaN
  BY <1>1, <1>2, <1>4, <1>6
<1>7. CASE floor \in Int
  <2> DEFINE j(f) == Sums!JarFraction(f)
  <2>1. j(floor) \in 0 .. Sums!One /\ (j(floor) >= Sums!One <=> floor >= AucTarget)
    BY <1>7, JarGrows
  <2>2. jar(floor) = IF by # Absent /\ JarCap < j(floor) THEN JarCap ELSE j(floor)
    BY <1>3, <1>7
  <2> DEFINE k == jar(floor)  i == j(floor)
  <2>3. k \in Int /\ (k >= Sums!One <=> floor >= AucTarget /\ by = Absent) /\ (by # Absent => k <= JarCap)
    <3>1. i \in 0 .. 1000 /\ (i >= 1000 <=> floor >= AucTarget) /\ k = IF by # Absent /\ JarCap < i THEN JarCap ELSE i
      BY <2>1, <2>2 DEF Sums!One
    <3>2. JarCap < 1000
      BY DEF Sums!One
    <3> HIDE DEF i, k
    <3> QED BY <3>1, <3>2 DEF Sums!One
  <2>4. ASSUME NEW f \in Int, floor <= f PROVE k <= jar(f)
    <3>1. j(floor) <= j(f)
      BY <1>7, <2>4, JarGrows
    <3>2. j(f) \in 0 .. Sums!One
      BY JarGrows
    <3>3. jar(f) = IF by # Absent /\ JarCap < j(f) THEN JarCap ELSE j(f)
      BY <1>3
    <3> DEFINE kf == jar(f)  ff == j(f)
    <3>4. i \in 0 .. 1000 /\ ff \in 0 .. 1000 /\ i <= ff /\ k = (IF by # Absent /\ JarCap < i THEN JarCap ELSE i)
          /\ kf = IF by # Absent /\ JarCap < ff THEN JarCap ELSE ff
      BY <2>1, <2>2, <3>1, <3>2, <3>3 DEF Sums!One
    <3>5. k <= kf
      <4> HIDE DEF i, k, ff, kf
      <4> QED BY <3>4
    <3> QED BY <3>5
  <2>5. k \in Int /\ jar(floor) = k
    BY <2>3
  <2>6. floor # NaN
    BY <1>7
  <2> HIDE DEF k, i, j
  <2>7. p.unlocked <=> floor >= AucTarget /\ by = Absent
    BY <1>1, <2>3, <2>5
  <2> QED BY <1>1, <1>2, <1>5, <1>7, <2>3, <2>4, <2>5, <2>6, <2>7
<1> QED BY <1>6, <1>7

-----------------------------------------------------------------------------
(* Percentiles of Study (percentileSorted, stats.ts).                      *)
(* A product grows with its factor.                                       *)
LEMMA Grows ==
  ASSUME NEW a \in Nat, NEW b \in Int, NEW c \in Int, b <= c
  PROVE  a * b \in Int /\ a * c \in Int /\ a * b <= a * c
<1>1. a * (c - b) \in Nat /\ a * (c - b) = a * c - a * b /\ a * b \in Int /\ a * c \in Int
  OBVIOUS
<1> DEFINE u == a * b  v == a * c  w == a * (c - b)
<1>2. u \in Int /\ v \in Int /\ w \in Nat /\ w = v - u
  BY <1>1
<1> HIDE DEF u, v, w
<1>3. u <= v
  BY <1>2
<1> QED BY <1>2, <1>3 DEF u, v

(* Between two values of a list: f thousandths of the way from the l-th to *)
(* the next.                                                               *)
Between(s, l, f) == 1000 * s[l] + (IF f = 0 THEN 0 ELSE (s[l + 1] - s[l]) * f)
(* x lies after the l-th value and before all that follow.                 *)
Lies(n, s, l, x) == x \in Int /\ 1000 * s[l] <= x /\ \A m \in l + 1 .. n : x <= 1000 * s[m]
(* An order that the steps below carry without arithmetic.                 *)
NoMore(a, b) == a <= b
InOrder(s, n) == \A i, j \in 1 .. n : i <= j => s[i] <= s[j]

(* Two places on one stretch, in order.                                    *)
Stretch(n, l, f, g) == l \in 1 .. n /\ f \in 0 .. 999 /\ g \in 0 .. 999 /\ f <= g /\ (l = n => g = 0)

LEMMA StaysBetween ==
  ASSUME NEW n \in Nat \ {0}, NEW s \in [1 .. n -> Int], InOrder(s, n), NEW l, NEW f, Stretch(n, l, f, f)
  PROVE  Lies(n, s, l, Between(s, l, f))
<1>0. l \in 1 .. n /\ f \in 0 .. 999 /\ (l = n => f = 0)
  BY DEF Stretch
<1>1. CASE l = n
  <2> DEFINE a == 1000 * s[l]
  <2>1. a \in Int /\ Between(s, l, f) = a
    BY <1>0, <1>1 DEF Between
  <2>2. a <= a /\ l + 1 .. n = {}
    BY <1>0, <1>1, <2>1
  <2> QED BY <2>1, <2>2 DEF Lies
<1>2. CASE l # n
  <2> DEFINE a == s[l]  b == s[l + 1]  u == (b - a) * f  x == Between(s, l, f)
  <2>1. l + 1 \in 1 .. n /\ a \in Int /\ b \in Int /\ a <= b
    BY <1>0, <1>2 DEF InOrder
  <2>2. \A m \in l + 1 .. n : b <= s[m] /\ s[m] \in Int
    BY <1>0, <2>1 DEF InOrder
  <2>3. x = 1000 * a + u
    <3>1. CASE f = 0
      <4>1. (b - a) * f = 0
        BY <1>0, <2>1, <3>1
      <4> QED BY <2>1, <3>1, <4>1 DEF Between
    <3>2. CASE f # 0
      BY <1>0, <3>2 DEF Between
    <3> QED BY <3>1, <3>2
  <2> HIDE DEF a, b, x
  <2>4. u \in Int /\ 0 <= u /\ u <= 1000 * (b - a)
    <3> DEFINE d == b - a
    <3>1. d \in Nat /\ 0 <= f /\ f <= 1000 /\ f \in Int
      BY <1>0, <2>1
    <3> HIDE DEF d
    <3>2. d * 0 <= d * f /\ d * f <= d * 1000 /\ d * f \in Int
      BY <3>1, Grows, 0 \in Int, 1000 \in Int
    <3>3. d * 0 = 0 /\ d * 1000 = 1000 * d
      BY <3>1
    <3>4. d * f = u /\ d = b - a
      BY DEF d
    <3> HIDE DEF u
    <3> QED BY <3>1, <3>2, <3>3, <3>4
  <2> HIDE DEF u
  <2>5. x \in Int /\ 1000 * a <= x /\ x <= 1000 * b
    BY <2>1, <2>3, <2>4
  <2>6. \A m \in l + 1 .. n : x <= 1000 * s[m]
    BY <2>1, <2>2, <2>5
  <2> QED BY <2>5, <2>6 DEF x, a, Lies
<1> QED BY <1>1, <1>2

LEMMA BetweenGrows ==
  ASSUME NEW n \in Nat \ {0}, NEW s \in [1 .. n -> Int], InOrder(s, n), NEW l, NEW f, NEW g, Stretch(n, l, f, g)
  PROVE  NoMore(Between(s, l, f), Between(s, l, g))
<1>0. l \in 1 .. n /\ f \in 0 .. 999 /\ g \in 0 .. 999 /\ f <= g /\ (l = n => g = 0)
  BY DEF Stretch
<1>1. CASE g = 0
  <2> DEFINE b == s[l]  a == 1000 * b
  <2>1. f = 0
    BY <1>0, <1>1, SMTT(30)
  <2>2. b \in Int
    BY <1>0
  <2>3. Between(s, l, f) = a + 0 /\ Between(s, l, g) = a + 0
    BY <1>0, <1>1, <2>1 DEF Between
  <2> HIDE DEF b
  <2>4. a + 0 <= a + 0
    BY <2>2
  <2> HIDE DEF a
  <2> QED BY <2>3, <2>4 DEF NoMore
<1>2. CASE g # 0
  <2> DEFINE a == s[l]  b == s[l + 1]  u == (b - a) * f  v == (b - a) * g
             x == Between(s, l, f)  y == Between(s, l, g)
  <2>1. a \in Int /\ b \in Int /\ a <= b
    BY <1>0, <1>2 DEF InOrder
  <2>2. y = 1000 * a + v
    BY <1>0, <1>2 DEF Between
  <2>3. x = 1000 * a + u
    <3>1. CASE f = 0
      <4>1. (b - a) * f = 0
        BY <1>0, <2>1, <3>1
      <4> QED BY <2>1, <3>1, <4>1 DEF Between
    <3>2. CASE f # 0
      BY <1>0, <3>2 DEF Between
    <3> QED BY <3>1, <3>2
  <2> HIDE DEF a, b, x, y
  <2>4. u \in Int /\ v \in Int /\ u <= v
    <3> DEFINE d == b - a
    <3>1. d \in Nat /\ f \in Int /\ g \in Int /\ f <= g
      BY <1>0, <2>1
    <3> HIDE DEF d
    <3>2. d * f <= d * g /\ d * f \in Int /\ d * g \in Int
      BY <3>1, Grows
    <3> QED BY <3>2 DEF d
  <2> HIDE DEF u, v
  <2>5. x <= y
    BY <2>1, <2>2, <2>3, <2>4
  <2> QED BY <2>5 DEF x, y, NoMore
<1> QED BY <1>1, <1>2

(* Shares are in thousandths.  Where one falls: after which value, and how *)
(* far.                                                                    *)
Shares == 0 .. 1000
Scaled(n, x) == x * (n - 1)
Place(n, x) == 1 + (Scaled(n, x) \div 1000)
Part(n, x) == Scaled(n, x) % 1000

Falls(n, x) ==
  /\ Stretch(n, Place(n, x), Part(n, x), Part(n, x))
  /\ Scaled(n, x) \in Int /\ Scaled(n, x) = 1000 * (Place(n, x) - 1) + Part(n, x)
  /\ \A y \in Shares : NoMore(x, y) => NoMore(Scaled(n, x), Scaled(n, y))

LEMMA ShareFalls ==
  ASSUME NEW n \in Nat \ {0}, NEW x \in Shares
  PROVE  Falls(n, x)
<1> DEFINE k == n - 1
           pos == Scaled(n, x)
<1>0. x \in 0 .. 1000
  BY DEF Shares
<1>1. k \in Nat /\ n = k + 1
  OBVIOUS
<1>2. \A y \in Int : Scaled(n, y) = k * y
  BY DEF Scaled
<1> HIDE DEF k, pos
<1>3. pos \in Int /\ 0 <= pos /\ pos <= 1000 * k /\ \A y \in x .. 1000 : pos <= Scaled(n, y)
  <2>1. k * 0 <= k * x /\ k * x <= k * 1000 /\ k * x \in Int
    <3>1. 0 <= x /\ x <= 1000 /\ x \in Int /\ 0 \in Int /\ 1000 \in Int
      BY <1>0
    <3> QED BY <1>1, <3>1, Grows
  <2>2. k * 0 = 0 /\ k * 1000 = 1000 * k
    BY <1>1
  <2>3. ASSUME NEW y \in x .. 1000 PROVE pos <= Scaled(n, y)
    <3>1. k * x <= k * y
      <4>1. x <= y /\ x \in Int /\ y \in Int
        BY <1>0
      <4> QED BY <1>1, <4>1, Grows
    <3>2. pos = k * x /\ Scaled(n, y) = k * y
      BY <1>0, <1>2 DEF pos
    <3> QED BY <3>1, <3>2
  <2>4. pos = k * x
    BY <1>0, <1>2 DEF pos
  <2> DEFINE w == k * x
  <2>5. w \in Int /\ 0 <= w /\ w <= 1000 * k /\ pos = w
    BY <2>1, <2>2, <2>4
  <2> HIDE DEF w
  <2> QED BY <2>3, <2>5
<1> DEFINE l == 1 + (pos \div 1000)
           f == pos % 1000
<1>4. l \in Int /\ f \in 0 .. 999 /\ pos = 1000 * (l - 1) + f
  <2>1. pos \in Int
    BY <1>3
  <2> QED BY <2>1
<1>5. Place(n, x) = l /\ Part(n, x) = f
  BY DEF Place, Part, pos
<1> HIDE DEF l, f
<1>6. l \in 1 .. n /\ (l = n => f = 0)
  <2>1. pos \in Int /\ 0 <= pos /\ pos <= 1000 * k
    BY <1>3
  <2>2. l <= k + 1 /\ 1 <= l /\ (l = k + 1 => f = 0)
    BY <1>1, <1>4, <2>1
  <2> QED BY <1>1, <1>4, <2>2
<1>7. pos = Scaled(n, x)
  BY DEF pos
<1>8. Stretch(n, Place(n, x), Part(n, x), Part(n, x))
  BY <1>4, <1>5, <1>6 DEF Stretch
<1>9. ASSUME NEW y \in Shares, NoMore(x, y) PROVE NoMore(Scaled(n, x), Scaled(n, y))
  <2>1. y \in x .. 1000
    BY <1>0, <1>9 DEF Shares, NoMore
  <2> QED BY <1>3, <1>7, <2>1 DEF NoMore
<1> QED BY <1>3, <1>4, <1>5, <1>7, <1>8, <1>9 DEF Falls

StaysWithin(n, s) == \A p \in Shares : Sums!PercentileSorted(s, p) \in 1000 * s[1] .. 1000 * s[n]
RisesWithShare(s) ==
  \A p, q \in Shares : p <= q => Sums!PercentileSorted(s, p) <= Sums!PercentileSorted(s, q)
EndsAtExtremes(n, s) ==
  Sums!PercentileSorted(s, 0) = 1000 * s[1] /\ Sums!PercentileSorted(s, 1000) = 1000 * s[n]

(* Percentiles of a list in order lie between its values, rise with the    *)
(* share asked, and end at the extremes (percentileSorted): no bound of a  *)
(* bootstrap is outside what it measured.                                  *)
THEOREM PercentilesRise ==
  ASSUME NEW n \in Nat \ {0}, NEW s \in [1 .. n -> Int], InOrder(s, n)
  PROVE  StaysWithin(n, s) /\ RisesWithShare(s) /\ EndsAtExtremes(n, s)
<1>1. ASSUME NEW p
      PROVE  Sums!PercentileSorted(s, p) = Between(s, Place(n, p), Part(n, p))
  <2>1. Len(s) = n
    OBVIOUS
  <2> QED BY <2>1 DEF Sums!PercentileSorted, Between, Place, Part, Scaled
<1>2. ASSUME NEW p \in Shares
      PROVE  Falls(n, p) /\ Lies(n, s, Place(n, p), Between(s, Place(n, p), Part(n, p)))
  <2>1. Falls(n, p)
    BY ShareFalls
  <2> DEFINE l == Place(n, p)  f == Part(n, p)
  <2>2. Stretch(n, l, f, f)
    BY <2>1 DEF Falls
  <2> HIDE DEF l, f
  <2>3. Lies(n, s, l, Between(s, l, f))
    BY <2>2, StaysBetween
  <2> QED BY <2>1, <2>3 DEF l, f
<1>3. ASSUME NEW p \in Shares, NEW q \in Shares, NoMore(p, q)
      PROVE  NoMore(Sums!PercentileSorted(s, p), Sums!PercentileSorted(s, q))
  <2> DEFINE k == Place(n, p)  l == Place(n, q)  f == Part(n, p)  g == Part(n, q)
             v == Scaled(n, p)  w == Scaled(n, q)  x == Between(s, k, f)  y == Between(s, l, g)
  <2>1. Falls(n, p) /\ Falls(n, q) /\ Lies(n, s, k, x) /\ Lies(n, s, l, y)
    BY <1>2
  <2>2. v \in Int /\ v = 1000 * (k - 1) + f /\ k \in 1 .. n /\ f \in 0 .. 999
    BY <2>1 DEF Falls, Stretch
  <2>3. w \in Int /\ w = 1000 * (l - 1) + g /\ l \in 1 .. n /\ g \in 0 .. 999 /\ (l = n => g = 0)
    BY <2>1 DEF Falls, Stretch
  <2>4. v <= w
    <3>1. NoMore(Scaled(n, p), Scaled(n, q))
      BY <1>3, <2>1 DEF Falls
    <3> QED BY <3>1 DEF NoMore
  <2>5. Sums!PercentileSorted(s, p) = x /\ Sums!PercentileSorted(s, q) = y
    BY <1>1
  <2> HIDE DEF k, l, f, g, v, w
  <2>6. k < l \/ (k = l /\ f <= g)
    BY <2>2, <2>3, <2>4
  <2>7. CASE k < l
    <3> HIDE DEF x, y
    <3> DEFINE a == 1000 * s[l]
    <3>1. l \in k + 1 .. n
      BY <2>2, <2>3, <2>7
    <3>2. x \in Int /\ y \in Int /\ x <= a /\ a <= y
      BY <2>1, <3>1 DEF Lies
    <3>3. a \in Int
      BY <2>3
    <3> HIDE DEF a
    <3>4. NoMore(x, y)
      BY <3>2, <3>3 DEF NoMore
    <3> QED BY <2>5, <3>4
  <2>8. CASE k = l /\ f <= g
    <3> HIDE DEF x, y
    <3>1. Stretch(n, l, f, g)
      BY <2>2, <2>3, <2>8 DEF Stretch
    <3>2. NoMore(Between(s, l, f), Between(s, l, g))
      BY <3>1, BetweenGrows
    <3> QED BY <2>5, <2>8, <3>2 DEF x, y
  <2> QED BY <2>6, <2>7, <2>8
<1>4. Sums!PercentileSorted(s, 0) = 1000 * s[1]
  <2>1. Scaled(n, 0) = 0
    BY DEF Scaled
  <2>2. Place(n, 0) = 1 /\ Part(n, 0) = 0
    BY <2>1 DEF Place, Part
  <2> QED BY <1>1, <2>2 DEF Between
<1>5. Sums!PercentileSorted(s, 1000) = 1000 * s[n]
  <2>1. Scaled(n, 1000) = 1000 * (n - 1)
    BY DEF Scaled
  <2>2. (1000 * (n - 1)) \div 1000 = n - 1 /\ (1000 * (n - 1)) % 1000 = 0
    BY Quotient, 1000 \in Nat \ {0}, n - 1 \in Int, 1000 * (n - 1) \in Int, 0 \in 0 .. 1000 - 1, 1000 * (n - 1) = (1000 * (n - 1)) + 0
  <2>3. Place(n, 1000) = n /\ Part(n, 1000) = 0
    BY <2>1, <2>2 DEF Place, Part
  <2> QED BY <1>1, <2>3 DEF Between
<1>6. \A p, q \in Shares : NoMore(p, q) => NoMore(Sums!PercentileSorted(s, p), Sums!PercentileSorted(s, q))
  BY <1>3
<1>7. ASSUME NEW p \in Shares
      PROVE  Sums!PercentileSorted(s, p) \in 1000 * s[1] .. 1000 * s[n]
  <2> DEFINE first == 0  last == 1000
             Rises(q, r) == NoMore(Sums!PercentileSorted(s, q), Sums!PercentileSorted(s, r))
  <2>1. p \in Shares /\ first \in Shares /\ last \in Shares /\ NoMore(first, p) /\ NoMore(p, last)
    BY DEF NoMore, Shares
  <2>2. \A q, r \in Shares : NoMore(q, r) => Rises(q, r)
    BY <1>6
  <2> HIDE DEF first, last, Rises
  <2>3. Rises(first, p) /\ Rises(p, last)
    BY <2>1, <2>2
  <2> DEFINE x == Sums!PercentileSorted(s, p)  a == Sums!PercentileSorted(s, 0)
             b == Sums!PercentileSorted(s, 1000)
  <2>4. NoMore(a, x) /\ NoMore(x, b)
    BY <2>3 DEF Rises, first, last
  <2>5. x \in Int
    <3>1. Lies(n, s, Place(n, p), Between(s, Place(n, p), Part(n, p)))
      BY <1>2
    <3>2. Between(s, Place(n, p), Part(n, p)) \in Int
      BY <3>1 DEF Lies
    <3> QED BY <1>1, <3>2
  <2>6. a \in Int /\ b \in Int
    <3>1. s[1] \in Int /\ s[n] \in Int
      OBVIOUS
    <3> QED BY <1>4, <1>5, <3>1
  <2> HIDE DEF x, a, b
  <2>7. x \in a .. b
    BY <2>4, <2>5, <2>6 DEF NoMore
  <2> QED BY <1>4, <1>5, <2>7 DEF x, a, b
<1>8. StaysWithin(n, s)
  BY <1>7 DEF StaysWithin
<1>9. RisesWithShare(s)
  BY <1>6 DEF NoMore, RisesWithShare
<1>10. EndsAtExtremes(n, s)
  BY <1>4, <1>5 DEF EndsAtExtremes
<1> QED BY <1>8, <1>9, <1>10
=============================================================================
